-------------------------- MODULE SetValuePathProofs --------------------------
(***************************************************************************)
(* Proofs about SetValuePath, for any number of nodes, inputs and polls.   *)
(* First the write path is shown to use the API access manager as its own  *)
(* specification allows, so that all of its theorems hold here; with them, *)
(* PathInv is shown to be inductive.                                       *)
(***************************************************************************)
EXTENDS SetValuePath, ApiAccessManagerProofs

USE DEF HIGH, MEDIUM, LOW, NoRequest, NoInput, OldValue

-----------------------------------------------------------------------------
(* The manager within the write path                                       *)

\* Timers are those of a node and an input of the user.
LEMMA TimersTyped == PathSpec => [](scheduled \subseteq Timer)
<1>1. PathInit => scheduled \subseteq Timer
  BY DEF PathInit
<1>2. scheduled \subseteq Timer /\ [PathNext]_pathVars => (scheduled \subseteq Timer)'
  <2> SUFFICES ASSUME scheduled \subseteq Timer, [PathNext]_pathVars
               PROVE  scheduled' \subseteq Timer
    OBVIOUS
  <2>1. ASSUME NEW n \in Nodes, UserSets(n)
        PROVE  scheduled' \subseteq Timer
    <3>1. [node |-> n, value |-> inputs + 1] \in Timer
      BY <2>1 DEF UserSets, Timer
    <3> QED
      BY <2>1, <3>1 DEF UserSets
  <2>2. CASE scheduled' \subseteq scheduled
    BY <2>2
  <2> QED
    BY <2>1, <2>2
       DEF PathNext, pathVars, coordinatorVars, FireSet, EntryAges, FutureCallbacks,
           PollStarts, ManagerStarts, WorkerPicks, BoilerStores, CallSucceeds, CallFails,
           RetryQueued, PollCancelled, CoordinatorStops, QueueDrained
<1> QED
  BY <1>1, <1>2, PTL DEF PathSpec

\* Whatever the coordinator does, the manager below takes one of its own steps
\* or none.
LEMMA PathStepIsManagerStep ==
  scheduled \subseteq Timer /\ [PathNext]_pathVars => [ManagerNext]_managerVars
<1> SUFFICES ASSUME scheduled \subseteq Timer, [PathNext]_pathVars
             PROVE  ManagerNext \/ UNCHANGED managerVars
  OBVIOUS
<1>1. CASE UNCHANGED pathVars
  BY <1>1 DEF pathVars
<1>2. ASSUME NEW n \in Nodes, UserSets(n) \/ EntryAges(n)
      PROVE  UNCHANGED managerVars
  BY <1>2 DEF UserSets, EntryAges
<1>3. ASSUME NEW t \in scheduled, FireSet(t)
      PROVE  ManagerNext
  BY <1>3 DEF FireSet, ManagerNext, Timer
<1>4. ASSUME NEW g \in Groups, PollStarts(g, LOW)
      PROVE  ManagerNext
  <2>1. LOW \in {MEDIUM, LOW}
    OBVIOUS
  <2> QED
    BY <1>4, <2>1 DEF PollStarts, ManagerNext
<1> QED
  BY <1>1, <1>2, <1>3, <1>4
     DEF PathNext, ManagerNext, FutureCallbacks, ManagerStarts, WorkerPicks,
         WorkerTakes, BoilerStores, CallSucceeds, CallFails, RetryQueued, PollCancelled,
         CoordinatorStops, QueueDrained

\* The write path uses the manager as the manager's specification allows: all
\* theorems about the manager hold for the integration.
THEOREM PathUsesManager == PathSpec => ManagerSpec
<1>1. PathInit => ManagerInit
  BY DEF PathInit
<1>2. scheduled \subseteq Timer /\ [PathNext]_pathVars => [ManagerNext]_managerVars
  BY PathStepIsManagerStep
<1> QED
  BY <1>1, <1>2, TimersTyped, PTL DEF PathSpec, ManagerSpec

\* The latest value submitted for a node is the one that is sent, with the
\* debounce timers, the tasks and the polls of the coordinator above.
THEOREM PathImplementsLatestWriteWins == PathSpec => ImplementsLatestWriteWins
BY PathUsesManager, Refinement, PTL

-----------------------------------------------------------------------------
(* Values and the boiler                                                   *)

\* Values are natural numbers.
LEMMA ValuesAreNat == Values \subseteq Nat /\ Inputs \subseteq Values /\ 0 \in Values
BY PathAssumption DEF Values, Inputs

\* A node of the boiler holds its first value or that of one of its SETs.
LEMMA BoilerValueFacts ==
  ASSUME ManagerTypeOK, PathTypeOK, NEW n \in Nodes
  PROVE  /\ BoilerValue(n) \in Values
         /\ boiler[n] \in Nat
         /\ boiler[n] = 0 => BoilerValue(n) = 0
         /\ boiler[n] # 0 => /\ boiler[n] \in DOMAIN carries
                             /\ requests[boiler[n]].key = n
                             /\ BoilerValue(n) = carries[boiler[n]]
<1>1. boiler[n] \in Nat
  BY DEF ManagerTypeOK
<1>2. boiler[n] # 0 => boiler[n] \in DOMAIN carries /\ requests[boiler[n]].key = n
  BY DEF ManagerTypeOK, PathTypeOK, IsSet
<1>3. \A i \in DOMAIN carries : carries[i] \in Values
  BY ValuesAreNat DEF PathTypeOK
<1> QED
  BY <1>1, <1>2, <1>3, ValuesAreNat DEF BoilerValue

\* The same of the next state.
LEMMA BoilerValueFactsNext ==
  ASSUME ManagerTypeOK', PathTypeOK', NEW n \in Nodes
  PROVE  /\ BoilerValue(n)' \in Values
         /\ boiler'[n] \in Nat
         /\ boiler'[n] = 0 => BoilerValue(n)' = 0
         /\ boiler'[n] # 0 => /\ boiler'[n] \in DOMAIN carries'
                              /\ requests'[boiler'[n]].key = n
                              /\ BoilerValue(n)' = carries'[boiler'[n]]
<1>1. boiler'[n] \in Nat
  BY DEF ManagerTypeOK
<1>2. boiler'[n] # 0 => boiler'[n] \in DOMAIN carries' /\ requests'[boiler'[n]].key = n
  BY DEF ManagerTypeOK, PathTypeOK, IsSet
<1>3. \A i \in DOMAIN carries' : carries'[i] \in Values
  BY ValuesAreNat DEF PathTypeOK
<1> QED
  BY <1>1, <1>2, <1>3, ValuesAreNat DEF BoilerValue

\* The numbers of a node's SETs and the values they carry grow together: a
\* boiler that does not go back to an older request does not go back to an
\* older value.
LEMMA BoilerForward ==
  ASSUME ManagerTypeOK, PathTypeOK, ManagerTypeOK', PathTypeOK', InputsInOrder',
         \A i \in DOMAIN carries :
            /\ i \in DOMAIN carries'
            /\ carries'[i] = carries[i]
            /\ requests'[i].key = requests[i].key,
         NEW n \in Nodes, boiler[n] <= boiler'[n]
  PROVE  /\ BoilerValue(n) \in Nat
         /\ BoilerValue(n)' \in Nat
         /\ BoilerValue(n) <= BoilerValue(n)'
<1>1. /\ BoilerValue(n) \in Nat
      /\ boiler[n] \in Nat
      /\ boiler[n] = 0 => BoilerValue(n) = 0
      /\ boiler[n] # 0 => /\ boiler[n] \in DOMAIN carries
                          /\ requests[boiler[n]].key = n
                          /\ BoilerValue(n) = carries[boiler[n]]
  BY BoilerValueFacts, ValuesAreNat
<1>2. /\ BoilerValue(n)' \in Nat
      /\ boiler'[n] \in Nat
      /\ boiler'[n] # 0 => /\ boiler'[n] \in DOMAIN carries'
                           /\ requests'[boiler'[n]].key = n
                           /\ BoilerValue(n)' = carries'[boiler'[n]]
  BY BoilerValueFactsNext, ValuesAreNat
<1>3. CASE boiler[n] = 0
  BY <1>1, <1>2, <1>3
<1>4. CASE boiler[n] # 0
  <2>1. boiler'[n] # 0
    BY <1>1, <1>2, <1>4
  <2>2. boiler[n] = boiler'[n] \/ carries'[boiler[n]] < carries'[boiler'[n]]
    BY <1>1, <1>2, <1>4, <2>1 DEF InputsInOrder
  <2> QED
    BY <1>1, <1>2, <1>4, <2>1, <2>2
<1> QED
  BY <1>3, <1>4

-----------------------------------------------------------------------------
(* Steps of the manager alone                                              *)

\* What the steps of the manager that submit no SET keep: keys, and the SETs.
SetsKept ==
    /\ \A i \in DOMAIN requests :
          i \in DOMAIN requests' /\ requests'[i].key = requests[i].key
    /\ \A i \in DOMAIN requests' : requests'[i].key \in Nodes => i \in DOMAIN requests

\* A step of the manager that submits no SET keeps the invariant, if a poll's
\* new answer is the boiler's and CallbacksFresh is kept.
LEMMA ManagerStepInv ==
  ASSUME PathInv, ManagerInv, ManagerInv', SetsKept,
         \A n \in Nodes : boiler[n] <= boiler'[n],
         \A i \in DOMAIN carries :
            requests'[i].future = "result" => i <= boiler'[requests[i].key],
         \A i \in DOMAIN carries :
            ~IsDone(i)' \/ i \in ready' => ~IsDone(i) \/ i \in ready,
         phase' # "running" => scheduled = {},
         phase' = "new" => phase = "new",
         phase' = "running" => phase \in {"new", "running"},
         UNCHANGED <<inputs, latestInput, scheduled, pendingTimers, optimistic, data, tasks,
                     carries>>,
         answer' \in [Nodes -> Values],
         \A n \in Nodes : answer'[n] = answer[n] \/ answer'[n] = BoilerValue(n)',
         CallbacksFresh'
  PROVE  PathInv'
<1>1. ManagerTypeOK /\ ManagerTypeOK' /\ PathTypeOK
  BY DEF ManagerInv, PathInv
<1>2. DOMAIN carries = {i \in DOMAIN requests : requests[i].key \in Nodes}
  BY <1>1 DEF PathTypeOK, IsSet
<1>3. PathTypeOK'
  <2>1. DOMAIN carries = {i \in DOMAIN requests' : requests'[i].key \in Nodes}
    BY <1>2 DEF SetsKept
  <2> QED
    BY <1>1, <2>1 DEF PathTypeOK, IsSet
<1>4. TimersHoldLatest'
  BY DEF PathInv, TimersHoldLatest
<1>5. \A i \in DOMAIN carries : i \in DOMAIN requests /\ requests'[i].key = requests[i].key
  BY <1>2 DEF SetsKept
<1>6. InputsInOrder'
  BY <1>5 DEF PathInv, InputsInOrder
<1>7. TasksMatchRequests'
  BY <1>1, <1>5 DEF PathInv, TasksMatchRequests, PathTypeOK
<1>8. DebounceKeepsLatest'
  <2>1. CASE phase = "running"
    <3>1. \A n \in Nodes : RequestsOf(n)' = RequestsOf(n)
      BY DEF SetsKept, RequestsOf
    <3>2. \A n \in Nodes : \A i \in RequestsOf(n) :
             i \in DOMAIN requests /\ requests[i].key = n /\ requests'[i].key = n
      BY DEF SetsKept, RequestsOf
    <3>3. \A n \in Nodes : \A i \in RequestsOf(n) : IsNewest(i) => IsNewest(i)'
      BY <3>1, <3>2 DEF IsNewest
    <3> QED
      BY <2>1, <3>1, <3>3 DEF PathInv, DebounceKeepsLatest
  <2>2. CASE phase = "new"
    <3>1. \A n \in Nodes : latestInput[n] = 0
      BY <2>2, <1>1, ValuesAreNat DEF PathInv, TimersHoldLatest, PathTypeOK
    <3> QED
      BY <3>1 DEF DebounceKeepsLatest
  <2>3. CASE phase' # "running"
    BY <2>3 DEF DebounceKeepsLatest
  <2> QED
    BY <2>1, <2>2, <2>3
<1>9. BehindBoiler'
  <2>1. \A n \in Nodes : /\ BoilerValue(n) \in Nat
                         /\ BoilerValue(n)' \in Nat
                         /\ BoilerValue(n) <= BoilerValue(n)'
    BY <1>1, <1>3, <1>5, <1>6, BoilerForward
  <2>2. \A n \in Nodes : data'[n] <= BoilerValue(n)'
    BY <2>1, <1>1, ValuesAreNat DEF PathInv, BehindBoiler, DataNotAheadOfBoiler, PathTypeOK
  <2>3. \A n \in Nodes : answer'[n] <= BoilerValue(n)'
    BY <2>1, <1>1, ValuesAreNat DEF PathInv, BehindBoiler, PathTypeOK
  <2>4. \A i \in DOMAIN tasks :
           tasks[i].node \in Nodes /\ tasks[i].old \in Nat
    BY <1>1, ValuesAreNat DEF PathTypeOK, Task
  <2>5. ASSUME NEW i \in DOMAIN tasks'
        PROVE  (tasks[i].old <= BoilerValue(tasks[i].node))'
    <3> PICK n \in Nodes : n = tasks[i].node
      BY <2>4
    <3>1. tasks[i].old \in Nat /\ tasks' = tasks
      BY <2>4
    <3>2. tasks[i].old <= BoilerValue(n)
      BY <3>1 DEF PathInv, BehindBoiler
    <3>3. (tasks[i].old <= BoilerValue(tasks[i].node))' <=> tasks[i].old <= BoilerValue(n)'
      BY <3>1 DEF BoilerValue
    <3> QED
      BY <3>1, <3>2, <3>3, <2>1
  <2>6. \A i \in DOMAIN carries' :
           requests'[i].future = "result" => i <= boiler'[requests'[i].key]
    BY <1>5
  <2> QED
    BY <2>2, <2>3, <2>5, <2>6 DEF BehindBoiler, DataNotAheadOfBoiler
<1> QED
  BY <1>3, <1>4, <1>6, <1>7, <1>8, <1>9 DEF PathInv

\* Steps of the manager that leave the requests alone: start, the worker, the
\* boiler and the end of a pause.
LEMMA WorkerStepInv ==
  ASSUME PathInv, ManagerInv, ManagerInv',
         Start \/ SkipSuperseded \/ Execute \/ BoilerApplies \/ Requeue,
         UNCHANGED coordinatorVars
  PROVE  PathInv'
<1>1. requests' = requests /\ ready' = ready
  BY DEF Start, SkipSuperseded, Execute, BoilerApplies, Requeue
<1>2. SetsKept
  BY <1>1 DEF SetsKept
<1>3. boiler \in [Nodes -> Nat] /\ boiler' \in [Nodes -> Nat]
      /\ \A n \in Nodes : boiler[n] <= boiler'[n]
  <2>1. boiler \in [Nodes -> Nat] /\ boiler' \in [Nodes -> Nat]
    BY DEF ManagerInv, ManagerTypeOK
  <2>2. CASE BoilerApplies
    BY <2>1, <2>2 DEF BoilerApplies, ManagerInv, BoilerNotAhead
  <2>3. CASE boiler' = boiler
    BY <2>1, <2>3
  <2> QED
    BY <2>1, <2>2, <2>3 DEF Start, SkipSuperseded, Execute, Requeue
<1>4. ASSUME NEW i \in DOMAIN carries, requests'[i].future = "result"
      PROVE  i <= boiler'[requests[i].key]
  <2>1. i \in Nat /\ requests[i].key \in Nodes
    BY DEF PathInv, PathTypeOK, IsSet, ManagerInv, ManagerTypeOK
  <2>2. i <= boiler[requests[i].key]
    BY <1>1, <1>4 DEF PathInv, BehindBoiler
  <2> QED
    BY <2>1, <2>2, <1>3
<1>5. /\ phase' # "running" => scheduled = {}
      /\ phase' = "new" => phase = "new"
      /\ phase' = "running" => phase \in {"new", "running"}
  BY DEF Start, SkipSuperseded, Execute, BoilerApplies, Requeue, PathInv, TimersHoldLatest
<1>6. CallbacksFresh'
  BY <1>1 DEF coordinatorVars, PathInv, CallbacksFresh, IsSet
<1>7. answer' = answer /\ answer \in [Nodes -> Values]
  BY DEF coordinatorVars, PathInv, PathTypeOK
<1>8. \A i \in DOMAIN carries : ~IsDone(i)' \/ i \in ready' => ~IsDone(i) \/ i \in ready
  BY <1>1 DEF IsDone
<1> QED
  BY <1>2, <1>3, <1>4, <1>5, <1>6, <1>7, <1>8, ManagerStepInv DEF coordinatorVars

\* A call that fails resolves its future with an exception, or not at all.
LEMMA CallFailsInv ==
  ASSUME PathInv, ManagerInv, ManagerInv', CallFails
  PROVE  PathInv'
<1>1. /\ worker.id \in DOMAIN requests /\ ready = {}
      /\ requests \in [DOMAIN requests -> Request]
  BY DEF CallFails, ExecuteFails, ExecuteFailsAndRetries, ManagerInv, ManagerTypeOK
<1>2. /\ DOMAIN requests' = DOMAIN requests
      /\ \A i \in DOMAIN requests :
            /\ requests'[i].key = requests[i].key
            /\ requests'[i].future \in {requests[i].future, "exception"}
      /\ ready' \subseteq {worker.id}
      /\ \A i \in ready' : requests'[i].future = "exception"
  BY <1>1 DEF CallFails, ExecuteFails, ExecuteFailsAndRetries, Resolve, Request
<1>10. \A i \in DOMAIN requests : ~IsDone(i)' \/ i \in ready' => ~IsDone(i) \/ i \in ready
  BY <1>1 DEF CallFails, ExecuteFails, ExecuteFailsAndRetries, Resolve, IsDone, Request
<1>3. boiler' = boiler /\ phase' = phase /\ UNCHANGED coordinatorVars
      /\ boiler \in [Nodes -> Nat]
  BY DEF CallFails, ExecuteFails, ExecuteFailsAndRetries, ManagerInv, ManagerTypeOK
<1>4. SetsKept
  BY <1>2 DEF SetsKept
<1>5. ASSUME NEW i \in DOMAIN carries, requests'[i].future = "result"
      PROVE  i <= boiler'[requests[i].key]
  BY <1>2, <1>3, <1>5 DEF PathInv, BehindBoiler, PathTypeOK
<1>6. CallbacksFresh'
  BY <1>2 DEF CallbacksFresh
<1>7. /\ phase' # "running" => scheduled = {}
      /\ phase' = "running" => phase \in {"new", "running"}
      /\ answer' = answer /\ answer \in [Nodes -> Values]
  BY <1>3 DEF coordinatorVars, PathInv, TimersHoldLatest, PathTypeOK
<1>8. \A n \in Nodes : boiler[n] <= boiler'[n]
  BY <1>3
<1>9. \A i \in DOMAIN carries : ~IsDone(i)' \/ i \in ready' => ~IsDone(i) \/ i \in ready
  BY <1>10 DEF PathInv, PathTypeOK
<1> QED
  BY <1>3, <1>4, <1>5, <1>6, <1>7, <1>8, <1>9, ManagerStepInv DEF coordinatorVars

\* A call that succeeds: what its callback is going to write is what the boiler
\* holds at this moment.
LEMMA CallSucceedsInv ==
  ASSUME PathInv, ManagerInv, ManagerInv', CallSucceeds
  PROVE  PathInv'
<1> DEFINE w == worker.id
<1>1. /\ w \in DOMAIN requests /\ ready = {}
      /\ requests \in [DOMAIN requests -> Request]
      /\ IsSet(w) => boiler[requests[w].key] = w
      /\ boiler' = boiler /\ phase' = phase /\ boiler \in [Nodes -> Nat]
      /\ DOMAIN requests \subseteq Nat
  BY DEF CallSucceeds, ExecuteSucceeds, ManagerInv, ManagerTypeOK
<1>2. /\ DOMAIN requests' = DOMAIN requests
      /\ \A i \in DOMAIN requests :
            /\ requests'[i].key = requests[i].key
            /\ i # w => requests'[i].future = requests[i].future
      /\ ready' \subseteq {w}
  BY <1>1 DEF CallSucceeds, ExecuteSucceeds, Resolve, Request
<1>11. \A i \in DOMAIN carries : ~IsDone(i)' \/ i \in ready' => ~IsDone(i) \/ i \in ready
  BY <1>1 DEF CallSucceeds, ExecuteSucceeds, Resolve, IsDone, Request, PathInv, PathTypeOK
<1>3. SetsKept
  BY <1>2 DEF SetsKept
<1>4. ASSUME NEW i \in DOMAIN carries, requests'[i].future = "result"
      PROVE  i <= boiler'[requests[i].key]
  <2>1. i \in DOMAIN requests /\ IsSet(i) /\ i \in Nat
    BY <1>1 DEF PathInv, PathTypeOK
  <2>2. CASE i = w
    BY <2>1, <2>2, <1>1
  <2>3. CASE i # w
    BY <2>1, <2>3, <1>1, <1>2, <1>4 DEF PathInv, BehindBoiler
  <2> QED
    BY <2>2, <2>3
<1>5. \A n \in Nodes : BoilerValue(n) \in Values
  BY BoilerValueFacts DEF PathInv, ManagerInv
<1>6. /\ UNCHANGED <<inputs, latestInput, scheduled, pendingTimers, optimistic, data, tasks,
                     carries>>
      /\ answer' = IF IsSet(w) THEN answer ELSE [n \in Nodes |-> BoilerValue(n)]
  BY DEF CallSucceeds
<1>7. \A n \in Nodes : BoilerValue(n)' = BoilerValue(n)
  BY <1>1, <1>6 DEF BoilerValue
<1>8. /\ answer' \in [Nodes -> Values]
      /\ \A n \in Nodes : answer'[n] = answer[n] \/ answer'[n] = BoilerValue(n)'
  <2>1. CASE IsSet(w)
    BY <2>1, <1>6 DEF PathInv, PathTypeOK
  <2>2. CASE ~IsSet(w)
    <3>1. answer' = [n \in Nodes |-> BoilerValue(n)]
      BY <2>2, <1>6
    <3> QED
      BY <3>1, <1>5, <1>7
  <2> QED
    BY <2>1, <2>2
<1>9. CallbacksFresh'
  <2>1. \A n \in Nodes : data[n] <= BoilerValue(n)
    BY DEF PathInv, BehindBoiler, DataNotAheadOfBoiler
  <2>2. CASE IsSet(w)
    <3>1. PICK n \in Nodes : n = requests[w].key
      BY <2>2 DEF IsSet
    <3>2. BoilerValue(n) = carries[w]
      BY <1>1, <2>2, <3>1, BoilerValueFacts DEF PathInv, ManagerInv, ManagerTypeOK
    <3>3. data'[requests'[w].key] <= carries'[w]
      BY <1>1, <1>2, <1>6, <2>1, <3>1, <3>2
    <3> QED
      BY <1>2, <2>2, <3>1, <3>3, <1>1 DEF CallbacksFresh, IsSet
  <2>3. CASE ~IsSet(w)
    <3>1. answer' = [n \in Nodes |-> BoilerValue(n)]
      BY <2>3, <1>6
    <3>2. \A n \in Nodes : data'[n] <= answer'[n]
      BY <1>6, <2>1, <3>1
    <3> QED
      BY <1>1, <1>2, <2>3, <3>2 DEF CallbacksFresh, IsSet
  <2> QED
    BY <2>2, <2>3
<1>10. /\ phase' # "running" => scheduled = {}
       /\ phase' = "running" => phase \in {"new", "running"}
       /\ \A n \in Nodes : boiler[n] <= boiler'[n]
  BY <1>1 DEF PathInv, TimersHoldLatest
<1> QED
  BY <1>1, <1>3, <1>4, <1>6, <1>8, <1>9, <1>10, <1>11, ManagerStepInv

\* Cancelled futures write nothing: callers that give up, and the rest of a
\* stop once the timers are gone.
LEMMA CancelledInv ==
  ASSUME PathInv, ManagerInv, ManagerInv',
         \/ QueueDrained
         \/ \E i \in DOMAIN requests : PollCancelled(i)
  PROVE  PathInv'
<1>1. /\ requests \in [DOMAIN requests -> Request] /\ ready \subseteq DOMAIN requests
      /\ boiler \in [Nodes -> Nat] /\ boiler' = boiler
      /\ UNCHANGED coordinatorVars
  BY DEF QueueDrained, PollCancelled, DrainQueue, CancelGet, ManagerInv, ManagerTypeOK
<1>2. /\ DOMAIN requests' = DOMAIN requests
      /\ \A i \in DOMAIN requests :
            /\ requests'[i].key = requests[i].key
            /\ requests'[i].future \in {requests[i].future, "cancelled"}
            /\ IsDone(i) => requests'[i].future = requests[i].future
      /\ \A i \in ready' : i \in ready \/ requests'[i].future = "cancelled"
      /\ \A i \in DOMAIN requests : ~IsDone(i)' \/ i \in ready' => ~IsDone(i) \/ i \in ready
  <2>1. CASE QueueDrained
    <3> DEFINE waiting == {i \in {e.id : e \in queue} : ~IsDone(i)}
    <3>1. /\ waiting \subseteq DOMAIN requests
          /\ ready' = ready \cup waiting
          /\ requests' = [i \in DOMAIN requests |->
                            IF i \in waiting
                            THEN [requests[i] EXCEPT !.future = "cancelled"]
                            ELSE requests[i]]
      BY <2>1 DEF QueueDrained, DrainQueue, ManagerInv, ManagerTypeOK
    <3>2. \A i \in waiting : ~IsDone(i)
      OBVIOUS
    <3> HIDE DEF waiting
    <3> QED
      BY <1>1, <3>1, <3>2 DEF Request, IsDone
  <2>2. CASE \E i \in DOMAIN requests : PollCancelled(i)
    <3> PICK i \in DOMAIN requests : PollCancelled(i)
      BY <2>2
    <3>1. /\ ~IsDone(i)
          /\ requests' = [requests EXCEPT ![i].future = "cancelled"]
          /\ ready' = ready \cup {i}
      BY DEF PollCancelled, CancelGet, Resolve
    <3> QED
      BY <1>1, <3>1 DEF Request, IsDone
  <2> QED
    BY <2>1, <2>2
<1>3. SetsKept
  BY <1>2 DEF SetsKept
<1>4. ASSUME NEW i \in DOMAIN carries, requests'[i].future = "result"
      PROVE  i <= boiler'[requests[i].key]
  BY <1>1, <1>2, <1>4 DEF PathInv, BehindBoiler, PathTypeOK
<1>5. CallbacksFresh'
  <2>1. \A i \in ready' : i \in DOMAIN requests
    BY <1>2 DEF ManagerInv, ManagerTypeOK
  <2>2. \A i \in ready' : requests'[i].future # "cancelled" =>
           i \in ready /\ requests'[i].future = requests[i].future
    BY <1>2, <2>1 DEF ManagerInv, FutureShape
  <2>3. \A i \in DOMAIN requests : IsSet(i)' <=> IsSet(i)
    BY <1>2 DEF IsSet
  <2> QED
    BY <1>1, <1>2, <2>1, <2>2, <2>3
       DEF PathInv, CallbacksFresh, coordinatorVars
<1>6. /\ phase' # "running" => scheduled = {}
      /\ phase' = "new" => phase = "new"
      /\ phase' = "running" => phase \in {"new", "running"}
  BY DEF QueueDrained, PollCancelled, DrainQueue, CancelGet, PathInv, TimersHoldLatest
<1>7. answer' = answer /\ answer \in [Nodes -> Values]
      /\ \A n \in Nodes : boiler[n] <= boiler'[n]
  BY <1>1 DEF coordinatorVars, PathInv, PathTypeOK
<1>8. \A i \in DOMAIN carries : ~IsDone(i)' \/ i \in ready' => ~IsDone(i) \/ i \in ready
  BY <1>2 DEF PathInv, PathTypeOK
<1> QED
  BY <1>1, <1>3, <1>4, <1>5, <1>6, <1>7, <1>8, ManagerStepInv DEF coordinatorVars

\* A poll that starts is a request of a group: nothing the write path knows.
LEMMA PollStartsInv ==
  ASSUME PathInv, ManagerInv, ManagerInv', NEW g \in Groups, PollStarts(g, LOW)
  PROVE  PathInv'
<1>1. /\ UNCHANGED coordinatorVars
      /\ UNCHANGED managerVars \/ CreateAndQueue(g, LOW, requests)
      /\ g \notin Nodes
      /\ counter \in Nat /\ DOMAIN requests \subseteq 1..counter
      /\ boiler \in [Nodes -> Nat]
      /\ ready \subseteq DOMAIN requests
  BY ManagerAssumption DEF PollStarts, SubmitGet, ManagerInv, ManagerTypeOK
<1>2. /\ boiler' = boiler /\ phase' = phase /\ ready' = ready
      /\ \A i \in DOMAIN requests : i \in DOMAIN requests' /\ requests'[i] = requests[i]
      /\ \A i \in DOMAIN requests' : requests'[i].key \in Nodes => i \in DOMAIN requests
  <2>1. CASE UNCHANGED managerVars
    BY <2>1 DEF managerVars
  <2>2. CASE CreateAndQueue(g, LOW, requests)
    BY <1>1, <2>2 DEF CreateAndQueue
  <2> QED
    BY <1>1, <2>1, <2>2
<1>3. SetsKept
  BY <1>2 DEF SetsKept
<1>4. ASSUME NEW i \in DOMAIN carries, requests'[i].future = "result"
      PROVE  i <= boiler'[requests[i].key]
  BY <1>2, <1>4 DEF PathInv, BehindBoiler, PathTypeOK
<1>5. CallbacksFresh'
  <2>1. \A i \in ready : requests'[i] = requests[i] /\ (IsSet(i)' <=> IsSet(i))
    BY <1>1, <1>2 DEF IsSet
  <2> QED
    BY <1>1, <1>2, <2>1 DEF PathInv, CallbacksFresh, coordinatorVars
<1>6. /\ phase' # "running" => scheduled = {}
      /\ phase' = "running" => phase \in {"new", "running"}
      /\ answer' = answer /\ answer \in [Nodes -> Values]
      /\ \A n \in Nodes : boiler[n] <= boiler'[n]
  BY <1>1, <1>2 DEF coordinatorVars, PathInv, PathTypeOK, TimersHoldLatest
<1>7. \A i \in DOMAIN carries : ~IsDone(i)' \/ i \in ready' => ~IsDone(i) \/ i \in ready
  BY <1>2 DEF IsDone, PathInv, PathTypeOK
<1> QED
  BY <1>1, <1>2, <1>3, <1>4, <1>5, <1>6, <1>7, ManagerStepInv DEF coordinatorVars

-----------------------------------------------------------------------------
(* Steps of the coordinator                                                *)

\* What no step of the coordinator below changes: the requests, and the boiler.
LEMMA SameBoiler ==
  ASSUME requests' = requests, boiler' = boiler, carries' = carries
  PROVE  /\ \A n \in Nodes : BoilerValue(n)' = BoilerValue(n)
         /\ \A n \in Nodes : RequestsOf(n)' = RequestsOf(n)
         /\ \A i : IsNewest(i)' <=> IsNewest(i)
         /\ \A i : IsSet(i)' <=> IsSet(i)
BY DEF BoilerValue, RequestsOf, IsNewest, IsSet

\* A new input replaces the timer of its node: it is newer than anything there.
LEMMA UserSetsInv ==
  ASSUME PathInv, ManagerInv, NEW n \in Nodes, UserSets(n)
  PROVE  PathInv'
<1> DEFINE v == inputs + 1
           timer == [node |-> n, value |-> v]
           cancelled == [node |-> n, value |-> pendingTimers[n]]
<1>1. /\ phase = "running" /\ v \in Inputs
      /\ inputs' = v
      /\ latestInput' = [latestInput EXCEPT ![n] = v]
      /\ scheduled' = (scheduled \ {cancelled}) \cup {timer}
      /\ pendingTimers' = [pendingTimers EXCEPT ![n] = v]
      /\ optimistic' = [optimistic EXCEPT ![n] = NewEntry(v)]
      /\ UNCHANGED <<managerVars, data, tasks, carries, answer>>
  BY DEF UserSets
<1>2. /\ timer \in Timer /\ v \in Values /\ inputs \in Nat /\ v = inputs + 1
      /\ timer.node = n /\ timer.value = v
      /\ scheduled \subseteq Timer
  BY <1>1, ValuesAreNat, PathAssumption DEF Timer, PathInv, PathTypeOK
<1>3. \A t \in scheduled' : t = timer \/ (t \in scheduled /\ t.node # n)
  <2> SUFFICES ASSUME NEW t \in scheduled', t # timer, t.node = n
               PROVE  FALSE
    BY <1>1
  <2>1. t \in scheduled /\ t \in Timer /\ t # cancelled
    BY <1>1, <1>2
  <2>2. t.value = pendingTimers[n]
    BY <2>1 DEF PathInv, TimersHoldLatest
  <2>3. t = [node |-> t.node, value |-> t.value]
    BY <2>1 DEF Timer
  <2> QED
    BY <2>1, <2>2, <2>3
<1>4. requests' = requests /\ boiler' = boiler /\ ready' = ready /\ phase' = phase
      /\ ManagerTypeOK'
  BY <1>1 DEF managerVars, ManagerInv, ManagerTypeOK, IsSet
<1> HIDE DEF timer, cancelled
<1>5. PathTypeOK'
  <2>1. NewEntry(v) \in [value : Values, age : Ages]
    BY <1>2 DEF NewEntry, Ages
  <2>2. inputs' \in 0..MaxInputs
    BY <1>1, PathAssumption DEF Inputs
  <2>3. scheduled' \subseteq Timer
    BY <1>2, <1>3
  <2>4. /\ latestInput' \in [Nodes -> Values] /\ pendingTimers' \in [Nodes -> Values]
        /\ optimistic' \in [Nodes -> [value : Values, age : Ages]]
    BY <1>1, <1>2, <2>1 DEF PathInv, PathTypeOK
  <2> QED
    BY <1>1, <1>4, <2>2, <2>3, <2>4 DEF PathInv, PathTypeOK, IsSet
<1>6. TimersHoldLatest'
  <2>1. \A t \in scheduled' : pendingTimers'[t.node] = t.value
    BY <1>1, <1>2, <1>3 DEF PathInv, PathTypeOK, TimersHoldLatest, Timer
  <2>2. \A m \in Nodes : pendingTimers'[m] \in {NoInput, latestInput'[m]}
    BY <1>1 DEF PathInv, PathTypeOK, TimersHoldLatest
  <2>3. \A m \in Nodes : latestInput'[m] <= inputs'
    BY <1>1, <1>2, ValuesAreNat DEF PathInv, PathTypeOK, TimersHoldLatest
  <2> QED
    BY <1>1, <1>4, <2>1, <2>2, <2>3 DEF TimersHoldLatest
<1>7. InputsInOrder'
  <2>1. \A i \in DOMAIN carries : carries[i] \in Nat
    BY ValuesAreNat DEF PathInv, PathTypeOK
  <2> QED
    BY <1>1, <1>2, <1>3, <1>4, <2>1 DEF PathInv, InputsInOrder
<1>8. DebounceKeepsLatest'
  BY <1>1, <1>4, SameBoiler DEF PathInv, PathTypeOK, DebounceKeepsLatest
<1>9. TasksMatchRequests'
  BY <1>1, <1>4 DEF PathInv, TasksMatchRequests, IsDone
<1>10. BehindBoiler' /\ CallbacksFresh'
  BY <1>1, <1>4 DEF PathInv, BehindBoiler, DataNotAheadOfBoiler, BoilerValue, CallbacksFresh,
     IsSet
<1> QED
  BY <1>5, <1>6, <1>7, <1>8, <1>9, <1>10 DEF PathInv

\* Ages change what is displayed and ignored, and nothing here.
LEMMA EntryAgesInv ==
  ASSUME PathInv, ManagerInv, NEW n \in Nodes, EntryAges(n)
  PROVE  PathInv'
<1>1. /\ UNCHANGED <<managerVars, inputs, latestInput, scheduled, pendingTimers, data, tasks,
                     carries, answer>>
      /\ optimistic' \in [Nodes -> [value : Values, age : Ages]]
  BY DEF EntryAges, PathInv, PathTypeOK, Ages
<1> QED
  BY <1>1
     DEF managerVars, PathInv, PathTypeOK, ManagerTypeOK, TimersHoldLatest, InputsInOrder,
         DebounceKeepsLatest, TasksMatchRequests, BehindBoiler, DataNotAheadOfBoiler,
         BoilerValue, CallbacksFresh, RequestsOf, IsNewest, IsSet, IsDone

\* The integration is unloaded: every timer is cancelled.
LEMMA CoordinatorStopsInv ==
  ASSUME PathInv, ManagerInv, ManagerInv', CoordinatorStops
  PROVE  PathInv'
<1>1. /\ requests' = requests /\ boiler' = boiler /\ ready' = ready
      /\ phase' = "stopping" /\ scheduled' = {}
      /\ pendingTimers' = [n \in Nodes |-> NoInput]
      /\ UNCHANGED <<inputs, latestInput, optimistic, data, tasks, carries, answer>>
  BY DEF CoordinatorStops, StopWorker, PathInv, TimersHoldLatest
<1>2. PathTypeOK'
  BY <1>1, ValuesAreNat DEF ManagerInv, PathInv, PathTypeOK, IsSet
<1> QED
  BY <1>1, <1>2
     DEF PathInv, TimersHoldLatest, InputsInOrder, DebounceKeepsLatest, TasksMatchRequests,
         BehindBoiler, DataNotAheadOfBoiler, BoilerValue, CallbacksFresh, IsSet, IsDone

\* A timer expires: the SET it submits is the newest of its node and carries
\* the latest input; what the rollback would write is what the data hold now.
LEMMA FireSetInv ==
  ASSUME PathInv, ManagerInv, ManagerInv', NEW t \in scheduled, FireSet(t)
  PROVE  PathInv'
<1> DEFINE id == counter + 1
           task == [node |-> t.node, value |-> t.value, old |-> data[t.node]]
           marked == IF pending[t.node] = NoRequest
                     THEN requests
                     ELSE [requests EXCEPT ![pending[t.node]].superseded = TRUE]
<1>1. /\ t \in Timer /\ t.node \in Nodes /\ t.value \in Inputs /\ t.node \notin Groups
      /\ t.value \in Values /\ t.value \in Nat
      /\ t = [node |-> t.node, value |-> t.value]
      /\ data[t.node] \in Values /\ data[t.node] \in Nat
  BY ManagerAssumption, ValuesAreNat DEF PathInv, PathTypeOK, Timer
<1>2. /\ counter \in Nat /\ DOMAIN requests \subseteq 1..counter
      /\ requests \in [DOMAIN requests -> Request]
      /\ ready \subseteq DOMAIN requests
      /\ id \notin DOMAIN requests /\ id \notin DOMAIN carries
      /\ DOMAIN carries \subseteq DOMAIN requests
      /\ boiler \in [Nodes -> Nat]
  BY DEF PathInv, PathTypeOK, ManagerInv, ManagerTypeOK
<1>3. /\ scheduled' = scheduled \ {t}
      /\ pendingTimers' = [pendingTimers EXCEPT ![t.node] = NoInput]
      /\ CreateAndQueue(t.node, HIGH, marked)
      /\ tasks' = [i \in DOMAIN tasks \cup {id} |-> IF i = id THEN task ELSE tasks[i]]
      /\ carries' = [i \in DOMAIN carries \cup {id} |->
                        IF i = id THEN t.value ELSE carries[i]]
      /\ UNCHANGED <<inputs, latestInput, optimistic, data, answer>>
  <2>1. Ticket(t.node) = id
    BY <1>1 DEF Ticket
  <2> QED
    BY <2>1 DEF FireSet, SubmitSet
<1>4. /\ ready' = ready /\ boiler' = boiler /\ phase' = phase
      /\ DOMAIN requests' = DOMAIN requests \cup {id}
      /\ requests'[id].key = t.node /\ requests'[id].future = "pending"
      /\ \A i \in DOMAIN requests :
            /\ requests'[i].key = requests[i].key
            /\ requests'[i].future = requests[i].future
  BY <1>2, <1>3 DEF CreateAndQueue, Request
<1>5. /\ id \in DOMAIN carries' /\ carries'[id] = t.value
      /\ DOMAIN carries' = DOMAIN carries \cup {id}
      /\ \A i \in DOMAIN carries : carries'[i] = carries[i]
      /\ id \in DOMAIN tasks' /\ tasks'[id] = task
      /\ DOMAIN tasks' = DOMAIN tasks \cup {id}
      /\ \A i \in DOMAIN tasks : i # id /\ tasks'[i] = tasks[i]
  BY <1>2, <1>3 DEF PathInv, PathTypeOK
<1>6. phase = "running" /\ pendingTimers[t.node] = t.value
      /\ latestInput[t.node] = t.value
  BY <1>1 DEF PathInv, TimersHoldLatest, Inputs
<1>7. PathTypeOK'
  <2>1. DOMAIN carries' = {i \in DOMAIN requests' : IsSet(i)'}
    BY <1>1, <1>2, <1>4, <1>5 DEF PathInv, PathTypeOK, IsSet
  <2>2. carries' \in [DOMAIN carries' -> Inputs]
    <3>1. \A i \in DOMAIN carries' : carries'[i] \in Inputs
      BY <1>1, <1>5 DEF PathInv, PathTypeOK
    <3> QED
      BY <1>3, <3>1
  <2>3. tasks' \in [DOMAIN tasks' -> Task]
    <3>1. task \in Task
      BY <1>1 DEF Task
    <3>2. \A i \in DOMAIN tasks' : tasks'[i] \in Task
      BY <1>5, <3>1 DEF PathInv, PathTypeOK
    <3> QED
      BY <1>3, <3>2
  <2>4. pendingTimers' \in [Nodes -> Values]
    BY <1>3, ValuesAreNat DEF PathInv, PathTypeOK
  <2>5. ManagerTypeOK'
    BY DEF ManagerInv
  <2> QED
    BY <1>3, <1>5, <2>1, <2>2, <2>3, <2>4, <2>5 DEF PathInv, PathTypeOK
<1>8. \A u \in scheduled' : u \in scheduled /\ u.node # t.node
  <2> SUFFICES ASSUME NEW u \in scheduled', u.node = t.node
               PROVE  FALSE
    BY <1>3
  <2>1. u \in scheduled /\ u # t /\ u = [node |-> u.node, value |-> u.value]
    BY <1>3 DEF PathInv, PathTypeOK, Timer
  <2>2. u.value = pendingTimers[t.node]
    BY <2>1 DEF PathInv, TimersHoldLatest
  <2> QED
    BY <1>1, <1>6, <2>1, <2>2
<1>9. TimersHoldLatest'
  BY <1>3, <1>4, <1>6, <1>8 DEF PathInv, PathTypeOK, TimersHoldLatest, Timer
<1>10. InputsInOrder'
  <2>1. \A i \in DOMAIN carries : i < id /\ i \in Nat /\ i \in DOMAIN requests
    BY <1>2
  <2>2. \A i \in DOMAIN carries : requests[i].key = t.node => carries[i] < t.value
    BY DEF PathInv, InputsInOrder
  <2>3. t.value <= inputs'
    BY <1>1, <1>3, <1>6 DEF PathInv, TimersHoldLatest
  <2>4. \A i, j \in DOMAIN carries' :
           requests'[i].key = requests'[j].key /\ i < j => carries'[i] < carries'[j]
    BY <1>2, <1>4, <1>5, <2>1, <2>2 DEF PathInv, InputsInOrder
  <2>5. \A u \in scheduled', i \in DOMAIN carries' :
           requests'[i].key = u.node => carries'[i] < u.value
    BY <1>4, <1>5, <1>8, <2>1 DEF PathInv, InputsInOrder
  <2>6. \A i \in DOMAIN carries' : carries'[i] <= inputs'
    BY <1>3, <1>5, <2>3 DEF PathInv, InputsInOrder
  <2> QED
    BY <2>4, <2>5, <2>6 DEF InputsInOrder
<1>11. DebounceKeepsLatest'
  <2> SUFFICES ASSUME NEW n \in Nodes, latestInput[n] # NoInput
               PROVE  \/ pendingTimers'[n] = latestInput[n]
                      \/ /\ pendingTimers'[n] = NoInput
                         /\ \E i \in RequestsOf(n)' :
                               IsNewest(i)' /\ carries'[i] = latestInput[n]
    BY <1>3 DEF DebounceKeepsLatest
  <2>1. CASE n = t.node
    <3>1. id \in RequestsOf(n)' /\ carries'[id] = latestInput[n]
      BY <2>1, <1>4, <1>5, <1>6 DEF RequestsOf
    <3>2. \A j \in RequestsOf(n)' : j <= id
      BY <1>2, <1>4 DEF RequestsOf
    <3>3. \E i \in RequestsOf(n)' : IsNewest(i)' /\ carries'[i] = latestInput[n]
      <4>1. PICK k \in RequestsOf(n)' : k = id
        BY <3>1
      <4>2. IsNewest(k)'
        BY <2>1, <1>2, <1>4, <4>1 DEF IsNewest, RequestsOf
      <4> QED
        BY <3>1, <4>1, <4>2
    <3> QED
      BY <2>1, <1>1, <1>3, <3>3 DEF PathInv, PathTypeOK
  <2>2. CASE n # t.node
    <3>1. pendingTimers'[n] = pendingTimers[n]
      BY <2>2, <1>3 DEF PathInv, PathTypeOK
    <3>2. RequestsOf(n)' = RequestsOf(n)
      BY <2>2, <1>4 DEF RequestsOf
    <3>3. \A i \in RequestsOf(n) : IsNewest(i) => IsNewest(i)'
      BY <2>2, <1>4 DEF IsNewest, RequestsOf
    <3>4. \A i \in RequestsOf(n) : i \in DOMAIN carries
      BY DEF RequestsOf, PathInv, PathTypeOK, IsSet
    <3> QED
      BY <1>5, <1>6, <3>1, <3>2, <3>3, <3>4 DEF PathInv, DebounceKeepsLatest
  <2> QED
    BY <2>1, <2>2
<1>12. TasksMatchRequests'
  BY <1>2, <1>4, <1>5 DEF PathInv, PathTypeOK, TasksMatchRequests, IsDone
<1>13. BehindBoiler'
  <2>1. \A n \in Nodes : BoilerValue(n)' = BoilerValue(n)
    <3> SUFFICES ASSUME NEW n \in Nodes
                 PROVE  BoilerValue(n)' = BoilerValue(n)
      OBVIOUS
    <3>1. boiler[n] # 0 => boiler[n] \in DOMAIN carries
      BY BoilerValueFacts DEF PathInv, ManagerInv
    <3> QED
      BY <1>4, <1>5, <3>1 DEF BoilerValue
  <2>2. ASSUME NEW i \in DOMAIN tasks'
        PROVE  (tasks[i].old <= BoilerValue(tasks[i].node))'
    <3>1. CASE i = id
      <4>1. tasks'[i].old = data[t.node] /\ tasks'[i].node = t.node
        BY <3>1, <1>5
      <4>2. data[t.node] <= BoilerValue(t.node)
        BY <1>1 DEF PathInv, BehindBoiler, DataNotAheadOfBoiler
      <4>3. PICK n \in Nodes : n = t.node
        BY <1>1
      <4> QED
        BY <4>1, <4>2, <4>3, <2>1 DEF BoilerValue
    <3>2. CASE i \in DOMAIN tasks
      <4>1. tasks'[i] = tasks[i] /\ tasks[i] \in Task
        BY <3>2, <1>5 DEF PathInv, PathTypeOK
      <4>2. PICK n \in Nodes : n = tasks[i].node
        BY <4>1 DEF Task
      <4>3. tasks[i].old <= BoilerValue(n)
        BY <3>2, <4>2 DEF PathInv, BehindBoiler
      <4> QED
        BY <4>1, <4>2, <4>3, <2>1 DEF BoilerValue
    <3> QED
      BY <3>1, <3>2, <1>5
  <2>3. \A i \in DOMAIN carries' :
           requests'[i].future = "result" => i <= boiler'[requests'[i].key]
    BY <1>2, <1>4, <1>5 DEF PathInv, BehindBoiler
  <2>4. \A n \in Nodes : data'[n] <= BoilerValue(n)' /\ answer'[n] <= BoilerValue(n)'
    BY <1>3, <2>1 DEF PathInv, BehindBoiler, DataNotAheadOfBoiler
  <2> QED
    BY <2>2, <2>3, <2>4 DEF BehindBoiler, DataNotAheadOfBoiler
<1>14. CallbacksFresh'
  <2>1. \A i \in ready :
           /\ requests'[i].key = requests[i].key /\ requests'[i].future = requests[i].future
           /\ IsSet(i)' <=> IsSet(i)
           /\ IsSet(i) => carries'[i] = carries[i]
    BY <1>2, <1>4, <1>5 DEF IsSet, PathInv, PathTypeOK
  <2>2. ASSUME NEW i \in ready, requests[i].future = "result"
        PROVE  IF IsSet(i)' THEN data'[requests'[i].key] <= carries'[i]
                            ELSE \A n \in Nodes : data'[n] <= answer'[n]
    BY <1>3, <2>1, <2>2 DEF PathInv, CallbacksFresh
  <2>3. \A i, j \in ready' :
           requests'[i].future # "cancelled" /\ requests'[j].future # "cancelled" => i = j
    BY <1>4, <2>1 DEF PathInv, CallbacksFresh
  <2> QED
    BY <1>4, <2>1, <2>2, <2>3 DEF CallbacksFresh
<1> QED
  BY <1>7, <1>9, <1>10, <1>11, <1>12, <1>13, <1>14 DEF PathInv

\* The callbacks of a future write what the boiler has confirmed, what a poll
\* has brought, or what the data held before: never more than the boiler has.
LEMMA FutureCallbacksInv ==
  ASSUME PathInv, ManagerInv, ManagerInv', NEW i \in ready, FutureCallbacks(i)
  PROVE  PathInv'
<1>1. /\ requests' = requests /\ boiler' = boiler /\ phase' = phase
      /\ ready' = ready \ {i}
      /\ UNCHANGED <<inputs, latestInput, scheduled, pendingTimers, carries, answer>>
      /\ i \in DOMAIN requests
      /\ requests[i].future \in {"result", "exception", "cancelled"}
  BY DEF FutureCallbacks, CleanupPending, ManagerInv, ManagerTypeOK, FutureShape, IsDone,
     Request, Outcomes
<1>2. /\ \A n \in Nodes : BoilerValue(n)' = BoilerValue(n)
      /\ \A n \in Nodes : BoilerValue(n) \in Nat
      /\ \A n \in Nodes : RequestsOf(n)' = RequestsOf(n)
      /\ \A j : IsNewest(j)' <=> IsNewest(j)
      /\ \A j : IsSet(j)' <=> IsSet(j)
  BY <1>1, SameBoiler, BoilerValueFacts, ValuesAreNat DEF PathInv, ManagerInv
<1>3. /\ data' \in [Nodes -> Values]
      /\ optimistic' \in [Nodes -> [value : Values, age : Ages]]
      /\ DOMAIN tasks' \subseteq DOMAIN tasks
      /\ tasks' \in [DOMAIN tasks' -> Task]
      /\ \A j \in DOMAIN tasks' : tasks'[j] = tasks[j]
      /\ \A n \in Nodes : data'[n] <= BoilerValue(n)
      /\ requests[i].future = "cancelled" => data' = data
  <2>1. CASE i \in DOMAIN tasks
    <3>1. TaskResumes(i)
      BY <2>1 DEF FutureCallbacks
    <3>2. /\ tasks[i] \in Task /\ tasks[i].node \in Nodes
          /\ tasks[i].value \in Values /\ tasks[i].old \in Values
          /\ i \in DOMAIN carries
          /\ tasks[i].node = requests[i].key /\ tasks[i].value = carries[i]
      BY <2>1, ValuesAreNat DEF PathInv, PathTypeOK, Task, TasksMatchRequests
    <3>3. PICK n \in Nodes : n = tasks[i].node
      BY <3>2
    <3>4. PICK settled :
                         /\ data' = [data EXCEPT ![n] = settled]
                         /\ settled \in {tasks[i].value, tasks[i].old, data[n]}
                         /\ \/ settled = tasks[i].value /\ requests[i].future = "result"
                            \/ settled \in {tasks[i].old, data[n]}
                         /\ (requests[i].future = "cancelled" => settled = data[n])
      BY <3>1, <3>3, <1>1 DEF TaskResumes
    <3>5. requests[i].future = "result" => tasks[i].value <= BoilerValue(n)
      <4> SUFFICES ASSUME requests[i].future = "result"
                   PROVE  carries[i] <= BoilerValue(n)
        BY <3>2
      <4>1. i <= boiler[n] /\ i \in Nat /\ i # 0
        BY <3>2, <3>3 DEF PathInv, BehindBoiler, ManagerInv, ManagerTypeOK
      <4>2. /\ boiler[n] \in Nat
            /\ boiler[n] # 0 => /\ boiler[n] \in DOMAIN carries
                                /\ requests[boiler[n]].key = n
                                /\ BoilerValue(n) = carries[boiler[n]]
        BY BoilerValueFacts DEF PathInv, ManagerInv
      <4>3. boiler[n] # 0
        BY <4>1, <4>2
      <4>4. i = boiler[n] \/ carries[i] < carries[boiler[n]]
        BY <3>2, <3>3, <4>1, <4>2, <4>3 DEF PathInv, InputsInOrder
      <4>5. carries[i] \in Nat /\ carries[boiler[n]] \in Nat
        BY <3>2, <4>2, <4>3, ValuesAreNat DEF PathInv, PathTypeOK
      <4> QED
        BY <4>2, <4>3, <4>4, <4>5
    <3>6. tasks[i].old <= BoilerValue(n)
      BY <2>1, <3>3 DEF PathInv, BehindBoiler
    <3>7. \A m \in Nodes : data[m] <= BoilerValue(m)
      BY DEF PathInv, BehindBoiler, DataNotAheadOfBoiler
    <3>8. data \in [Nodes -> Values]
      BY DEF PathInv, PathTypeOK
    <3>9. settled \in Values /\ settled <= BoilerValue(n)
      BY <3>2, <3>4, <3>5, <3>6, <3>7, <3>8
    <3>10. NoEntry \in [value : Values, age : Ages]
      BY ValuesAreNat DEF NoEntry, Ages
    <3>11. optimistic' \in [Nodes -> [value : Values, age : Ages]]
      BY <3>1, <3>10 DEF TaskResumes, PathInv, PathTypeOK
    <3>12. /\ DOMAIN tasks' \subseteq DOMAIN tasks
           /\ tasks' \in [DOMAIN tasks' -> Task]
           /\ \A j \in DOMAIN tasks' : tasks'[j] = tasks[j]
      <4>1. tasks' = [j \in DOMAIN tasks \ {i} |-> tasks[j]] /\ tasks \in [DOMAIN tasks -> Task]
        BY <3>1 DEF TaskResumes, PathInv, PathTypeOK
      <4> QED
        BY <4>1
    <3>13. /\ data' \in [Nodes -> Values]
           /\ \A m \in Nodes : data'[m] <= BoilerValue(m)
           /\ requests[i].future = "cancelled" => data' = data
      BY <3>4, <3>7, <3>8, <3>9
    <3> QED
      BY <3>11, <3>12, <3>13
  <2>2. CASE i \notin DOMAIN tasks
    <3>1. /\ tasks' = tasks /\ optimistic' = optimistic
          /\ \/ data' = data
             \/ /\ requests[i].future = "result"
                /\ data' = [n \in Nodes |-> IF PolledValueIgnored(n) THEN data[n] ELSE answer[n]]
      BY <2>2 DEF FutureCallbacks, PollProcessed
    <3>2. /\ tasks \in [DOMAIN tasks -> Task]
          /\ optimistic \in [Nodes -> [value : Values, age : Ages]]
          /\ data \in [Nodes -> Values] /\ answer \in [Nodes -> Values]
      BY DEF PathInv, PathTypeOK
    <3>3. \A n \in Nodes : data[n] <= BoilerValue(n) /\ answer[n] <= BoilerValue(n)
      BY DEF PathInv, BehindBoiler, DataNotAheadOfBoiler
    <3>4. /\ data' \in [Nodes -> Values]
          /\ \A n \in Nodes : data'[n] <= BoilerValue(n)
          /\ requests[i].future = "cancelled" => data' = data
      BY <3>1, <3>2, <3>3
    <3> QED
      BY <3>1, <3>2, <3>4
  <2> QED
    BY <2>1, <2>2
<1>4. PathTypeOK'
  <2>1. ManagerTypeOK'
    BY DEF ManagerInv
  <2>2. DOMAIN tasks' \subseteq DOMAIN carries'
    BY <1>1, <1>3 DEF PathInv, PathTypeOK
  <2> QED
    BY <1>1, <1>3, <2>1, <2>2 DEF PathInv, PathTypeOK, IsSet
<1>5. TimersHoldLatest' /\ InputsInOrder' /\ TasksMatchRequests'
  <2>1. \A j \in DOMAIN tasks : j # i => j \in DOMAIN tasks'
    BY DEF FutureCallbacks, TaskResumes, PollProcessed
  <2>2. IsDone(i) /\ \A j : IsDone(j)' <=> IsDone(j)
    BY <1>1 DEF IsDone
  <2> QED
    BY <1>1, <1>3, <2>1, <2>2
       DEF PathInv, TimersHoldLatest, InputsInOrder, TasksMatchRequests
<1>6. DebounceKeepsLatest'
  BY <1>1, <1>2 DEF PathInv, DebounceKeepsLatest
<1>7. BehindBoiler'
  <2>1. ASSUME NEW j \in DOMAIN tasks'
        PROVE  (tasks[j].old <= BoilerValue(tasks[j].node))'
    <3>1. j \in DOMAIN tasks /\ tasks'[j] = tasks[j] /\ tasks[j] \in Task
      BY <1>3 DEF PathInv, PathTypeOK
    <3>2. PICK n \in Nodes : n = tasks[j].node
      BY <3>1 DEF Task
    <3>3. tasks[j].old <= BoilerValue(n)
      BY <3>1, <3>2 DEF PathInv, BehindBoiler
    <3> QED
      BY <3>1, <3>2, <3>3, <1>2 DEF BoilerValue
  <2>2. \A n \in Nodes : data'[n] <= BoilerValue(n)' /\ answer'[n] <= BoilerValue(n)'
    BY <1>1, <1>2, <1>3 DEF PathInv, BehindBoiler
  <2>3. \A j \in DOMAIN carries' :
           requests'[j].future = "result" => j <= boiler'[requests'[j].key]
    BY <1>1 DEF PathInv, BehindBoiler
  <2> QED
    BY <2>1, <2>2, <2>3 DEF BehindBoiler, DataNotAheadOfBoiler
<1>8. CallbacksFresh'
  <2>1. \A j, k \in ready' :
           requests'[j].future # "cancelled" /\ requests'[k].future # "cancelled" => j = k
    BY <1>1 DEF PathInv, CallbacksFresh
  <2>2. ASSUME NEW j \in ready', requests'[j].future = "result"
        PROVE  data' = data
    <3>1. j \in ready /\ j # i
      BY <1>1
    <3>2. requests[i].future = "cancelled"
      BY <1>1, <2>2, <3>1 DEF PathInv, CallbacksFresh
    <3> QED
      BY <1>3, <3>2
  <2> QED
    BY <1>1, <1>2, <2>1, <2>2 DEF PathInv, CallbacksFresh
<1> QED
  BY <1>4, <1>5, <1>6, <1>7, <1>8 DEF PathInv

-----------------------------------------------------------------------------
(* The theorems                                                            *)

\* At the start the coordinator's data is what the boiler holds.
LEMMA PathInitInv == PathInit => PathInv
<1> SUFFICES ASSUME PathInit
             PROVE  PathInv
  OBVIOUS
<1>1. ManagerInv /\ ManagerInit
  BY InitInv DEF PathInit
<1>2. requests = [i \in {} |-> 0] /\ boiler = [n \in Nodes |-> 0] /\ ready = {}
      /\ phase = "new"
  BY <1>1 DEF ManagerInit
<1>3. /\ NoEntry \in [value : Values, age : Ages]
      /\ 0 \in Values
  BY ValuesAreNat DEF NoEntry, Ages
<1>4. PathTypeOK
  BY <1>1, <1>2, <1>3, PathAssumption DEF ManagerInv, PathInit, PathTypeOK, IsSet
<1> QED
  BY <1>2, <1>4
     DEF PathInit, PathInv, TimersHoldLatest, InputsInOrder, DebounceKeepsLatest,
         TasksMatchRequests, BehindBoiler, DataNotAheadOfBoiler, BoilerValue, CallbacksFresh

\* Every step of the integration keeps the invariant.
LEMMA PathNextInv ==
  ManagerInv /\ ManagerInv' /\ PathInv /\ [PathNext]_pathVars => PathInv'
<1> SUFFICES ASSUME ManagerInv, ManagerInv', PathInv, [PathNext]_pathVars
             PROVE  PathInv'
  OBVIOUS
<1>1. CASE UNCHANGED pathVars
  BY <1>1
     DEF pathVars, managerVars, coordinatorVars, PathInv, PathTypeOK, ManagerTypeOK,
         TimersHoldLatest, InputsInOrder, DebounceKeepsLatest, TasksMatchRequests,
         BehindBoiler, DataNotAheadOfBoiler, BoilerValue, CallbacksFresh, RequestsOf,
         IsNewest, IsSet, IsDone
<1>2. ASSUME NEW n \in Nodes, UserSets(n) \/ EntryAges(n)
      PROVE  PathInv'
  BY <1>2, UserSetsInv, EntryAgesInv
<1>3. ASSUME NEW t \in scheduled, FireSet(t)
      PROVE  PathInv'
  BY <1>3, FireSetInv
<1>4. ASSUME NEW i \in ready, FutureCallbacks(i)
      PROVE  PathInv'
  BY <1>4, FutureCallbacksInv
<1>5. ASSUME NEW g \in Groups, PollStarts(g, LOW)
      PROVE  PathInv'
  BY <1>5, PollStartsInv
<1>6. CASE ManagerStarts \/ WorkerPicks \/ BoilerStores \/ RetryQueued
  BY <1>6, WorkerStepInv DEF ManagerStarts, WorkerPicks, WorkerTakes, BoilerStores,
     RetryQueued
<1>7. CASE CallSucceeds
  BY <1>7, CallSucceedsInv
<1>8. CASE CallFails
  BY <1>8, CallFailsInv
<1>9. CASE CoordinatorStops
  BY <1>9, CoordinatorStopsInv
<1>10. CASE QueueDrained \/ \E i \in DOMAIN requests : PollCancelled(i)
  BY <1>10, CancelledInv
<1> QED
  BY <1>1, <1>2, <1>3, <1>4, <1>5, <1>6, <1>7, <1>8, <1>9, <1>10 DEF PathNext

\* The inductive invariant of the write path holds in every state that the
\* integration reaches, with any number of nodes, inputs, retries and polls.
THEOREM PathInvariant == PathSpec => []PathInv
<1>1. PathInit => PathInv
  BY PathInitInv
<1>2. ManagerInv /\ ManagerInv' /\ PathInv /\ [PathNext]_pathVars => PathInv'
  BY PathNextInv
<1>3. PathSpec => []ManagerInv
  BY PathUsesManager, ManagerInvariant, PTL
<1> QED
  BY <1>1, <1>2, <1>3, PTL DEF PathSpec

\* Timers, optimistic entries, tasks and data keep their types, and exactly the
\* SETs carry a value.
THEOREM PathTypes == PathSpec => []PathTypeOK
<1>1. PathInv => PathTypeOK
  BY DEF PathInv
<1> QED
  BY <1>1, PathInvariant, PTL

\* Debouncing loses no input of the user, however often he changes his mind
\* and wherever the earlier SETs of the node are.
THEOREM LatestInputKept == PathSpec => []DebounceKeepsLatest
<1>1. PathInv => DebounceKeepsLatest
  BY DEF PathInv
<1> QED
  BY <1>1, PathInvariant, PTL

\* The coordinator's data never holds a value that the boiler does not have yet
\* or has left behind for an older one.
THEOREM DataFollowsBoiler == PathSpec => []DataNotAheadOfBoiler
<1>1. PathInv => DataNotAheadOfBoiler
  BY DEF PathInv, BehindBoiler
<1> QED
  BY <1>1, PathInvariant, PTL

\* A confirmed SET stays what the boiler holds until the next SET of the node
\* is submitted.
THEOREM ConfirmedStays == PathSpec => []ConfirmedInputHeld
<1>1. ManagerInv /\ PathInv => ConfirmedInputHeld
  <2> SUFFICES ASSUME ManagerInv, PathInv, NEW i \in DOMAIN carries,
                      IsNewest(i), requests[i].future = "result"
               PROVE  BoilerValue(requests[i].key) = carries[i]
    BY DEF ConfirmedInputHeld
  <2> PICK n \in Nodes : n = requests[i].key
    BY DEF PathInv, PathTypeOK, IsSet
  <2>1. i \in Nat /\ i # 0 /\ i <= boiler[n] /\ boiler[n] \in Nat
    BY DEF PathInv, PathTypeOK, BehindBoiler, ManagerInv, ManagerTypeOK
  <2>2. boiler[n] \in DOMAIN requests /\ requests[boiler[n]].key = n
    BY <2>1 DEF ManagerInv, ManagerTypeOK
  <2>3. boiler[n] <= i
    BY <2>2 DEF IsNewest, RequestsOf
  <2> QED
    BY <2>1, <2>3 DEF BoilerValue
<1>2. PathSpec => []ManagerInv
  BY PathUsesManager, ManagerInvariant, PTL
<1> QED
  BY <1>1, <1>2, PathInvariant, PTL

\* From end to end: when no timer of a node waits and its newest SET has been
\* confirmed, the boiler holds what the user entered last, whatever became of the
\* inputs and of the SETs before.
THEOREM ConfirmedInputIsLatest ==
  PathSpec =>
    [](phase = "running" =>
          \A n \in Nodes : \A i \in RequestsOf(n) :
             /\ latestInput[n] # NoInput /\ pendingTimers[n] = NoInput
             /\ IsNewest(i) /\ requests[i].future = "result"
             => BoilerValue(n) = latestInput[n])
<1>1. ManagerInv /\ PathInv /\ ConfirmedInputHeld =>
         (phase = "running" =>
             \A n \in Nodes : \A i \in RequestsOf(n) :
                /\ latestInput[n] # NoInput /\ pendingTimers[n] = NoInput
                /\ IsNewest(i) /\ requests[i].future = "result"
                => BoilerValue(n) = latestInput[n])
  <2> SUFFICES ASSUME ManagerInv, PathInv, ConfirmedInputHeld, phase = "running",
                      NEW n \in Nodes, NEW i \in RequestsOf(n),
                      latestInput[n] # NoInput, pendingTimers[n] = NoInput,
                      IsNewest(i), requests[i].future = "result"
               PROVE  BoilerValue(n) = latestInput[n]
    OBVIOUS
  <2>1. PICK j \in RequestsOf(n) : IsNewest(j) /\ carries[j] = latestInput[n]
    BY DEF PathInv, DebounceKeepsLatest
  <2>2. i \in Nat /\ j \in Nat /\ i \in DOMAIN carries /\ requests[i].key = n
    BY DEF RequestsOf, IsSet, ManagerInv, ManagerTypeOK, PathInv, PathTypeOK
  <2>3. i = j
    BY <2>1, <2>2 DEF IsNewest, RequestsOf
  <2> QED
    BY <2>1, <2>2, <2>3 DEF ConfirmedInputHeld
<1>2. PathSpec => []ManagerInv
  BY PathUsesManager, ManagerInvariant, PTL
<1> QED
  BY <1>1, <1>2, PathInvariant, ConfirmedStays, PTL

\* Only the rollback of a SET that failed writes an older value into the data.
THEOREM OnlyFailuresRewind == PathSpec => OnlyRollbackRewinds
<1>1. ManagerInv /\ PathInv /\ [PathNext]_pathVars =>
         [\A n \in Nodes :
             data'[n] < data[n] =>
                 \E i \in DOMAIN tasks \ DOMAIN tasks' :
                     tasks[i].node = n /\ requests[i].future = "exception"]_pathVars
  <2> SUFFICES ASSUME ManagerInv, PathInv, [PathNext]_pathVars,
                      NEW n \in Nodes, data'[n] < data[n]
               PROVE  \E i \in DOMAIN tasks \ DOMAIN tasks' :
                         tasks[i].node = n /\ requests[i].future = "exception"
    OBVIOUS
  <2>1. data \in [Nodes -> Nat] /\ answer \in [Nodes -> Nat] /\ data' # data
    BY ValuesAreNat DEF PathInv, PathTypeOK
  <2>2. PICK i \in ready : FutureCallbacks(i)
    BY <2>1
       DEF PathNext, pathVars, coordinatorVars, UserSets, FireSet, EntryAges, PollStarts,
           ManagerStarts, WorkerPicks, BoilerStores, CallSucceeds, CallFails, RetryQueued,
           PollCancelled, CoordinatorStops, QueueDrained
  <2>3. requests[i].future \in {"result", "exception", "cancelled"} /\ i \in DOMAIN requests
    BY DEF ManagerInv, ManagerTypeOK, FutureShape, IsDone, Request, Outcomes
  <2>4. i \in DOMAIN tasks
    <3> SUFFICES ASSUME i \notin DOMAIN tasks
                 PROVE  FALSE
      OBVIOUS
    <3>1. /\ requests[i].future = "result"
          /\ data' = [m \in Nodes |-> IF PolledValueIgnored(m) THEN data[m] ELSE answer[m]]
      BY <2>1, <2>2 DEF FutureCallbacks, PollProcessed
    <3>2. data'[n] = answer[n]
      BY <3>1, <2>1
    <3>3. CASE IsSet(i)
      BY <2>2, <2>3, <3>3 DEF PathInv, PathTypeOK, TasksMatchRequests
    <3>4. CASE ~IsSet(i)
      BY <2>1, <3>1, <3>2, <3>4 DEF PathInv, CallbacksFresh
    <3> QED
      BY <3>3, <3>4
  <2>5. TaskResumes(i) /\ i \notin DOMAIN tasks'
    BY <2>2, <2>4 DEF FutureCallbacks, TaskResumes
  <2>6. /\ tasks[i].node = requests[i].key /\ tasks[i].value = carries[i]
        /\ i \in DOMAIN carries /\ IsSet(i)
        /\ carries[i] \in Nat
    BY <2>4, ValuesAreNat DEF PathInv, PathTypeOK, TasksMatchRequests
  <2>7. tasks[i].node = n /\ requests[i].future # "cancelled"
    BY <2>1, <2>5 DEF TaskResumes
  <2>8. requests[i].future # "result"
    <3> SUFFICES ASSUME requests[i].future = "result"
                 PROVE  FALSE
      OBVIOUS
    <3>1. data'[n] = carries[i]
      BY <2>1, <2>5, <2>6, <2>7 DEF TaskResumes
    <3>2. data[n] <= carries[i]
      BY <2>6, <2>7 DEF PathInv, CallbacksFresh
    <3> QED
      BY <2>1, <2>6, <3>1, <3>2
  <2> QED
    BY <2>3, <2>4, <2>5, <2>7, <2>8
<1>2. PathSpec => []ManagerInv
  BY PathUsesManager, ManagerInvariant, PTL
<1> QED
  BY <1>1, <1>2, PathInvariant, PTL DEF PathSpec, OnlyRollbackRewinds

-----------------------------------------------------------------------------
(* The answers to polls                                                    *)

\* The answer in hand is what the boiler holds in this node, save for a SET of
\* the node being executed.
AnswerCurrent(n) ==
    \/ answer[n] = BoilerValue(n)
    \/ worker.state = "executing" /\ requests[worker.id].key = n

\* The strengthening that PollsRefreshData rests on: an answer whose callback has
\* not run yet is current.  Once the coordinator stops, the worker is gone and
\* the SET in its hands may have taken effect, so nothing is said of that.
AnswersCurrent ==
    phase \in {"new", "running"} =>
        \A i \in ready : ~IsSet(i) /\ requests[i].future = "result" =>
            \A n \in Nodes : AnswerCurrent(n)

\* An answer stays current through a step that completes no future and takes no
\* SET from the worker's hands, while the boiler keeps its values.
LEMMA AnswersKept ==
  ASSUME AnswersCurrent, ready' \subseteq ready, answer' = answer,
         phase' \in {"new", "running"} => phase \in {"new", "running"},
         \A i \in ready : /\ requests'[i].key = requests[i].key
                          /\ requests'[i].future = requests[i].future,
         \A n \in Nodes : BoilerValue(n)' = BoilerValue(n),
         worker.state = "executing" =>
            worker' = worker /\ requests'[worker.id].key = requests[worker.id].key
  PROVE  AnswersCurrent'
<1> SUFFICES ASSUME phase' \in {"new", "running"}, NEW i \in ready', ~IsSet(i)',
                    requests'[i].future = "result", NEW n \in Nodes
             PROVE  AnswerCurrent(n)'
  BY DEF AnswersCurrent
<1>1. AnswerCurrent(n)
  BY DEF AnswersCurrent, IsSet
<1> QED
  BY <1>1 DEF AnswerCurrent

\* A submission leaves the older requests' keys and futures, and the boiler.
LEMMA AnswersKeptBySubmission ==
  ASSUME ManagerInv, PathInv, AnswersCurrent, NEW key, NEW table, NEW priority,
         CreateAndQueue(key, priority, table),
         DOMAIN table = DOMAIN requests,
         \A i \in DOMAIN requests : /\ table[i].key = requests[i].key
                                    /\ table[i].future = requests[i].future,
         \A i \in DOMAIN carries : carries'[i] = carries[i],
         answer' = answer
  PROVE  AnswersCurrent'
<1>1. /\ counter + 1 \notin DOMAIN requests
      /\ ready \subseteq DOMAIN requests
      /\ worker.state = "executing" => worker.id \in DOMAIN requests
  BY DEF ManagerInv, ManagerTypeOK
<1>2. /\ ready' = ready /\ worker' = worker /\ phase' = phase /\ boiler' = boiler
      /\ \A i \in DOMAIN requests : /\ requests'[i].key = requests[i].key
                                     /\ requests'[i].future = requests[i].future
  BY <1>1 DEF CreateAndQueue
<1>3. ASSUME NEW n \in Nodes
      PROVE  BoilerValue(n)' = BoilerValue(n)
  <2>1. boiler[n] # 0 => boiler[n] \in DOMAIN carries
    BY BoilerValueFacts DEF PathInv, PathTypeOK
  <2> QED
    BY <1>2, <2>1 DEF BoilerValue
<1> QED
  BY <1>1, <1>2, <1>3, AnswersKept

\* A poll is answered with what the boiler holds at that moment.
LEMMA CallSucceedsAnswers ==
  ASSUME ManagerInv, CallSucceeds
  PROVE  AnswersCurrent'
<1> SUFFICES ASSUME NEW i \in ready', ~IsSet(i)', NEW n \in Nodes
             PROVE  AnswerCurrent(n)'
  BY DEF AnswersCurrent
<1>1. /\ i = worker.id /\ ready = {} /\ boiler' = boiler /\ carries' = carries
      /\ worker.id \in DOMAIN requests
      /\ requests'[worker.id].key = requests[worker.id].key
  BY DEF CallSucceeds, ExecuteSucceeds, Resolve, ManagerInv, ManagerTypeOK, Request
<1>2. ~IsSet(worker.id)
  BY <1>1 DEF IsSet
<1>3. answer'[n] = BoilerValue(n) /\ BoilerValue(n)' = BoilerValue(n)
  BY <1>1, <1>2 DEF CallSucceeds, BoilerValue
<1> QED
  BY <1>3 DEF AnswerCurrent

\* What the boiler stores meanwhile is the SET in the worker's hands.
LEMMA BoilerStoresAnswers ==
  ASSUME ManagerInv, AnswersCurrent, BoilerStores
  PROVE  AnswersCurrent'
<1> SUFFICES ASSUME phase' \in {"new", "running"}, NEW i \in ready', ~IsSet(i)',
                    requests'[i].future = "result", NEW n \in Nodes
             PROVE  AnswerCurrent(n)'
  BY DEF AnswersCurrent
<1>1. /\ UNCHANGED <<requests, ready, phase, worker, carries, answer>>
      /\ worker.state = "executing"
      /\ boiler' = [boiler EXCEPT ![requests[worker.id].key] = worker.id]
  BY DEF BoilerStores, BoilerApplies, coordinatorVars
<1>2. AnswerCurrent(n)
  BY <1>1 DEF AnswersCurrent, IsSet
<1>3. CASE requests[worker.id].key = n
  BY <1>1, <1>3 DEF AnswerCurrent
<1>4. CASE requests[worker.id].key # n
  <2>1. boiler'[n] = boiler[n]
    BY <1>1, <1>4 DEF ManagerInv, ManagerTypeOK
  <2> QED
    BY <1>1, <1>2, <2>1 DEF AnswerCurrent, BoilerValue
<1> QED
  BY <1>3, <1>4

\* Every step keeps the answers current: the worker takes a call from its hands
\* only when no callback is outstanding.
LEMMA AnswersNext ==
  ManagerInv /\ PathInv /\ AnswersCurrent /\ [PathNext]_pathVars => AnswersCurrent'
<1> SUFFICES ASSUME ManagerInv, PathInv, AnswersCurrent, [PathNext]_pathVars
             PROVE  AnswersCurrent'
  OBVIOUS
<1>1. CASE UNCHANGED <<requests, ready, phase, worker, boiler, carries, answer>>
  BY <1>1, SameBoiler, AnswersKept
<1>2. ASSUME NEW n \in Nodes, UserSets(n) \/ EntryAges(n)
      PROVE  AnswersCurrent'
  BY <1>1, <1>2 DEF UserSets, EntryAges, managerVars
<1>3. ASSUME NEW t \in scheduled, FireSet(t)
      PROVE  AnswersCurrent'
  <2> DEFINE marked == IF pending[t.node] = NoRequest
                       THEN requests
                       ELSE [requests EXCEPT ![pending[t.node]].superseded = TRUE]
  <2>1. t.node \in Nodes /\ t.node \notin Groups
    BY ManagerAssumption DEF PathInv, PathTypeOK, Timer
  <2>2. CreateAndQueue(t.node, HIGH, marked) /\ answer' = answer
    BY <1>3 DEF FireSet, SubmitSet
  <2>3. /\ DOMAIN marked = DOMAIN requests
        /\ \A i \in DOMAIN requests : /\ marked[i].key = requests[i].key
                                       /\ marked[i].future = requests[i].future
    BY DEF ManagerInv, ManagerTypeOK, Request
  <2>4. \A i \in DOMAIN carries : carries'[i] = carries[i]
    <3>1. Ticket(t.node) = counter + 1
      BY <2>1 DEF Ticket
    <3>2. counter + 1 \notin DOMAIN carries
      BY DEF PathInv, PathTypeOK, ManagerInv, ManagerTypeOK
    <3> QED
      BY <1>3, <3>1, <3>2 DEF FireSet
  <2> HIDE DEF marked
  <2> QED
    BY <2>2, <2>3, <2>4, AnswersKeptBySubmission
<1>4. ASSUME NEW i \in ready, FutureCallbacks(i)
      PROVE  AnswersCurrent'
  <2>1. /\ ready' \subseteq ready
        /\ UNCHANGED <<requests, phase, worker, boiler, carries, answer>>
    BY <1>4 DEF FutureCallbacks, CleanupPending
  <2> QED
    BY <2>1, SameBoiler, AnswersKept
<1>5. ASSUME NEW g \in Groups, PollStarts(g, LOW)
      PROVE  AnswersCurrent'
  <2>1. CASE UNCHANGED managerVars
    BY <1>1, <1>5, <2>1 DEF PollStarts, managerVars, coordinatorVars
  <2>2. CASE CreateAndQueue(g, LOW, requests)
    BY <1>5, <2>2, AnswersKeptBySubmission DEF PollStarts, coordinatorVars
  <2> QED
    BY <1>5, <2>1, <2>2 DEF PollStarts, SubmitGet
<1>6. CASE ManagerStarts \/ WorkerPicks
  <2>1. /\ UNCHANGED <<requests, ready, boiler, carries, answer>>
        /\ phase' = "running" => phase \in {"new", "running"}
        /\ phase' = "new" => phase = "new"
        /\ worker.state # "executing"
    BY <1>6
       DEF ManagerStarts, Start, WorkerPicks, WorkerTakes, SkipSuperseded, Execute,
           coordinatorVars, ManagerInv, ManagerTypeOK
  <2> QED
    BY <2>1, SameBoiler, AnswersKept
<1>7. CASE BoilerStores
  BY <1>7, BoilerStoresAnswers
<1>8. CASE CallSucceeds
  BY <1>8, CallSucceedsAnswers
<1>9. CASE CallFails \/ RetryQueued
  <2>1. \A i \in ready' : requests'[i].future = "exception"
    BY <1>9
       DEF CallFails, RetryQueued, ExecuteFailsAndRetries, ExecuteFails, Requeue, Resolve,
           ManagerInv, ManagerTypeOK, Request
  <2> QED
    BY <2>1 DEF AnswersCurrent
<1>10. CASE CoordinatorStops \/ QueueDrained
  BY <1>10 DEF CoordinatorStops, StopWorker, QueueDrained, DrainQueue, AnswersCurrent
<1>11. ASSUME NEW i \in DOMAIN requests, PollCancelled(i)
       PROVE  AnswersCurrent'
  <2>1. /\ UNCHANGED <<phase, worker, boiler, carries, answer>>
        /\ requests' = [requests EXCEPT ![i].future = "cancelled"]
        /\ ready' = ready \cup {i}
        /\ requests \in [DOMAIN requests -> Request]
        /\ ready \subseteq DOMAIN requests
        /\ worker.state = "executing" => worker.id \in DOMAIN requests
    BY <1>11 DEF PollCancelled, CancelGet, Resolve, coordinatorVars, ManagerInv, ManagerTypeOK
  <2>2. \A j \in DOMAIN requests :
           /\ requests'[j].key = requests[j].key
           /\ j # i => requests'[j].future = requests[j].future
           /\ j = i => requests'[j].future = "cancelled"
    BY <2>1 DEF Request
  <2> SUFFICES ASSUME phase' \in {"new", "running"}, NEW j \in ready', ~IsSet(j)',
                      requests'[j].future = "result", NEW n \in Nodes
               PROVE  AnswerCurrent(n)'
    BY DEF AnswersCurrent
  <2>3. j \in ready /\ j # i
    BY <2>1, <2>2
  <2>4. AnswerCurrent(n)
    BY <2>1, <2>2, <2>3 DEF AnswersCurrent, IsSet
  <2> QED
    BY <2>1, <2>2, <2>4 DEF AnswerCurrent, BoilerValue
<1> QED
  BY <1>1, <1>2, <1>3, <1>4, <1>5, <1>6, <1>7, <1>8, <1>9, <1>10, <1>11
     DEF PathNext, pathVars, managerVars, coordinatorVars

\* What a poll leaves in the data is what the boiler holds, outside the ignore
\* window and save for a SET being executed: no SET that ended between the answer
\* and its processing is overwritten by the older value.
THEOREM PollsAreCurrent == PathSpec => PollsRefreshData
<1>1. PathInit => AnswersCurrent
  BY DEF PathInit, ManagerInit, AnswersCurrent
<1>2. ManagerInv /\ PathInv /\ AnswersCurrent /\ [PathNext]_pathVars => AnswersCurrent'
  BY AnswersNext
<1>3. PathInv /\ AnswersCurrent /\ [PathNext]_pathVars =>
         [\A i \in ready \ ready' :
             phase = "running" /\ ~IsSet(i) /\ requests[i].future = "result" =>
                 \A n \in Nodes :
                     \/ optimistic[n].age = "recent"
                     \/ data'[n] = BoilerValue(n)
                     \/ worker.state = "executing" /\ requests[worker.id].key = n]_pathVars
  <2> SUFFICES ASSUME PathInv, AnswersCurrent, [PathNext]_pathVars, NEW i \in ready \ ready',
                      phase = "running", ~IsSet(i), requests[i].future = "result",
                      NEW n \in Nodes, optimistic[n].age # "recent"
               PROVE  \/ data'[n] = BoilerValue(n)
                      \/ worker.state = "executing" /\ requests[worker.id].key = n
    OBVIOUS
  <2>1. PICK j \in ready : FutureCallbacks(j)
    BY DEF PathNext, pathVars, managerVars, coordinatorVars, UserSets, FireSet, EntryAges,
           PollStarts, ManagerStarts, WorkerPicks, BoilerStores, CallSucceeds, CallFails,
           RetryQueued, PollCancelled, CoordinatorStops, QueueDrained, Start, SubmitGet,
           SubmitSet, CreateAndQueue, WorkerTakes, SkipSuperseded, Execute, BoilerApplies,
           ExecuteSucceeds, ExecuteFailsAndRetries, ExecuteFails, Resolve, Requeue, CancelGet,
           StopWorker, DrainQueue
  <2>2. j = i
    BY <2>1 DEF FutureCallbacks, CleanupPending
  <2>3. i \notin DOMAIN tasks
    BY DEF PathInv, PathTypeOK
  <2>4. data' = [m \in Nodes |-> IF PolledValueIgnored(m) THEN data[m] ELSE answer[m]]
    BY <2>1, <2>2, <2>3 DEF FutureCallbacks, PollProcessed
  <2>5. data'[n] = answer[n]
    BY <2>4 DEF PolledValueIgnored
  <2>6. AnswerCurrent(n)
    BY DEF AnswersCurrent
  <2> QED
    BY <2>5, <2>6 DEF AnswerCurrent
<1>4. PathSpec => []ManagerInv
  BY PathUsesManager, ManagerInvariant, PTL
<1> QED
  BY <1>1, <1>2, <1>3, <1>4, PathInvariant, PTL DEF PathSpec, PollsRefreshData

-----------------------------------------------------------------------------
(* The refinement of SettingFlow                                           *)

\* The integration starts where the flow starts.
LEMMA FlowStarts == PathInit => Flow!FlowInit
BY DEF PathInit, ManagerInit, Flow!FlowInit, BoilerValue

\* What the flow sees of the boiler changes by no step that leaves the boiler and
\* the SETs' values alone.
LEMMA FlowStutter ==
  ASSUME UNCHANGED <<latestInput, pendingTimers, data, tasks, boiler, carries>>
  PROVE  UNCHANGED Flow!flowVars
BY DEF Flow!flowVars, BoilerValue

\* A new input is a new wish, newer than the earlier ones.
LEMMA FlowUserSets ==
  ASSUME PathInv, NEW n \in Nodes, UserSets(n)
  PROVE  Flow!Want(n)
<1>1. /\ latestInput' = [latestInput EXCEPT ![n] = inputs + 1]
      /\ pendingTimers' = [pendingTimers EXCEPT ![n] = inputs + 1]
      /\ UNCHANGED <<boiler, carries, data, tasks>>
  BY DEF UserSets, managerVars
<1>2. /\ inputs \in Nat /\ latestInput \in [Nodes -> Nat] /\ latestInput[n] <= inputs
      /\ pendingTimers \in [Nodes -> Nat]
  BY ValuesAreNat, PathAssumption DEF PathInv, PathTypeOK, TimersHoldLatest
<1>3. {m \in Nodes : pendingTimers'[m] # NoInput}
         = {m \in Nodes : pendingTimers[m] # NoInput} \cup {n}
  BY <1>1, <1>2
<1>4. [m \in Nodes |-> BoilerValue(m)'] = [m \in Nodes |-> BoilerValue(m)]
  BY <1>1 DEF BoilerValue
<1> QED
  BY <1>1, <1>2, <1>3, <1>4 DEF Flow!Want

\* A timer that expires sends what its user wants, with the value that the data
\* hold now to fall back on.
LEMMA FlowFireSet ==
  ASSUME ManagerInv, PathInv, NEW t \in scheduled, FireSet(t)
  PROVE  Flow!Send(t.node)
<1> DEFINE n == t.node
           id == Ticket(n)
           task == [node |-> n, value |-> t.value, old |-> data[n]]
           waiting == {m \in Nodes : pendingTimers[m] # NoInput}
           open == {tasks[i] : i \in DOMAIN tasks}
<1>1. /\ n \in Nodes /\ n \notin Groups
      /\ t.value \in Nat \ {0}
      /\ pendingTimers[n] = t.value /\ latestInput[n] = t.value
  BY ManagerAssumption, PathAssumption
     DEF PathInv, PathTypeOK, TimersHoldLatest, Timer, Inputs
<1>2. id = counter + 1 /\ id \notin DOMAIN tasks /\ id \notin DOMAIN carries
  BY <1>1 DEF Ticket, ManagerInv, ManagerTypeOK, PathInv, PathTypeOK
<1>3. /\ tasks' = [i \in DOMAIN tasks \cup {id} |-> IF i = id THEN task ELSE tasks[i]]
      /\ carries' = [i \in DOMAIN carries \cup {id} |->
                        IF i = id THEN t.value ELSE carries[i]]
      /\ pendingTimers' = [pendingTimers EXCEPT ![n] = NoInput]
      /\ UNCHANGED <<boiler, latestInput, data>>
  BY DEF FireSet, SubmitSet, CreateAndQueue
<1>4. [m \in Nodes |-> BoilerValue(m)'] = [m \in Nodes |-> BoilerValue(m)]
  <2>1. \A m \in Nodes : boiler[m] # 0 => boiler[m] \in DOMAIN carries
    BY BoilerValueFacts DEF PathInv, PathTypeOK
  <2> QED
    BY <1>2, <1>3, <2>1 DEF BoilerValue
<1>5. {tasks'[i] : i \in DOMAIN tasks'} = open \cup {task}
  BY <1>2, <1>3
<1>6. {m \in Nodes : pendingTimers'[m] # NoInput} = waiting \ {n}
  BY <1>1, <1>3 DEF PathInv, PathTypeOK
<1>7. \A c \in open : c.node = n => c.value < latestInput[n]
  BY <1>1 DEF PathInv, PathTypeOK, TasksMatchRequests, InputsInOrder
<1>8. n \in waiting /\ latestInput' = latestInput /\ data' = data
  BY <1>1, <1>3
<1> QED
  BY <1>1, <1>4, <1>5, <1>6, <1>7, <1>8 DEF Flow!Send

\* The boiler takes the SET in the worker's hands, whose task still waits.
LEMMA FlowBoilerStores ==
  ASSUME ManagerInv, PathInv, BoilerStores
  PROVE  \E i \in DOMAIN tasks : Flow!Store(tasks[i])
<1> DEFINE i == worker.id
           n == requests[i].key
<1>1. /\ IsSet(i) /\ i \in DOMAIN requests /\ i \in Nat \ {0}
      /\ boiler' = [boiler EXCEPT ![n] = i]
      /\ UNCHANGED <<requests, carries, latestInput, pendingTimers, data, tasks>>
  BY DEF BoilerStores, BoilerApplies, coordinatorVars, ManagerInv, ManagerTypeOK
<1>2. n \in Nodes /\ i \in DOMAIN carries /\ carries[i] \in Nat
  BY <1>1, ValuesAreNat DEF IsSet, PathInv, PathTypeOK
<1>3. ~IsDone(i)
  BY <1>1 DEF ManagerInv, FutureShape, IsLive
<1>4. i \in DOMAIN tasks /\ tasks[i].node = n /\ tasks[i].value = carries[i]
  BY <1>2, <1>3 DEF PathInv, TasksMatchRequests
<1>5. boiler[n] <= i
  BY <1>1 DEF BoilerStores, BoilerApplies, ManagerInv, BoilerNotAhead
<1>6. BoilerValue(n) <= carries[i]
  <2>1. /\ boiler[n] \in Nat
        /\ boiler[n] = 0 => BoilerValue(n) = 0
        /\ boiler[n] # 0 => /\ boiler[n] \in DOMAIN carries
                            /\ requests[boiler[n]].key = n
                            /\ BoilerValue(n) = carries[boiler[n]]
    BY <1>2, BoilerValueFacts DEF ManagerInv, PathInv
  <2>2. boiler[n] # 0 => boiler[n] = i \/ carries[boiler[n]] < carries[i]
    BY <1>1, <1>2, <1>5, <2>1 DEF PathInv, InputsInOrder
  <2> QED
    BY <1>2, <2>1, <2>2, ValuesAreNat DEF PathInv, PathTypeOK
<1>7. [m \in Nodes |-> BoilerValue(m)']
         = [[m \in Nodes |-> BoilerValue(m)] EXCEPT ![n] = carries[i]]
  BY <1>1, <1>2 DEF BoilerValue, ManagerInv, ManagerTypeOK
<1>8. Flow!Store(tasks[i])
  BY <1>1, <1>2, <1>4, <1>6, <1>7 DEF Flow!Store
<1> QED
  BY <1>4, <1>8

\* The callbacks of a future end the change of a SET, or process a poll.
LEMMA FlowFutureCallbacks ==
  ASSUME ManagerInv, PathInv, NEW i \in ready, FutureCallbacks(i)
  PROVE  Flow!FlowNext \/ UNCHANGED Flow!flowVars
<1> DEFINE open == {tasks[j] : j \in DOMAIN tasks}
<1>1. /\ UNCHANGED <<requests, boiler, latestInput, pendingTimers, carries, answer>>
      /\ i \in DOMAIN requests
      /\ requests[i].future \in {"result", "exception", "cancelled"}
  BY DEF FutureCallbacks, CleanupPending, ManagerInv, ManagerTypeOK, FutureShape, IsDone,
     Request, Outcomes
<1>2. [m \in Nodes |-> BoilerValue(m)'] = [m \in Nodes |-> BoilerValue(m)]
  BY <1>1 DEF BoilerValue
<1>3. \A m \in Nodes : data[m] \in Nat /\ answer[m] \in Nat
  BY ValuesAreNat DEF PathInv, PathTypeOK
<1>4. CASE i \in DOMAIN tasks
  <2> DEFINE n == requests[i].key
  <2>1. /\ i \in DOMAIN carries /\ IsSet(i) /\ n \in Nodes
        /\ carries[i] \in Nat
        /\ tasks[i].node = n /\ tasks[i].value = carries[i]
    BY <1>4, ValuesAreNat DEF PathInv, PathTypeOK, TasksMatchRequests, IsSet
  <2>2. {tasks'[j] : j \in DOMAIN tasks'} = open \ {tasks[i]}
    <3>1. \A j \in DOMAIN tasks : j # i => tasks[j] # tasks[i]
      <4> SUFFICES ASSUME NEW j \in DOMAIN tasks, j # i, tasks[j] = tasks[i]
                   PROVE  FALSE
        OBVIOUS
      <4>1. /\ j \in DOMAIN carries /\ carries[j] \in Nat
            /\ requests[j].key = n /\ carries[j] = carries[i]
            /\ i \in Nat /\ j \in Nat
        BY <2>1, ValuesAreNat
           DEF PathInv, PathTypeOK, TasksMatchRequests, ManagerInv, ManagerTypeOK
      <4> QED
        BY <2>1, <4>1 DEF PathInv, InputsInOrder
    <3> QED
      BY <1>4, <3>1 DEF FutureCallbacks, TaskResumes
  <2> HIDE DEF n
  <2>3. CASE requests[i].future = "result"
    <3>1. data' = [data EXCEPT ![n] = carries[i]]
      BY <1>4, <2>1, <2>3 DEF FutureCallbacks, TaskResumes
    <3>2. data[n] <= carries[i]
      BY <2>1, <2>3 DEF PathInv, CallbacksFresh, n
    <3>3. carries[i] <= BoilerValue(n)
      <4>1. i <= boiler[n] /\ i \in Nat \ {0} /\ boiler[n] \in Nat
        BY <2>1, <2>3 DEF PathInv, BehindBoiler, ManagerInv, ManagerTypeOK, n
      <4>2. /\ BoilerValue(n) \in Nat
            /\ boiler[n] # 0 => /\ boiler[n] \in DOMAIN carries
                                /\ requests[boiler[n]].key = n
                                /\ BoilerValue(n) = carries[boiler[n]]
        BY <2>1, BoilerValueFacts, ValuesAreNat DEF ManagerInv, PathInv
      <4>3. i = boiler[n] \/ carries[i] < carries[boiler[n]]
        BY <2>1, <4>1, <4>2 DEF PathInv, InputsInOrder, n
      <4> QED
        BY <2>1, <4>1, <4>2, <4>3
    <3>4. Flow!Confirm(tasks[i])
      BY <1>1, <1>2, <2>1, <2>2, <3>1, <3>2, <3>3, Zenon DEF Flow!Confirm
    <3> QED
      BY <1>4, <3>4 DEF Flow!FlowNext, Flow!Confirm
  <2>4. CASE requests[i].future = "exception"
    <3>1. data' = [data EXCEPT ![n] = tasks[i].old]
      BY <1>4, <2>1, <2>4 DEF FutureCallbacks, TaskResumes
    <3>2. Flow!RollBack(tasks[i])
      BY <1>1, <1>2, <2>1, <2>2, <3>1, Zenon DEF Flow!RollBack
    <3> QED
      BY <1>4, <3>2 DEF Flow!FlowNext, Flow!RollBack
  <2>5. CASE requests[i].future = "cancelled"
    <3>1. data' = data
      BY <1>4, <2>1, <2>5 DEF FutureCallbacks, TaskResumes, PathInv, PathTypeOK
    <3>2. Flow!GiveUp(tasks[i])
      BY <1>1, <1>2, <2>2, <3>1, Zenon DEF Flow!GiveUp
    <3> QED
      BY <1>4, <3>2 DEF Flow!FlowNext, Flow!GiveUp
  <2> QED
    BY <1>1, <2>3, <2>4, <2>5
<1>5. CASE i \notin DOMAIN tasks /\ requests[i].future = "result"
  <2>1. ~IsSet(i)
    BY <1>1, <1>5 DEF PathInv, PathTypeOK, TasksMatchRequests
  <2>2. \A m \in Nodes : data[m] <= answer[m] /\ answer[m] <= BoilerValue(m)
    BY <1>5, <2>1 DEF PathInv, CallbacksFresh, BehindBoiler
  <2>3. /\ tasks' = tasks
        /\ data' = [m \in Nodes |-> IF PolledValueIgnored(m) THEN data[m] ELSE answer[m]]
    BY <1>5 DEF FutureCallbacks, PollProcessed
  <2>4. \A m \in Nodes : BoilerValue(m) \in Nat
    BY BoilerValueFacts, ValuesAreNat DEF ManagerInv, PathInv
  <2>5. /\ data' \in [Nodes -> Nat]
        /\ \A m \in Nodes : data[m] <= data'[m] /\ data'[m] <= BoilerValue(m)
    BY <1>3, <2>2, <2>3, <2>4
  <2>6. Flow!Poll
    BY <1>1, <1>2, <2>3, <2>5 DEF Flow!Poll
  <2> QED
    BY <2>6 DEF Flow!FlowNext
<1>6. CASE i \notin DOMAIN tasks /\ requests[i].future # "result"
  BY <1>1, <1>6, FlowStutter DEF FutureCallbacks
<1> QED
  BY <1>4, <1>5, <1>6

\* Unloading the entry cancels every timer.
LEMMA FlowStops ==
  ASSUME CoordinatorStops
  PROVE  Flow!Stop
<1>1. /\ pendingTimers' = [n \in Nodes |-> NoInput]
      /\ UNCHANGED <<latestInput, data, tasks, boiler, carries>>
  BY DEF CoordinatorStops, StopWorker
<1>2. {n \in Nodes : pendingTimers'[n] # NoInput} = {}
  BY <1>1
<1>3. [n \in Nodes |-> BoilerValue(n)'] = [n \in Nodes |-> BoilerValue(n)]
  BY <1>1 DEF BoilerValue
<1> QED
  BY <1>1, <1>2, <1>3 DEF Flow!Stop

\* Every step of the write path is a step of the flow, or one that it does not see.
LEMMA FlowSteps ==
  ManagerInv /\ PathInv /\ [PathNext]_pathVars => [Flow!FlowNext]_(Flow!flowVars)
<1> SUFFICES ASSUME ManagerInv, PathInv, [PathNext]_pathVars
             PROVE  Flow!FlowNext \/ UNCHANGED Flow!flowVars
  OBVIOUS
<1>1. CASE UNCHANGED pathVars
  BY <1>1, FlowStutter DEF pathVars, managerVars, coordinatorVars
<1>2. ASSUME NEW n \in Nodes, UserSets(n)
      PROVE  Flow!FlowNext
  BY <1>2, FlowUserSets DEF Flow!FlowNext
<1>3. ASSUME NEW t \in scheduled, FireSet(t)
      PROVE  Flow!FlowNext
  <2>1. t.node \in Nodes
    BY DEF PathInv, PathTypeOK, Timer
  <2> QED
    BY <1>3, <2>1, FlowFireSet DEF Flow!FlowNext
<1>4. ASSUME NEW i \in ready, FutureCallbacks(i)
      PROVE  Flow!FlowNext \/ UNCHANGED Flow!flowVars
  BY <1>4, FlowFutureCallbacks
<1>5. CASE BoilerStores
  BY <1>5, FlowBoilerStores DEF Flow!FlowNext
<1>6. CASE CoordinatorStops
  BY <1>6, FlowStops DEF Flow!FlowNext
<1>7. ASSUME NEW n \in Nodes, EntryAges(n)
      PROVE  UNCHANGED Flow!flowVars
  BY <1>7, FlowStutter DEF EntryAges, managerVars
<1>8. ASSUME NEW g \in Groups, PollStarts(g, LOW)
      PROVE  UNCHANGED Flow!flowVars
  BY <1>8, FlowStutter
     DEF PollStarts, SubmitGet, CreateAndQueue, managerVars, coordinatorVars
<1>9. ASSUME NEW i \in DOMAIN requests, PollCancelled(i)
      PROVE  UNCHANGED Flow!flowVars
  BY <1>9, FlowStutter DEF PollCancelled, CancelGet, coordinatorVars
<1>10. CASE \/ ManagerStarts \/ WorkerPicks \/ CallSucceeds \/ CallFails \/ RetryQueued
            \/ QueueDrained
  BY <1>10, FlowStutter
     DEF ManagerStarts, Start, WorkerPicks, WorkerTakes, SkipSuperseded, Execute,
         CallSucceeds, ExecuteSucceeds, CallFails, ExecuteFailsAndRetries, ExecuteFails,
         RetryQueued, Requeue, QueueDrained, DrainQueue, coordinatorVars
<1> QED
  BY <1>1, <1>2, <1>3, <1>4, <1>5, <1>6, <1>7, <1>8, <1>9, <1>10 DEF PathNext

\* Debouncing, queueing, retries, polls and rollbacks together let a value flow
\* from the user to the boiler and on to the data, as SettingFlow has it.
THEOREM PathImplementsSettingFlow == PathSpec => ImplementsSettingFlow
<1>1. PathInit => Flow!FlowInit
  BY FlowStarts
<1>2. ManagerInv /\ PathInv /\ [PathNext]_pathVars => [Flow!FlowNext]_(Flow!flowVars)
  BY FlowSteps
<1>3. PathSpec => []ManagerInv
  BY PathUsesManager, ManagerInvariant, PTL
<1> QED
  BY <1>1, <1>2, <1>3, PathInvariant, PTL DEF PathSpec, ImplementsSettingFlow, Flow!FlowSpec

\* Settled settings of the program stay settled, whatever is polled or late: a
\* theorem about the flow, carried over by the refinement.
THEOREM SettledInputsStay == PathSpec => SettledInputStays
BY PathImplementsSettingFlow, Flow!FlowSettles, PTL
   DEF ImplementsSettingFlow, SettledInputStays

\* The boiler never holds a value of a node that is newer than the user's latest
\* input for this node, nor do the data hold a newer one than the boiler.
THEOREM BoilerFollowsInputs ==
  PathSpec => [](\A n \in Nodes : data[n] <= BoilerValue(n) /\ BoilerValue(n) <= latestInput[n])
<1>1. Flow!InOrder =>
         \A n \in Nodes : data[n] <= BoilerValue(n) /\ BoilerValue(n) <= latestInput[n]
  BY DEF Flow!InOrder
<1> QED
  BY <1>1, PathImplementsSettingFlow, Flow!FlowOrdered, PTL DEF ImplementsSettingFlow

=============================================================================
