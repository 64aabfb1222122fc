------------------------ MODULE ApiAccessManagerProofs ------------------------
(***************************************************************************)
(* Proofs about ApiAccessManager, for any number of groups, nodes,         *)
(* requests and retries.  All of them rest on ManagerInv.                  *)
(***************************************************************************)
EXTENDS ApiAccessManager, TLAPS

USE DEF HIGH, MEDIUM, LOW, NoRequest

\* A newly constructed manager, with nothing queued, satisfies the invariant.
LEMMA InitInv == ManagerInit => ManagerInv
  BY ManagerAssumption
     DEF ManagerInit, ManagerInv, ManagerTypeOK, QueueShape, FutureShape, LiveIsPending,
         OlderSetsSuperseded, WaitersAreServed, NoStalePending, BoilerNotAhead,
         NothingBeforeStart, Keys, Request, QueueEntry

\* Queueing a new request keeps the invariant when the pending request of
\* its key, if any, is marked superseded first: the common end of the two
\* submit methods.
LEMMA CreateInv ==
  ASSUME ManagerInv, phase # "new",
         NEW key \in Keys, NEW priority \in Priorities,
         NEW table \in [DOMAIN requests -> Request],
         \A i \in DOMAIN requests :
            /\ table[i].key = requests[i].key
            /\ table[i].future = requests[i].future
            /\ IsSuperseded(i) => table[i].superseded
            /\ requests[i].key = key /\ ~IsDone(i) => 
                   (pending[key] = i => table[i].superseded),
         CreateAndQueue(key, priority, table)
  PROVE  ManagerInv'
<1> DEFINE id == counter + 1
<1> USE DEF IsSet, IsDone, IsSuperseded, IsLive, IsQueued
<1>1. /\ counter \in Nat
      /\ id \notin DOMAIN requests
      /\ counter' = id
      /\ DOMAIN requests' = DOMAIN requests \cup {id}
      /\ \A i \in DOMAIN requests : i # id /\ requests'[i] = table[i]
      /\ requests'[id] = [key |-> key, priority |-> priority, superseded |-> FALSE,
                          retries |-> 0, future |-> "pending"]
      /\ pending \in [Keys -> Nat]
      /\ pending' = [pending EXCEPT ![key] = id]
      /\ queue' = queue \cup {[priority |-> priority, seq |-> id, id |-> id]}
      /\ UNCHANGED <<ready, worker, phase, boiler>>
  BY DEF CreateAndQueue, ManagerInv, ManagerTypeOK
<1>2. /\ \A i : IsQueued(i)' <=> IsQueued(i) \/ i = id
      /\ \A i : IsLive(i) => i # id
  <2>1. \A i : IsQueued(i)' <=> IsQueued(i) \/ i = id
    <3> DEFINE entry == [priority |-> priority, seq |-> id, id |-> id]
    <3>1. entry.id = id
      OBVIOUS
    <3>2. queue' = queue \cup {entry}
      BY <1>1
    <3> HIDE DEF entry
    <3> QED
      BY <3>1, <3>2
  <2>2. \A i : IsQueued(i) => i # id
    BY <1>1 DEF ManagerInv, ManagerTypeOK
  <2>3. worker.id # id
    BY <1>1 DEF ManagerInv, ManagerTypeOK
  <2> QED
    BY <2>1, <2>2, <2>3
<1>3. ManagerTypeOK'
  <2>1. requests' \in [DOMAIN requests' -> Request]
    <3>1. requests' = [i \in DOMAIN requests \cup {id} |-> requests'[i]]
      BY DEF CreateAndQueue
    <3>2. requests'[id] \in Request
      BY <1>1, ManagerAssumption DEF Request, Outcomes
    <3> QED
      BY <1>1, <3>1, <3>2
  <2>2. DOMAIN requests' \subseteq 1..counter'
    BY <1>1 DEF ManagerInv, ManagerTypeOK
  <2>3. queue' \subseteq QueueEntry
    BY <1>1 DEF ManagerInv, ManagerTypeOK, QueueEntry
  <2>4. \A e \in queue' : e.id \in DOMAIN requests' /\ e.seq <= counter'
    BY <1>1 DEF ManagerInv, ManagerTypeOK, QueueEntry
  <2>5. \A k \in Keys :
           pending'[k] # NoRequest =>
               pending'[k] \in DOMAIN requests' /\ requests'[pending'[k]].key = k
    BY <1>1 DEF ManagerInv, ManagerTypeOK
  <2>6. \A n \in Nodes :
           boiler'[n] # NoRequest =>
               boiler'[n] \in DOMAIN requests' /\ requests'[boiler'[n]].key = n
    BY <1>1 DEF ManagerInv, ManagerTypeOK
  <2>7. pending' \in [Keys -> Nat] /\ counter' \in Nat
    BY <1>1
  <2>8. ready' \subseteq DOMAIN requests'
    BY <1>1 DEF ManagerInv, ManagerTypeOK
  <2> QED
    BY <1>1, <2>1, <2>2, <2>3, <2>4, <2>5, <2>6, <2>7, <2>8 DEF ManagerInv, ManagerTypeOK
<1>4. QueueShape'
  BY <1>1, <1>2 DEF ManagerInv, ManagerTypeOK, QueueShape, QueueEntry
<1>5. FutureShape'
  BY <1>1, <1>2 DEF ManagerInv, ManagerTypeOK, FutureShape
<1>6. LiveIsPending'
  BY <1>1, <1>2 DEF ManagerInv, ManagerTypeOK, LiveIsPending, Request
<1>7. OlderSetsSuperseded'
  BY <1>1, <1>2 DEF ManagerInv, ManagerTypeOK, LiveIsPending, OlderSetsSuperseded, FutureShape
<1>8. WaitersAreServed'
  <2> SUFFICES ASSUME phase = "running", NEW i \in DOMAIN requests',
                      ~IsDone(i)', ~IsSuperseded(i)'
               PROVE  IsLive(i)' /\ pending'[requests'[i].key] = i
    BY <1>1 DEF WaitersAreServed
  <2>1. CASE i = id
    BY <2>1, <1>1, <1>2
  <2>2. CASE i \in DOMAIN requests
    <3>1. IsLive(i) /\ pending[requests[i].key] = i
      BY <2>2, <1>1 DEF ManagerInv, WaitersAreServed
    <3>2. requests[i].key # key /\ requests[i].key \in Keys
      BY <2>2, <3>1, <1>1 DEF ManagerInv, ManagerTypeOK, Request
    <3> QED
      BY <2>2, <3>1, <3>2, <1>1, <1>2
  <2> QED
    BY <2>1, <2>2, <1>1
<1>9. NoStalePending'
  BY <1>1, <1>2 DEF ManagerInv, ManagerTypeOK, NoStalePending
<1>10. BoilerNotAhead'
  BY <1>1 DEF ManagerInv, ManagerTypeOK, BoilerNotAhead
<1>11. NothingBeforeStart'
  BY <1>1 DEF NothingBeforeStart
<1> QED
  BY <1>3, <1>4, <1>5, <1>6, <1>7, <1>8, <1>9, <1>10, <1>11 DEF ManagerInv

\* submit_get_group_request either hands out the pending poll of the group,
\* changing nothing, or queues a new one under a free key.
LEMMA SubmitGetInv ==
  ASSUME ManagerInv, NEW g \in Groups, NEW priority \in {MEDIUM, LOW},
         SubmitGet(g, priority)
  PROVE  ManagerInv'
<1>1. CASE UNCHANGED managerVars
  BY <1>1 DEF managerVars, ManagerInv, ManagerTypeOK, QueueShape, FutureShape, LiveIsPending,
     OlderSetsSuperseded, WaitersAreServed, NoStalePending, BoilerNotAhead,
     NothingBeforeStart, IsSet, IsDone, IsSuperseded, IsLive, IsQueued
<1>2. CASE pending[g] = NoRequest /\ CanSubmit /\ CreateAndQueue(g, priority, requests)
  <2>1. phase # "new" /\ g \in Keys /\ priority \in Priorities
    BY <1>2 DEF CanSubmit, Keys, Priorities
  <2>2. requests \in [DOMAIN requests -> Request]
    BY DEF ManagerInv, ManagerTypeOK
  <2>3. \A i \in DOMAIN requests : pending[g] # i
    BY <1>2 DEF ManagerInv, ManagerTypeOK
  <2> QED
    BY <1>2, <2>1, <2>2, <2>3, CreateInv DEF IsSuperseded
<1> QED
  BY <1>1, <1>2 DEF SubmitGet

\* submit_set_request supersedes the pending SET of the node, the only one
\* that could still win, before it queues the new one.
LEMMA SubmitSetInv ==
  ASSUME ManagerInv, NEW n \in Nodes, SubmitSet(n)
  PROVE  ManagerInv'
<1> DEFINE marked == IF pending[n] = NoRequest
                     THEN requests
                     ELSE [requests EXCEPT ![pending[n]].superseded = TRUE]
<1>1. n \in Keys /\ HIGH \in Priorities
  BY DEF Keys, Priorities
<1>2. phase # "new" /\ CreateAndQueue(n, HIGH, marked)
  BY DEF SubmitSet, CanSubmit
<1>3. marked \in [DOMAIN requests -> Request]
  <2>1. requests \in [DOMAIN requests -> Request]
    BY DEF ManagerInv, ManagerTypeOK
  <2>2. \A i \in DOMAIN requests : [requests[i] EXCEPT !.superseded = TRUE] \in Request
    BY <2>1 DEF Request
  <2>3. pending[n] # NoRequest => pending[n] \in DOMAIN requests
    BY <1>1 DEF ManagerInv, ManagerTypeOK
  <2> QED
    BY <2>1, <2>2, <2>3
<1>4. \A i \in DOMAIN requests :
         /\ marked[i].key = requests[i].key
         /\ marked[i].future = requests[i].future
         /\ IsSuperseded(i) => marked[i].superseded
         /\ requests[i].key = n /\ ~IsDone(i) =>
                (pending[n] = i => marked[i].superseded)
  BY <1>1 DEF ManagerInv, ManagerTypeOK, Request, IsSuperseded
<1> HIDE DEF marked
<1> QED
  BY <1>1, <1>2, <1>3, <1>4, CreateInv

(* Steps that leave the set of requests as it is.                          *)

\* start() touches nothing but the worker task and the phase.
LEMMA StartInv ==
  ASSUME ManagerInv, Start
  PROVE  ManagerInv'
BY DEF Start, Idle, ManagerInv, ManagerTypeOK, QueueShape, FutureShape, LiveIsPending,
   OlderSetsSuperseded, WaitersAreServed, NoStalePending, BoilerNotAhead,
   NothingBeforeStart, IsSet, IsDone, IsSuperseded, IsLive, IsQueued

\* Cancelling the worker lets go of the request it held: nobody promises
\* to serve its waiter once the manager is stopping.
LEMMA StopWorkerInv ==
  ASSUME ManagerInv, StopWorker
  PROVE  ManagerInv'
BY DEF StopWorker, ManagerInv, ManagerTypeOK, QueueShape, FutureShape, LiveIsPending,
   OlderSetsSuperseded, WaitersAreServed, NoStalePending, BoilerNotAhead,
   NothingBeforeStart, IsSet, IsDone, IsSuperseded, IsLive, IsQueued

\* stop() cancels every future that is still queued; those futures become
\* ready for their clean-up callbacks.
LEMMA DrainQueueInv ==
  ASSUME ManagerInv, DrainQueue
  PROVE  ManagerInv'
<1> USE DEF IsSet, IsDone, IsSuperseded, IsLive, IsQueued
<1>1. /\ DOMAIN requests' = DOMAIN requests
      /\ \A i \in DOMAIN requests :
            /\ requests'[i] \in Request
            /\ requests'[i].key = requests[i].key
            /\ IsDone(i) => requests'[i] = requests[i]
            /\ IsQueued(i) => IsDone(i)'
            /\ IsDone(i)' /\ ~IsDone(i) => i \in ready'
  BY DEF DrainQueue, ManagerInv, ManagerTypeOK, Request, Outcomes
<1>2. /\ queue' = {} /\ worker' = worker /\ worker.id = NoRequest
      /\ worker.state = "none" /\ phase' = "stopped" /\ boiler' = boiler
      /\ counter' = counter
  BY DEF DrainQueue, ManagerInv, ManagerTypeOK
<1>3. \A i \in DOMAIN requests' : ~IsLive(i)'
  BY <1>1, <1>2 DEF ManagerInv, ManagerTypeOK
<1>4. ManagerTypeOK'
  BY <1>1, <1>2 DEF DrainQueue, ManagerInv, ManagerTypeOK
<1>5. QueueShape' /\ LiveIsPending' /\ OlderSetsSuperseded' /\ WaitersAreServed'
      /\ BoilerNotAhead' /\ NothingBeforeStart'
  BY <1>2, <1>3 DEF QueueShape, LiveIsPending, OlderSetsSuperseded, WaitersAreServed,
     BoilerNotAhead, NothingBeforeStart
<1>6. FutureShape'
  <2>1. \A i \in ready' : i \in ready \/ (IsQueued(i) /\ ~IsDone(i))
    BY DEF DrainQueue
  <2>2. \A i \in ready' : IsDone(i)' /\ i \in DOMAIN requests
    BY <1>1, <2>1 DEF FutureShape, ManagerInv, ManagerTypeOK
  <2> QED
    BY <1>3, <2>2 DEF FutureShape
<1>7. NoStalePending'
  BY <1>1 DEF DrainQueue, NoStalePending, ManagerInv, ManagerTypeOK
<1> QED
  BY <1>4, <1>5, <1>6, <1>7 DEF ManagerInv

\* Dropping a superseded entry loses no waiter: it was not the winner.
LEMMA SkipSupersededInv ==
  ASSUME ManagerInv, SkipSuperseded
  PROVE  ManagerInv'
<1> USE DEF IsSet, IsDone, IsSuperseded, IsLive, IsQueued
<1> PICK e \in queue : IsSuperseded(e.id) /\ queue' = queue \ {e}
  BY DEF SkipSuperseded
<1> QED
  BY DEF SkipSuperseded, ManagerInv, ManagerTypeOK, QueueShape, FutureShape, LiveIsPending,
     OlderSetsSuperseded, WaitersAreServed, NoStalePending, BoilerNotAhead,
     NothingBeforeStart

\* Taking the head entry moves the request from the queue to the worker's
\* hands and keeps it live; no newer SET of the node was applied before it.
LEMMA ExecuteInv ==
  ASSUME ManagerInv, Execute
  PROVE  ManagerInv'
<1> USE DEF IsSet, IsDone, IsSuperseded, IsLive, IsQueued
<1> PICK e \in queue : /\ ~IsSuperseded(e.id)
                       /\ queue' = queue \ {e}
                       /\ worker' = [state |-> "executing", id |-> e.id]
  BY DEF Execute
<1>1. /\ worker.state = "idle" /\ worker.id = NoRequest
      /\ e.id \in DOMAIN requests /\ e.id # NoRequest /\ e.id \in Nat
      /\ UNCHANGED <<counter, requests, pending, ready, phase, boiler>>
  BY DEF Execute, ManagerInv, ManagerTypeOK
<1>2. \A i \in DOMAIN requests : IsLive(i)' <=> IsLive(i)
  BY <1>1 DEF ManagerInv, ManagerTypeOK, QueueShape
<1>3. ManagerTypeOK' /\ QueueShape'
  BY <1>1 DEF ManagerInv, ManagerTypeOK, QueueShape
<1>4. FutureShape' /\ LiveIsPending' /\ OlderSetsSuperseded' /\ WaitersAreServed'
      /\ NoStalePending' /\ NothingBeforeStart'
  BY <1>1, <1>2 DEF ManagerInv, ManagerTypeOK, FutureShape, LiveIsPending, OlderSetsSuperseded,
     WaitersAreServed, NoStalePending, NothingBeforeStart
<1>5. BoilerNotAhead'
  <2> SUFFICES ASSUME IsSet(e.id)
               PROVE  boiler[requests[e.id].key] <= e.id
    BY <1>1 DEF BoilerNotAhead
  <2> DEFINE held == boiler[requests[e.id].key]
  <2>1. held \in Nat /\ (held # NoRequest =>
           held \in DOMAIN requests /\ requests[held].key = requests[e.id].key)
    BY DEF ManagerInv, ManagerTypeOK
  <2>2. ~(e.id < held)
    BY <1>1, <2>1 DEF ManagerInv, OlderSetsSuperseded
  <2> QED
    BY <1>1, <2>1, <2>2
<1> QED
  BY <1>3, <1>4, <1>5 DEF ManagerInv

\* When the boiler stores the value in hand, the invariant BoilerNotAhead
\* has made sure that it held nothing newer.
LEMMA BoilerAppliesInv ==
  ASSUME ManagerInv, BoilerApplies
  PROVE  ManagerInv'
<1> USE DEF IsSet, IsDone, IsSuperseded, IsLive, IsQueued
<1>1. ManagerTypeOK' /\ BoilerNotAhead'
  BY DEF BoilerApplies, ManagerInv, ManagerTypeOK, BoilerNotAhead
<1> QED
  BY <1>1 DEF BoilerApplies, ManagerInv, QueueShape, FutureShape, LiveIsPending,
     OlderSetsSuperseded, WaitersAreServed, NoStalePending, NothingBeforeStart

\* What set_result, set_exception and cancel do to the table of requests:
\* they change one future, once, and schedule its callback.
LEMMA ResolveFacts ==
  ASSUME ManagerTypeOK, NEW r \in DOMAIN requests,
         NEW outcome \in Outcomes \ {"pending"}, Resolve(r, outcome)
  PROVE  /\ DOMAIN requests' = DOMAIN requests
         /\ requests' \in [DOMAIN requests -> Request]
         /\ \A i \in DOMAIN requests :
               /\ requests'[i].key = requests[i].key
               /\ requests'[i].superseded = requests[i].superseded
               /\ IsDone(i)' <=> IsDone(i) \/ i = r
         /\ ready \subseteq ready'
         /\ ready' \subseteq ready \cup {r}
         /\ IsDone(r) \/ r \in ready'
<1> USE DEF IsDone
<1>1. requests \in [DOMAIN requests -> Request]
  BY DEF ManagerTypeOK
<1>2. CASE IsDone(r)
  BY <1>1, <1>2 DEF Resolve
<1>3. CASE ~IsDone(r)
  <2>1. /\ requests' = [requests EXCEPT ![r].future = outcome]
        /\ ready' = ready \cup {r}
    BY <1>3 DEF Resolve
  <2>2. [requests[r] EXCEPT !.future = outcome] \in Request
    BY <1>1 DEF Request
  <2> QED
    BY <1>1, <1>3, <2>1, <2>2 DEF Request
<1> QED
  BY <1>2, <1>3

(* A future becomes done while its request leaves the worker's hands, or,  *)
(* for a GET, wherever it is.                                              *)

LEMMA ResolvedInv ==
  ASSUME ManagerInv, NEW r \in DOMAIN requests,
         NEW outcome \in Outcomes \ {"pending"}, Resolve(r, outcome),
         \/ worker.id = r /\ worker' = Idle /\ worker.state = "executing"
         \/ ~IsSet(r) /\ worker' = worker,
         UNCHANGED <<counter, queue, pending, phase, boiler>>
  PROVE  ManagerInv'
<1> USE DEF IsSet, IsSuperseded, IsLive, IsQueued
<1>1. /\ DOMAIN requests' = DOMAIN requests
      /\ requests' \in [DOMAIN requests -> Request]
      /\ \A i \in DOMAIN requests :
            /\ requests'[i].key = requests[i].key
            /\ requests'[i].superseded = requests[i].superseded
            /\ IsDone(i)' <=> IsDone(i) \/ i = r
      /\ ready \subseteq ready'
      /\ ready' \subseteq ready \cup {r}
      /\ IsDone(r) \/ r \in ready'
  BY ResolveFacts DEF ManagerInv
<1>2. /\ \A i \in DOMAIN requests : IsLive(i)' => IsLive(i)
      /\ \A i \in DOMAIN requests : IsLive(i) /\ i # r => IsLive(i)'
      /\ IsSet(r) => ~IsLive(r)'
  BY DEF Idle, ManagerInv, ManagerTypeOK, QueueShape
<1>3. ManagerTypeOK'
  BY <1>1 DEF ManagerInv, ManagerTypeOK, Idle
<1>4. QueueShape'
  BY DEF ManagerInv, ManagerTypeOK, QueueShape, Idle
<1>5. FutureShape'
  BY <1>1, <1>2 DEF ManagerInv, ManagerTypeOK, FutureShape
<1>6. LiveIsPending' /\ OlderSetsSuperseded' /\ WaitersAreServed' /\ NothingBeforeStart'
  BY <1>1, <1>2 DEF ManagerInv, LiveIsPending, OlderSetsSuperseded, WaitersAreServed,
     NothingBeforeStart
<1>7. NoStalePending'
  BY <1>1 DEF ManagerInv, ManagerTypeOK, NoStalePending, FutureShape
<1>8. BoilerNotAhead'
  BY <1>1 DEF ManagerInv, ManagerTypeOK, BoilerNotAhead, Idle
<1> QED
  BY <1>3, <1>4, <1>5, <1>6, <1>7, <1>8 DEF ManagerInv

\* A call that ends without a retry resolves the future of the request in
\* hand, and the worker is idle again.
LEMMA CallEndsInv ==
  ASSUME ManagerInv, ExecuteSucceeds \/ ExecuteFails
  PROVE  ManagerInv'
<1>1. worker.state = "executing" /\ worker.id \in DOMAIN requests /\ worker' = Idle
  BY DEF ExecuteSucceeds, ExecuteFails, ManagerInv, ManagerTypeOK
<1>2. PICK outcome \in Outcomes \ {"pending"} : Resolve(worker.id, outcome)
  BY DEF ExecuteSucceeds, ExecuteFails, Outcomes
<1>3. UNCHANGED <<counter, queue, pending, phase, boiler>>
  BY DEF ExecuteSucceeds, ExecuteFails
<1> QED
  BY <1>1, <1>2, <1>3, ResolvedInv

\* A caller that gives up on a poll resolves its future wherever it is.
LEMMA CancelGetInv ==
  ASSUME ManagerInv, NEW i \in DOMAIN requests, CancelGet(i)
  PROVE  ManagerInv'
<1>1. "cancelled" \in Outcomes \ {"pending"}
  BY DEF Outcomes
<1> QED
  BY <1>1, ResolvedInv DEF CancelGet

\* A retried request stays in the worker's hands during its backoff.
LEMMA ExecuteFailsAndRetriesInv ==
  ASSUME ManagerInv, ExecuteFailsAndRetries
  PROVE  ManagerInv'
<1> USE DEF IsSet, IsDone, IsSuperseded, IsLive, IsQueued
<1> DEFINE r == worker.id
<1>1. /\ r \in DOMAIN requests
      /\ requests' = [requests EXCEPT ![r].retries = @ + 1]
      /\ worker' = [worker EXCEPT !.state = "backoff"]
      /\ requests[r].retries < SetRetryAttempts
      /\ requests \in [DOMAIN requests -> Request]
      /\ UNCHANGED <<counter, queue, pending, ready, phase, boiler>>
  BY DEF ExecuteFailsAndRetries, IsRetryable, ManagerInv, ManagerTypeOK
<1>2. /\ DOMAIN requests' = DOMAIN requests
      /\ requests' \in [DOMAIN requests -> Request]
      /\ \A i \in DOMAIN requests :
            /\ requests'[i].key = requests[i].key
            /\ requests'[i].superseded = requests[i].superseded
            /\ requests'[i].future = requests[i].future
  <2>1. [requests[r] EXCEPT !.retries = @ + 1] \in Request
    BY <1>1, ManagerAssumption DEF Request
  <2> QED
    BY <1>1, <2>1 DEF Request
<1>3. worker'.id = worker.id /\ worker'.state = "backoff" /\ worker.state = "executing"
      /\ worker' \in [state : {"none", "idle", "executing", "backoff"}, id : Nat]
  BY <1>1 DEF ExecuteFailsAndRetries, ManagerInv, ManagerTypeOK
<1> HIDE DEF r
<1>4. ManagerTypeOK'
  BY <1>1, <1>2, <1>3 DEF ManagerInv, ManagerTypeOK
<1> QED
  BY <1>1, <1>2, <1>3, <1>4
     DEF ManagerInv, QueueShape, FutureShape, LiveIsPending, OlderSetsSuperseded,
         WaitersAreServed, NoStalePending, BoilerNotAhead, NothingBeforeStart, ManagerTypeOK

\* The backoff over, the request goes back to the queue under a fresh
\* sequence number: it is still the one the key's waiters wait for.
LEMMA RequeueInv ==
  ASSUME ManagerInv, Requeue
  PROVE  ManagerInv'
<1> USE DEF IsSet, IsDone, IsSuperseded, IsLive, IsQueued
<1> DEFINE entry == [priority |-> requests[worker.id].priority,
                     seq |-> counter + 1, id |-> worker.id]
<1>1. /\ worker.id \in DOMAIN requests /\ worker.id # NoRequest
      /\ worker.id \in Nat /\ counter \in Nat
      /\ counter' = counter + 1
      /\ queue' = queue \cup {entry}
      /\ worker' = Idle
      /\ worker.state = "backoff"
      /\ UNCHANGED <<requests, pending, ready, phase, boiler>>
  BY DEF Requeue, ManagerInv, ManagerTypeOK
<1>2. entry \in QueueEntry /\ entry.id = worker.id /\ entry.seq = counter + 1
  BY <1>1 DEF QueueEntry, ManagerInv, ManagerTypeOK, Request
<1> HIDE DEF entry
<1>3. \A i \in DOMAIN requests : IsLive(i)' <=> IsLive(i)
  BY <1>1, <1>2 DEF ManagerInv, ManagerTypeOK, Idle
<1>4. ManagerTypeOK'
  BY <1>1, <1>2 DEF ManagerInv, ManagerTypeOK, Idle, QueueEntry
<1>5. QueueShape'
  BY <1>1, <1>2 DEF ManagerInv, ManagerTypeOK, QueueShape, Idle, QueueEntry
<1>6. FutureShape' /\ LiveIsPending' /\ OlderSetsSuperseded' /\ WaitersAreServed'
      /\ NoStalePending' /\ BoilerNotAhead' /\ NothingBeforeStart'
  BY <1>1, <1>3 DEF ManagerInv, ManagerTypeOK, FutureShape, LiveIsPending, OlderSetsSuperseded,
     WaitersAreServed, NoStalePending, BoilerNotAhead, NothingBeforeStart, Idle
<1> QED
  BY <1>4, <1>5, <1>6 DEF ManagerInv

\* The done callback forgets the pending request only when it is its own:
\* it never removes the entry of a newer request of the same key.
LEMMA CleanupPendingInv ==
  ASSUME ManagerInv, NEW r \in ready, CleanupPending(r)
  PROVE  ManagerInv'
<1> USE DEF IsSet, IsDone, IsSuperseded, IsLive, IsQueued
<1>1. /\ IsDone(r)
      /\ r \in DOMAIN requests /\ r # NoRequest /\ requests[r].key \in Keys
      /\ ready' = ready \ {r}
      /\ UNCHANGED <<counter, requests, queue, worker, phase, boiler>>
  BY DEF CleanupPending, ManagerInv, ManagerTypeOK, FutureShape, Request
<1>2. /\ pending' \in [Keys -> Nat]
      /\ \A k \in Keys : \/ pending'[k] = pending[k] /\ pending[k] # r
                         \/ pending[k] = r /\ pending'[k] = NoRequest
  BY <1>1 DEF CleanupPending, ManagerInv, ManagerTypeOK
<1>3. \A i \in DOMAIN requests :
         pending[requests[i].key] = i /\ ~IsDone(i) => pending'[requests[i].key] = i
  BY <1>1, <1>2 DEF ManagerInv, ManagerTypeOK, Request
<1>4. ManagerTypeOK' /\ NoStalePending'
  BY <1>1, <1>2 DEF ManagerInv, ManagerTypeOK, NoStalePending
<1>5. LiveIsPending' /\ WaitersAreServed'
  BY <1>1, <1>3 DEF ManagerInv, LiveIsPending, WaitersAreServed
<1> QED
  BY <1>1, <1>4, <1>5 DEF ManagerInv, QueueShape, FutureShape, OlderSetsSuperseded,
     BoilerNotAhead, NothingBeforeStart

-----------------------------------------------------------------------------

\* Every step of the manager keeps the invariant.
LEMMA NextInv == ManagerInv /\ [ManagerNext]_managerVars => ManagerInv'
<1> SUFFICES ASSUME ManagerInv, [ManagerNext]_managerVars
             PROVE  ManagerInv'
  OBVIOUS
<1>1. CASE Start
  BY <1>1, StartInv
<1>2. CASE StopWorker
  BY <1>2, StopWorkerInv
<1>3. CASE DrainQueue
  BY <1>3, DrainQueueInv
<1>4. ASSUME NEW g \in Groups, NEW p \in {MEDIUM, LOW}, SubmitGet(g, p)
      PROVE  ManagerInv'
  BY <1>4, SubmitGetInv
<1>5. ASSUME NEW n \in Nodes, SubmitSet(n)
      PROVE  ManagerInv'
  BY <1>5, SubmitSetInv
<1>6. CASE SkipSuperseded
  BY <1>6, SkipSupersededInv
<1>7. CASE Execute
  BY <1>7, ExecuteInv
<1>8. CASE BoilerApplies
  BY <1>8, BoilerAppliesInv
<1>9. CASE ExecuteSucceeds \/ ExecuteFails
  BY <1>9, CallEndsInv
<1>10. CASE ExecuteFailsAndRetries
  BY <1>10, ExecuteFailsAndRetriesInv
<1>11. CASE Requeue
  BY <1>11, RequeueInv
<1>12. ASSUME NEW i \in ready, CleanupPending(i)
       PROVE  ManagerInv'
  BY <1>12, CleanupPendingInv
<1>13. ASSUME NEW i \in DOMAIN requests, CancelGet(i)
       PROVE  ManagerInv'
  BY <1>13, CancelGetInv
<1>14. CASE UNCHANGED managerVars
  BY <1>14 DEF managerVars, ManagerInv, ManagerTypeOK, QueueShape, FutureShape, LiveIsPending,
     OlderSetsSuperseded, WaitersAreServed, NoStalePending, BoilerNotAhead,
     NothingBeforeStart, IsSet, IsDone, IsSuperseded, IsLive, IsQueued
<1> QED
  BY <1>1, <1>2, <1>3, <1>4, <1>5, <1>6, <1>7, <1>8, <1>9, <1>10, <1>11, <1>12, <1>13, <1>14
     DEF ManagerNext

\* The inductive invariant holds in every state the manager reaches,
\* whatever the groups, the nodes and the number of requests and retries.
THEOREM ManagerInvariant == ManagerSpec => []ManagerInv
<1>1. ManagerInit => ManagerInv
  BY InitInv
<1>2. ManagerInv /\ [ManagerNext]_managerVars => ManagerInv'
  BY NextInv
<1> QED
  BY <1>1, <1>2, PTL DEF ManagerSpec

\* The state of the manager keeps its type: pending entries, queue entries and
\* the boiler's values name requests that exist, under their own key.
THEOREM TypeCorrect == ManagerSpec => []ManagerTypeOK
<1>1. ManagerInv => ManagerTypeOK
  BY DEF ManagerInv
<1> QED
  BY <1>1, ManagerInvariant, PTL

\* Of the SETs of a node in the manager's hands only the newest can be sent.
THEOREM NewestSetWins == ManagerSpec => []OlderSetsSuperseded
<1>1. ManagerInv => OlderSetsSuperseded
  BY DEF ManagerInv
<1> QED
  BY <1>1, ManagerInvariant, PTL

\* While the manager runs it loses no request that somebody waits for.
THEOREM NoWaiterForgotten == ManagerSpec => []WaitersAreServed
<1>1. ManagerInv => WaitersAreServed
  BY DEF ManagerInv
<1> QED
  BY <1>1, ManagerInvariant, PTL

\* A finished request is never handed out as a pending one for longer than it
\* takes its callback to run.
THEOREM PendingReleased == ManagerSpec => []NoStalePending
<1>1. ManagerInv => NoStalePending
  BY DEF ManagerInv
<1> QED
  BY <1>1, ManagerInvariant, PTL

\* Requests of one key do not pile up.
THEOREM OneInFlight == ManagerSpec => []SingleFlight
<1>1. ManagerInv => SingleFlight
  BY DEF ManagerInv, LiveIsPending, SingleFlight
<1> QED
  BY <1>1, ManagerInvariant, PTL

\* The heap of the PriorityQueue never has to compare two ApiRequests.
THEOREM QueueTotallyOrdered == ManagerSpec => []EntriesComparable
<1>1. ManagerInv => EntriesComparable
  BY DEF ManagerInv, ManagerTypeOK, QueueShape, QueueEntry, Priorities, EntriesComparable, Before
<1> QED
  BY <1>1, ManagerInvariant, PTL

\* The value of an older request never replaces that of a newer one.
THEOREM BoilerMonotonic == ManagerSpec => BoilerNeverGoesBack
<1>1. ManagerInv /\ [ManagerNext]_managerVars =>
         [\A n \in Nodes : boiler[n] <= boiler'[n]]_managerVars
  <2> SUFFICES ASSUME ManagerInv, ManagerNext
               PROVE  \A n \in Nodes : boiler[n] <= boiler'[n]
    OBVIOUS
  <2>1. boiler \in [Nodes -> Nat] /\ worker.id \in Nat
    BY DEF ManagerInv, ManagerTypeOK
  <2>2. CASE BoilerApplies
    BY <2>1, <2>2 DEF BoilerApplies, ManagerInv, BoilerNotAhead, IsSet
  <2>3. CASE boiler' = boiler
    BY <2>1, <2>3
  <2>4. boiler' = boiler \/ BoilerApplies
    BY DEF ManagerNext, managerVars, Start, StopWorker, DrainQueue, SubmitGet, SubmitSet,
       CreateAndQueue, SkipSuperseded, Execute, ExecuteSucceeds, ExecuteFailsAndRetries,
       ExecuteFails, Requeue, CleanupPending, CancelGet
  <2> QED
    BY <2>2, <2>3, <2>4
<1> QED
  BY <1>1, ManagerInvariant, PTL DEF ManagerSpec, BoilerNeverGoesBack

-----------------------------------------------------------------------------
(* The refinement of LatestWriteWins                                       *)

\* Resolving a future adds nothing to what the users asked for.
LEMMA AskedForUnchanged ==
  ASSUME DOMAIN requests' = DOMAIN requests,
         \A i \in DOMAIN requests : requests'[i].key = requests[i].key
  PROVE  AskedFor' = AskedFor
BY DEF AskedFor

\* Only a submission of a SET adds to what is asked for.
LEMMA KeysUnchanged ==
  ASSUME ManagerInv, ManagerNext,
         ~ \E n \in Nodes : SubmitSet(n),
         ~ \E g \in Groups, p \in {MEDIUM, LOW} : SubmitGet(g, p)
  PROVE  AskedFor' = AskedFor
<1>1. CASE UNCHANGED requests
  BY <1>1, AskedForUnchanged
<1>2. CASE DrainQueue
  BY <1>2, AskedForUnchanged DEF DrainQueue
<1>3. CASE ExecuteFailsAndRetries
  BY <1>3, AskedForUnchanged DEF ExecuteFailsAndRetries, ManagerInv, ManagerTypeOK
<1>4. ASSUME NEW i \in DOMAIN requests, NEW outcome \in Outcomes \ {"pending"},
             Resolve(i, outcome)
      PROVE  AskedFor' = AskedFor
  <2>1. ManagerTypeOK
    BY DEF ManagerInv
  <2> QED
    BY <1>4, <2>1, ResolveFacts, AskedForUnchanged
<1>5. CASE ExecuteSucceeds \/ ExecuteFails
  <2>1. worker.id \in DOMAIN requests
    BY <1>5 DEF ExecuteSucceeds, ExecuteFails, ManagerInv, ManagerTypeOK
  <2>2. \E outcome \in Outcomes \ {"pending"} : Resolve(worker.id, outcome)
    BY <1>5 DEF ExecuteSucceeds, ExecuteFails, Outcomes
  <2> QED
    BY <1>4, <2>1, <2>2
<1>6. ASSUME NEW i \in DOMAIN requests, CancelGet(i)
      PROVE  AskedFor' = AskedFor
  BY <1>4, <1>6 DEF CancelGet, Outcomes
<1> QED
  BY <1>1, <1>2, <1>3, <1>5, <1>6
     DEF ManagerNext, Start, StopWorker, SkipSuperseded, Execute, BoilerApplies, Requeue,
         CleanupPending

\* The manager starts where the abstract register starts.
LEMMA RefineInit == ManagerInit => Abstract!AbsInit
BY DEF ManagerInit, Abstract!AbsInit, AskedFor, BeingSent

\* A stuttering step of the manager is one of the register.
LEMMA RefineStutter ==
  ASSUME UNCHANGED managerVars
  PROVE  UNCHANGED Abstract!absVars
BY DEF managerVars, Abstract!absVars, AskedFor, BeingSent

\* Submitting a SET asks the register for a newer value.
LEMMA RefineSubmitSet ==
  ASSUME ManagerInv, NEW n \in Nodes, SubmitSet(n)
  PROVE  Abstract!Ask(n)
<1> DEFINE id == counter + 1
<1>1. /\ counter \in Nat /\ DOMAIN requests \subseteq 1..counter
      /\ DOMAIN requests' = DOMAIN requests \cup {id}
      /\ requests'[id].key = n
      /\ \A i \in DOMAIN requests : requests'[i].key = requests[i].key
      /\ worker' = worker /\ boiler' = boiler
      /\ worker.state = "executing" => worker.id \in DOMAIN requests
  BY DEF SubmitSet, CreateAndQueue, ManagerInv, ManagerTypeOK, Request
<1>2. AskedFor' = [AskedFor EXCEPT ![n] = @ \cup {id}]
  BY <1>1 DEF AskedFor
<1>3. BeingSent' = BeingSent
  BY <1>1 DEF BeingSent
<1>4. id \in AskedFor'[n] /\ \A u \in AskedFor[n] : u < id
  BY <1>1, <1>2 DEF AskedFor
<1> QED
  BY <1>1, <1>2, <1>3, <1>4 DEF Abstract!Ask

\* Submitting a poll is invisible to the register.
LEMMA RefineSubmitGet ==
  ASSUME ManagerInv, NEW g \in Groups, NEW p \in {MEDIUM, LOW}, SubmitGet(g, p)
  PROVE  UNCHANGED Abstract!absVars
<1>1. CASE UNCHANGED managerVars
  BY <1>1, RefineStutter
<1>2. CASE CreateAndQueue(g, p, requests)
  <2>1. /\ counter \in Nat /\ DOMAIN requests \subseteq 1..counter
        /\ DOMAIN requests' = DOMAIN requests \cup {counter + 1}
        /\ requests'[counter + 1].key \notin Nodes
        /\ \A i \in DOMAIN requests : requests'[i].key = requests[i].key
        /\ worker' = worker /\ boiler' = boiler
        /\ worker.state = "executing" => worker.id \in DOMAIN requests
    BY <1>2, ManagerAssumption DEF CreateAndQueue, ManagerInv, ManagerTypeOK
  <2>2. AskedFor' = AskedFor
    BY <2>1 DEF AskedFor
  <2>3. BeingSent' = BeingSent
    BY <2>1 DEF BeingSent
  <2> QED
    BY <2>1, <2>2, <2>3 DEF Abstract!absVars
<1> QED
  BY <1>1, <1>2 DEF SubmitGet

\* Starting a SET begins the delivery of the newest value asked for;
\* starting a poll is invisible.
LEMMA RefineExecute ==
  ASSUME ManagerInv, Execute
  PROVE  Abstract!AbsNext \/ UNCHANGED Abstract!absVars
<1> PICK e \in queue : /\ ~IsSuperseded(e.id)
                       /\ worker' = [state |-> "executing", id |-> e.id]
  BY DEF Execute
<1>1. /\ worker.state = "idle" /\ requests' = requests /\ boiler' = boiler
      /\ e.id \in DOMAIN requests /\ e.id \in Nat
      /\ requests[e.id].key \in Keys
  BY DEF Execute, ManagerInv, ManagerTypeOK, Request, QueueEntry
<1>2. AskedFor' = AskedFor
  BY <1>1 DEF AskedFor
<1>3. BeingSent = [n \in Nodes |-> 0]
  BY <1>1 DEF BeingSent
<1>4. CASE requests[e.id].key \notin Nodes
  <2>1. BeingSent' = BeingSent
    BY <1>1, <1>3, <1>4 DEF BeingSent
  <2> QED
    BY <1>1, <1>2, <2>1 DEF Abstract!absVars
<1>5. CASE requests[e.id].key \in Nodes
  <2> DEFINE n == requests[e.id].key
  <2>1. BeingSent' = [BeingSent EXCEPT ![n] = e.id]
    BY <1>1, <1>3, <1>5 DEF BeingSent
  <2>2. e.id \in AskedFor[n]
    BY <1>1, <1>5 DEF AskedFor
  <2>3. \A u \in AskedFor[n] : u <= e.id
    <3> SUFFICES ASSUME NEW u \in DOMAIN requests, requests[u].key = n, ~(u <= e.id)
                 PROVE  FALSE
      BY <1>5 DEF AskedFor
    <3>1. u \in Nat /\ e.id < u
      BY <1>1 DEF ManagerInv, ManagerTypeOK
    <3>2. IsLive(e.id) /\ IsSet(e.id)
      BY <1>5 DEF IsLive, IsQueued, IsSet
    <3> QED
      BY <1>1, <3>1, <3>2 DEF ManagerInv, OlderSetsSuperseded
  <2>4. Abstract!Begin(n)
    BY <1>1, <1>2, <1>3, <1>5, <2>1, <2>2, <2>3 DEF Abstract!Begin
  <2> QED
    BY <1>5, <2>4 DEF Abstract!AbsNext
<1> QED
  BY <1>4, <1>5

\* The boiler's side effect is the register's delivery.
LEMMA RefineBoilerApplies ==
  ASSUME ManagerInv, BoilerApplies
  PROVE  Abstract!AbsNext
<1> DEFINE n == requests[worker.id].key
<1>1. /\ n \in Nodes /\ requests' = requests /\ worker' = worker
      /\ worker.state = "executing"
      /\ worker.id \in DOMAIN requests /\ worker.id # 0
      /\ boiler' = [boiler EXCEPT ![n] = worker.id]
  BY DEF BoilerApplies, IsSet, ManagerInv, ManagerTypeOK
<1>2. AskedFor' = AskedFor /\ BeingSent' = BeingSent /\ BeingSent[n] = worker.id
  BY <1>1 DEF AskedFor, BeingSent
<1>3. Abstract!Deliver(n)
  BY <1>1, <1>2 DEF Abstract!Deliver
<1> QED
  BY <1>1, <1>3 DEF Abstract!AbsNext

\* A call ends, or the worker is cancelled in the middle of it.
LEMMA RefineCallEnds ==
  ASSUME ManagerInv,
         ExecuteSucceeds \/ ExecuteFails \/ ExecuteFailsAndRetries \/ StopWorker,
         AskedFor' = AskedFor
  PROVE  Abstract!AbsNext \/ UNCHANGED Abstract!absVars
<1>1. boiler' = boiler /\ worker'.state # "executing"
  BY DEF ExecuteSucceeds, ExecuteFails, ExecuteFailsAndRetries, StopWorker, Idle,
     ManagerInv, ManagerTypeOK
<1>2. BeingSent' = [n \in Nodes |-> 0]
  BY <1>1 DEF BeingSent
<1>3. CASE BeingSent = [n \in Nodes |-> 0]
  BY <1>1, <1>2, <1>3 DEF Abstract!absVars
<1>4. CASE BeingSent # [n \in Nodes |-> 0]
  <2> PICK n \in Nodes : BeingSent[n] # 0
    BY <1>4 DEF BeingSent
  <2>1. \A m \in Nodes : m # n => BeingSent[m] = 0
    BY DEF BeingSent
  <2>2. BeingSent' = [BeingSent EXCEPT ![n] = 0]
    BY <1>2, <2>1 DEF BeingSent
  <2>3. Abstract!End(n)
    BY <1>1, <2>2 DEF Abstract!End
  <2> QED
    BY <2>3 DEF Abstract!AbsNext
<1> QED
  BY <1>3, <1>4

\* Start, drain, skip, requeue, clean-up and a caller giving up are
\* invisible to the register.
LEMMA RefineOther ==
  ASSUME ManagerInv,
         \/ Start \/ DrainQueue \/ SkipSuperseded \/ Requeue
         \/ \E i \in ready : CleanupPending(i)
         \/ \E i \in DOMAIN requests : CancelGet(i),
         AskedFor' = AskedFor
  PROVE  UNCHANGED Abstract!absVars
<1>1. boiler' = boiler
  BY DEF Start, DrainQueue, SkipSuperseded, Requeue, CleanupPending, CancelGet
<1>2. \/ worker' = worker
      \/ worker.state # "executing" /\ worker'.state # "executing"
  BY DEF Start, DrainQueue, SkipSuperseded, Requeue, CleanupPending, CancelGet, Idle,
     ManagerInv, ManagerTypeOK
<1>3. worker.state = "executing" => requests'[worker.id].key = requests[worker.id].key
  <2>1. CASE requests' = requests
    BY <2>1
  <2>2. CASE DrainQueue
    BY <2>2 DEF DrainQueue, ManagerInv, ManagerTypeOK
  <2>3. ASSUME NEW i \in DOMAIN requests, CancelGet(i), worker.state = "executing"
        PROVE  requests'[worker.id].key = requests[worker.id].key
    <3>1. "cancelled" \in Outcomes \ {"pending"} /\ ManagerTypeOK
          /\ worker.id \in DOMAIN requests
      BY <2>3 DEF Outcomes, ManagerInv, ManagerTypeOK
    <3> QED
      BY <2>3, <3>1, ResolveFacts DEF CancelGet
  <2> QED
    BY <2>1, <2>2, <2>3 DEF Start, SkipSuperseded, Requeue, CleanupPending
<1>4. BeingSent' = BeingSent
  BY <1>2, <1>3 DEF BeingSent
<1> QED
  BY <1>1, <1>4 DEF Abstract!absVars

\* Every step of the manager is a step of the register, or a stutter.
LEMMA RefineNext ==
  ManagerInv /\ [ManagerNext]_managerVars => [Abstract!AbsNext]_(Abstract!absVars)
<1> SUFFICES ASSUME ManagerInv, [ManagerNext]_managerVars
             PROVE  Abstract!AbsNext \/ UNCHANGED Abstract!absVars
  OBVIOUS
<1>1. CASE UNCHANGED managerVars
  BY <1>1, RefineStutter
<1>2. ASSUME NEW n \in Nodes, SubmitSet(n)
      PROVE  Abstract!AbsNext
  BY <1>2, RefineSubmitSet DEF Abstract!AbsNext
<1>3. ASSUME NEW g \in Groups, NEW p \in {MEDIUM, LOW}, SubmitGet(g, p)
      PROVE  UNCHANGED Abstract!absVars
  BY <1>3, RefineSubmitGet
<1>4. CASE Execute
  BY <1>4, RefineExecute
<1>5. CASE BoilerApplies
  BY <1>5, RefineBoilerApplies
<1>6. ASSUME ManagerNext,
             ~ \E n \in Nodes : SubmitSet(n),
             ~ \E g \in Groups, p \in {MEDIUM, LOW} : SubmitGet(g, p),
             ~ Execute, ~ BoilerApplies
      PROVE  Abstract!AbsNext \/ UNCHANGED Abstract!absVars
  <2>1. AskedFor' = AskedFor
    BY <1>6, KeysUnchanged
  <2> QED
    BY <1>6, <2>1, RefineCallEnds, RefineOther DEF ManagerNext
<1> QED
  BY <1>1, <1>2, <1>3, <1>4, <1>5, <1>6

\* The queue, the worker, the retries and the shutdown together keep the
\* promise of LatestWriteWins.
THEOREM Refinement == ManagerSpec => ImplementsLatestWriteWins
<1>1. ManagerInit => Abstract!AbsInit
  BY RefineInit
<1>2. ManagerInv /\ [ManagerNext]_managerVars => [Abstract!AbsNext]_(Abstract!absVars)
  BY RefineNext
<1> QED
  BY <1>1, <1>2, ManagerInvariant, PTL
     DEF ManagerSpec, ImplementsLatestWriteWins, Abstract!AbsSpec

-----------------------------------------------------------------------------
(* Precedence of the SETs                                                  *)

\* SETs, and no others, are HIGH, and a queue entry has the priority of its
\* request, the entry of a retry included.
PriorityInv ==
    /\ \A i \in DOMAIN requests : IsSet(i) <=> requests[i].priority = HIGH
    /\ \A e \in queue : e.priority = requests[e.id].priority

\* A new request keeps the correspondence of priorities and kinds when the
\* submitter passes HIGH exactly for a SET.
LEMMA PrioritiesCreate ==
  ASSUME ManagerInv, PriorityInv, NEW key \in Keys, NEW priority \in Priorities,
         key \in Nodes <=> priority = HIGH,
         NEW table, DOMAIN table = DOMAIN requests,
         \A i \in DOMAIN requests :
            table[i].key = requests[i].key /\ table[i].priority = requests[i].priority,
         CreateAndQueue(key, priority, table)
  PROVE  PriorityInv'
<1> DEFINE id == counter + 1
           entry == [priority |-> priority, seq |-> id, id |-> id]
<1>1. /\ id \notin DOMAIN requests
      /\ DOMAIN requests' = DOMAIN requests \cup {id}
      /\ \A i \in DOMAIN requests : requests'[i] = table[i]
      /\ requests'[id].key = key /\ requests'[id].priority = priority
      /\ queue' = queue \cup {entry}
      /\ \A e \in queue : e.id \in DOMAIN requests
  BY DEF CreateAndQueue, ManagerInv, ManagerTypeOK
<1>2. entry.id = id /\ entry.priority = priority
  OBVIOUS
<1> HIDE DEF id, entry
<1> QED
  BY <1>1, <1>2 DEF PriorityInv, IsSet

\* Steps that keep keys and priorities and add nothing to the queue keep
\* the correspondence.
LEMMA PrioritiesKept ==
  ASSUME ManagerInv, PriorityInv, DOMAIN requests' = DOMAIN requests,
         \A i \in DOMAIN requests :
            /\ requests'[i].key = requests[i].key
            /\ requests'[i].priority = requests[i].priority,
         queue' \subseteq queue
  PROVE  PriorityInv'
BY DEF PriorityInv, IsSet, ManagerInv, ManagerTypeOK

\* Resolving a future keeps the correspondence.
LEMMA PrioritiesResolved ==
  ASSUME ManagerInv, PriorityInv, NEW i \in DOMAIN requests,
         NEW outcome, Resolve(i, outcome), queue' = queue
  PROVE  PriorityInv'
<1>1. requests \in [DOMAIN requests -> Request]
  BY DEF ManagerInv, ManagerTypeOK
<1> QED
  BY <1>1, PrioritiesKept DEF Resolve, Request

\* Every step of the manager keeps the correspondence.
LEMMA PrioritiesNext == ManagerInv /\ PriorityInv /\ [ManagerNext]_managerVars => PriorityInv'
<1> SUFFICES ASSUME ManagerInv, PriorityInv, [ManagerNext]_managerVars
             PROVE  PriorityInv'
  OBVIOUS
<1>1. ASSUME NEW g \in Groups, NEW p \in {MEDIUM, LOW}, SubmitGet(g, p)
      PROVE  PriorityInv'
  <2>1. CASE UNCHANGED managerVars
    BY <2>1, PrioritiesKept DEF managerVars
  <2>2. CASE CreateAndQueue(g, p, requests)
    BY <2>2, PrioritiesCreate, ManagerAssumption DEF Keys, Priorities
  <2> QED
    BY <1>1, <2>1, <2>2 DEF SubmitGet
<1>2. ASSUME NEW n \in Nodes, SubmitSet(n)
      PROVE  PriorityInv'
  <2> DEFINE marked == IF pending[n] = NoRequest
                       THEN requests
                       ELSE [requests EXCEPT ![pending[n]].superseded = TRUE]
  <2>1. CreateAndQueue(n, HIGH, marked)
    BY <1>2 DEF SubmitSet
  <2>2. /\ DOMAIN marked = DOMAIN requests
        /\ \A i \in DOMAIN requests :
              marked[i].key = requests[i].key /\ marked[i].priority = requests[i].priority
    BY DEF ManagerInv, ManagerTypeOK, Request
  <2>3. n \in Keys /\ HIGH \in Priorities
    BY DEF Keys, Priorities
  <2> HIDE DEF marked
  <2> QED
    BY <2>1, <2>2, <2>3, PrioritiesCreate
<1>3. CASE ExecuteSucceeds \/ ExecuteFails
  <2>1. worker.id \in DOMAIN requests /\ queue' = queue
    BY <1>3 DEF ExecuteSucceeds, ExecuteFails, ManagerInv, ManagerTypeOK
  <2>2. \E outcome : Resolve(worker.id, outcome)
    BY <1>3 DEF ExecuteSucceeds, ExecuteFails
  <2> QED
    BY <2>1, <2>2, PrioritiesResolved
<1>4. ASSUME NEW i \in DOMAIN requests, CancelGet(i)
      PROVE  PriorityInv'
  BY <1>4, PrioritiesResolved DEF CancelGet
<1>5. CASE ExecuteFailsAndRetries
  <2>1. requests \in [DOMAIN requests -> Request]
    BY DEF ManagerInv, ManagerTypeOK
  <2> QED
    BY <1>5, <2>1, PrioritiesKept DEF ExecuteFailsAndRetries, Request
<1>6. CASE Requeue
  <2> DEFINE entry == [priority |-> requests[worker.id].priority,
                       seq |-> counter + 1, id |-> worker.id]
  <2>1. queue' = queue \cup {entry} /\ requests' = requests
    BY <1>6 DEF Requeue
  <2>2. entry.priority = requests[entry.id].priority
    OBVIOUS
  <2> HIDE DEF entry
  <2> QED
    BY <2>1, <2>2 DEF PriorityInv, IsSet
<1>7. CASE DrainQueue
  <2>1. requests \in [DOMAIN requests -> Request]
    BY DEF ManagerInv, ManagerTypeOK
  <2> QED
    BY <1>7, <2>1, PrioritiesKept DEF DrainQueue, Request
<1>8. CASE requests' = requests /\ queue' \subseteq queue
  BY <1>8, PrioritiesKept
<1> QED
  BY <1>1, <1>2, <1>3, <1>4, <1>5, <1>6, <1>7, <1>8
     DEF ManagerNext, managerVars, Start, StopWorker, SkipSuperseded, Execute,
         BoilerApplies, CleanupPending

\* No poll is started while a SET waits in the queue, a retried one included.
THEOREM SetsPrecedePolls == ManagerSpec => SetsBeforePolls
<1>1. ManagerInit => PriorityInv
  BY DEF ManagerInit, PriorityInv
<1>2. ManagerInv /\ PriorityInv /\ [ManagerNext]_managerVars =>
         [(worker.id # worker'.id /\ worker'.id # NoRequest /\ ~IsSet(worker'.id))
             => \A e \in queue : ~IsSet(e.id)]_managerVars
  <2> SUFFICES ASSUME ManagerInv, PriorityInv, ManagerNext,
                      worker.id # worker'.id, worker'.id # NoRequest, ~IsSet(worker'.id),
                      NEW f \in queue, IsSet(f.id)
               PROVE  FALSE
    OBVIOUS
  <2>1. Execute
    <3>1. ~ExecuteFailsAndRetries
      BY DEF ExecuteFailsAndRetries, ManagerInv, ManagerTypeOK
    <3> QED
      BY <3>1 DEF ManagerNext, managerVars, Start, StopWorker, DrainQueue, SubmitGet,
         SubmitSet, CreateAndQueue, SkipSuperseded, BoilerApplies, ExecuteSucceeds,
         ExecuteFails, Requeue, CleanupPending, CancelGet, Idle
  <2> PICK e \in queue : IsHead(e) /\ worker' = [state |-> "executing", id |-> e.id]
    BY <2>1 DEF Execute
  <2>2. f.priority = HIGH /\ e.priority # HIGH /\ e.priority \in Priorities
    BY DEF PriorityInv, ManagerInv, ManagerTypeOK, QueueEntry
  <2>3. Before(f, e)
    BY <2>2 DEF Before, Priorities
  <2> QED
    BY <2>3 DEF IsHead
<1> QED
  BY <1>1, <1>2, ManagerInvariant, PrioritiesNext, PTL DEF ManagerSpec, SetsBeforePolls

=============================================================================
