--------------------------- MODULE ApiAccessManager ---------------------------
(***************************************************************************)
(* HdgApiAccessManager (helpers/api_access_manager.py): every call to the  *)
(* boiler goes through one priority queue served by one worker task.       *)
(*                                                                         *)
(*   - A GET carries the key of its polling group.  While one is pending   *)
(*     for a group, a further GET of the group shares its future.          *)
(*   - A SET carries the id of its node.  A new SET of a node marks the    *)
(*     pending one superseded; the worker drops superseded requests.       *)
(*   - A failed SET is put back into the queue after a pause in which the  *)
(*     worker serves nobody, at most SetRetryAttempts times.               *)
(*                                                                         *)
(* All of it runs on one asyncio event loop, so an action is the code      *)
(* between two suspension points.  _submit_lock is never held across one   *)
(* (the queue is unbounded, so put() does not suspend): a submission is a  *)
(* single step.  A future that is done calls its callbacks in a later step *)
(* of the loop; such handles run before anything the loop learns from the  *)
(* network or from a timer, but a submission can come in between.          *)
(*                                                                         *)
(* The boiler is external: a SET that is being executed may take effect    *)
(* whether or not the client then sees it succeed, and has no effect once  *)
(* the client has given up on it.                                          *)
(***************************************************************************)
EXTENDS Naturals, FiniteSets

CONSTANTS
    Groups,            \* polling groups: the context keys of GET_NODES
    Nodes,             \* settable nodes: the context keys of SET_NODE
    SetRetryAttempts,  \* SET_VALUE_RETRY_ATTEMPTS
    MaxSubmissions     \* bound on the requests created, for model checking

ASSUME ManagerAssumption ==
    /\ Groups \cap Nodes = {}
    /\ SetRetryAttempts \in Nat
    /\ MaxSubmissions \in Nat

Keys == Groups \cup Nodes

\* ApiPriority: the lower value is served first.
HIGH == 1
MEDIUM == 2
LOW == 3
Priorities == {HIGH, MEDIUM, LOW}

\* The states of an asyncio future, "pending" being the one that is not done.
Outcomes == {"pending", "result", "exception", "cancelled"}

NoRequest == 0

VARIABLES
    counter,    \* _request_id_counter
    requests,   \* every ApiRequest created, by its request_id
    queue,      \* _request_queue: (priority, sequence number, request) entries
    pending,    \* _pending_requests: by context key, a request or NoRequest
    ready,      \* requests whose future is done and whose callback is scheduled
    worker,     \* what the worker task is doing, and for which request
    phase,      \* the manager's life: new, running, stopping, stopped
    boiler      \* the SET request whose value each node holds, or NoRequest

managerVars == <<counter, requests, queue, pending, ready, worker, phase, boiler>>

-----------------------------------------------------------------------------
(* State predicates and types                                              *)

Request ==
    [key : Keys, priority : Priorities, superseded : BOOLEAN,
     retries : 0..SetRetryAttempts, future : Outcomes]

QueueEntry == [priority : Priorities, seq : Nat, id : Nat]

IsSet(i) == requests[i].key \in Nodes
IsDone(i) == requests[i].future # "pending"
IsSuperseded(i) == requests[i].superseded

IsQueued(i) == \E e \in queue : e.id = i

\* The request is still in the manager's hands.
IsLive(i) == IsQueued(i) \/ worker.id = i

Idle == [state |-> "idle", id |-> NoRequest]

ManagerTypeOK ==
    /\ counter \in Nat
    /\ DOMAIN requests \subseteq 1..counter
    /\ requests \in [DOMAIN requests -> Request]
    /\ queue \subseteq QueueEntry
    /\ \A e \in queue : e.id \in DOMAIN requests /\ e.seq <= counter
    /\ pending \in [Keys -> Nat]
    /\ \A k \in Keys :
          pending[k] # NoRequest =>
              pending[k] \in DOMAIN requests /\ requests[pending[k]].key = k
    /\ ready \subseteq DOMAIN requests
    /\ worker \in [state : {"none", "idle", "executing", "backoff"}, id : Nat]
    /\ worker.state \in {"none", "idle"} => worker.id = NoRequest
    /\ worker.state \in {"executing", "backoff"} => worker.id \in DOMAIN requests
    /\ phase \in {"new", "running", "stopping", "stopped"}
    /\ phase = "running" <=> worker.state # "none"
    /\ boiler \in [Nodes -> Nat]
    /\ \A n \in Nodes :
          boiler[n] # NoRequest =>
              boiler[n] \in DOMAIN requests /\ requests[boiler[n]].key = n

-----------------------------------------------------------------------------
(* Life cycle                                                              *)

ManagerInit ==
    /\ counter = 0
    /\ requests = [i \in {} |-> NoRequest]
    /\ queue = {}
    /\ pending = [k \in Keys |-> NoRequest]
    /\ ready = {}
    /\ worker = [state |-> "none", id |-> NoRequest]
    /\ phase = "new"
    /\ boiler = [n \in Nodes |-> NoRequest]

\* start(): called once, while the config entry is being set up.
Start ==
    /\ phase = "new"
    /\ phase' = "running"
    /\ worker' = Idle
    /\ UNCHANGED <<counter, requests, queue, pending, ready, boiler>>

\* Fault variant: stop() forgets to cancel the worker task.
StopWithoutCancel ==
    /\ phase = "running"
    /\ phase' = "stopping"
    /\ UNCHANGED <<counter, requests, queue, pending, ready, worker, boiler>>

\* stop(), up to the await of the cancelled worker.  CancelledError is not an
\* Exception, so the request in the worker's hands is neither retried nor
\* resolved.
StopWorker ==
    /\ phase = "running"
    /\ phase' = "stopping"
    /\ worker' = [state |-> "none", id |-> NoRequest]
    /\ UNCHANGED <<counter, requests, queue, pending, ready, boiler>>

\* stop(), from there on: _drain_queue.  The pending entry goes by its key,
\* whichever request it names.  Whoever awaits a dropped request gets a
\* CancelledError.
DrainQueue ==
    LET dropped == {e.id : e \in queue}
        waiting == {i \in dropped : ~IsDone(i)}
        keys == {requests[i].key : i \in dropped}
    IN  /\ phase = "stopping"
        /\ phase' = "stopped"
        /\ requests' = [i \in DOMAIN requests |->
                          IF i \in waiting
                          THEN [requests[i] EXCEPT !.future = "cancelled"]
                          ELSE requests[i]]
        /\ ready' = ready \cup waiting
        /\ pending' = [k \in Keys |-> IF k \in keys THEN NoRequest ELSE pending[k]]
        /\ queue' = {}
        /\ UNCHANGED <<counter, worker, boiler>>

-----------------------------------------------------------------------------
(* Submission                                                              *)

\* _create_and_queue_request, on a request table in which an older request of
\* the same key may just have been marked.
CreateAndQueue(key, priority, table) ==
    LET id == counter + 1
        new == [key |-> key, priority |-> priority, superseded |-> FALSE,
                retries |-> 0, future |-> "pending"]
    IN  /\ counter' = id
        /\ requests' = [i \in DOMAIN table \cup {id} |->
                           IF i = id THEN new ELSE table[i]]
        /\ pending' = [pending EXCEPT ![key] = id]
        /\ queue' = queue \cup {[priority |-> priority, seq |-> id, id |-> id]}
        /\ UNCHANGED <<ready, worker, phase, boiler>>

CanSubmit == phase # "new" /\ Cardinality(DOMAIN requests) < MaxSubmissions

\* The request whose future submit_request awaits for this key.
Ticket(key) ==
    IF key \in Groups /\ pending[key] # NoRequest THEN pending[key] ELSE counter + 1

\* submit_request of a GET_NODES: while one is pending the future is shared.
SubmitGet(g, priority) ==
    \/ /\ pending[g] # NoRequest
       /\ phase # "new"
       /\ UNCHANGED managerVars
    \/ /\ pending[g] = NoRequest
       /\ CanSubmit
       /\ CreateAndQueue(g, priority, requests)

\* Fault variant: a new SET leaves the pending one of its node as it is.
SubmitSetKeepingOlder(n) == CanSubmit /\ CreateAndQueue(n, HIGH, requests)

\* submit_request of a SET_NODE: the pending one of the node is superseded,
\* wherever it is: in the queue, being executed, waiting for its retry, or
\* done with its callback outstanding.
SubmitSet(n) ==
    LET marked == IF pending[n] = NoRequest
                  THEN requests
                  ELSE [requests EXCEPT ![pending[n]].superseded = TRUE]
    IN  CanSubmit /\ CreateAndQueue(n, HIGH, marked)

-----------------------------------------------------------------------------
(* The worker                                                              *)

\* The order of the queue's tuples: by priority, then by sequence number.
Before(e, f) ==
    \/ e.priority < f.priority
    \/ e.priority = f.priority /\ e.seq < f.seq

\* A head of the queue: PriorityQueue.get() returns one.
IsHead(e) == e \in queue /\ \A f \in queue : ~Before(f, e)

SkipSuperseded ==
    /\ worker.state = "idle"
    /\ \E e \in queue :
          /\ IsHead(e)
          /\ IsSuperseded(e.id)
          /\ queue' = queue \ {e}
    /\ UNCHANGED <<counter, requests, pending, ready, worker, phase, boiler>>

\* Fault variant: the worker does not look at is_superseded.
ExecuteAny ==
    /\ worker.state = "idle"
    /\ \E e \in queue :
          /\ IsHead(e)
          /\ queue' = queue \ {e}
          /\ worker' = [state |-> "executing", id |-> e.id]
    /\ UNCHANGED <<counter, requests, pending, ready, phase, boiler>>

Execute ==
    /\ worker.state = "idle"
    /\ \E e \in queue :
          /\ IsHead(e)
          /\ ~IsSuperseded(e.id)
          /\ queue' = queue \ {e}
          /\ worker' = [state |-> "executing", id |-> e.id]
    /\ UNCHANGED <<counter, requests, pending, ready, phase, boiler>>

\* The boiler stores the value of the SET being executed.
BoilerApplies ==
    /\ worker.state = "executing"
    /\ IsSet(worker.id)
    /\ boiler' = [boiler EXCEPT ![requests[worker.id].key] = worker.id]
    /\ UNCHANGED <<counter, requests, queue, pending, ready, worker, phase>>

\* Complete the future of a request, unless it is done: its callback is
\* scheduled, not called.
Resolve(i, outcome) ==
    IF IsDone(i)
    THEN UNCHANGED <<requests, ready>>
    ELSE /\ requests' = [requests EXCEPT ![i].future = outcome]
         /\ ready' = ready \cup {i}

\* The answer of the boiler reaches the worker.
ExecuteSucceeds ==
    /\ worker.state = "executing"
    /\ ready = {}
    /\ IsSet(worker.id) => boiler[requests[worker.id].key] = worker.id
    /\ Resolve(worker.id, "result")
    /\ worker' = Idle
    /\ UNCHANGED <<counter, queue, pending, phase, boiler>>

IsRetryable(i) == IsSet(i) /\ requests[i].retries < SetRetryAttempts

\* The call fails and _retry_request starts its pause.
ExecuteFailsAndRetries ==
    /\ worker.state = "executing"
    /\ ready = {}
    /\ IsRetryable(worker.id)
    /\ requests' = [requests EXCEPT ![worker.id].retries = @ + 1]
    /\ worker' = [worker EXCEPT !.state = "backoff"]
    /\ UNCHANGED <<counter, queue, pending, ready, phase, boiler>>

\* Fault variant: a failure that is not retried leaves the future alone.
FailWithoutException ==
    /\ worker.state = "executing"
    /\ ready = {}
    /\ ~IsRetryable(worker.id)
    /\ worker' = Idle
    /\ UNCHANGED <<counter, requests, queue, pending, ready, phase, boiler>>

\* The call fails for good and the waiting callers get the exception.
ExecuteFails ==
    /\ worker.state = "executing"
    /\ ready = {}
    /\ ~IsRetryable(worker.id)
    /\ Resolve(worker.id, "exception")
    /\ worker' = Idle
    /\ UNCHANGED <<counter, queue, pending, phase, boiler>>

\* Fault variant: a retried SET goes to the back of the whole queue.
RequeueAtLowPriority ==
    /\ worker.state = "backoff"
    /\ ready = {}
    /\ counter' = counter + 1
    /\ queue' = queue \cup {[priority |-> LOW, seq |-> counter + 1, id |-> worker.id]}
    /\ worker' = Idle
    /\ UNCHANGED <<requests, pending, ready, phase, boiler>>

\* Fault variant: a retried SET is queued under the current counter.
RequeueWithoutCounting ==
    /\ worker.state = "backoff"
    /\ ready = {}
    /\ queue' = queue \cup {[priority |-> requests[worker.id].priority,
                             seq |-> counter, id |-> worker.id]}
    /\ worker' = Idle
    /\ UNCHANGED <<counter, requests, pending, ready, phase, boiler>>

\* Fault variant: after the pause the request is not queued again.
RequeueNothing ==
    /\ worker.state = "backoff"
    /\ ready = {}
    /\ worker' = Idle
    /\ UNCHANGED <<counter, requests, queue, pending, ready, phase, boiler>>

\* The pause is over: the same request is queued again, under a new sequence
\* number, so it comes after a SET submitted in the meantime.
Requeue ==
    /\ worker.state = "backoff"
    /\ ready = {}
    /\ counter' = counter + 1
    /\ queue' = queue \cup {[priority |-> requests[worker.id].priority,
                             seq |-> counter + 1, id |-> worker.id]}
    /\ worker' = Idle
    /\ UNCHANGED <<requests, pending, ready, phase, boiler>>

-----------------------------------------------------------------------------
(* Futures                                                                 *)

\* Fault variant: the callback removes whatever is pending under its key.
CleanupByKey(i) ==
    /\ i \in ready
    /\ ready' = ready \ {i}
    /\ pending' = [pending EXCEPT ![requests[i].key] = NoRequest]
    /\ UNCHANGED <<counter, requests, queue, worker, phase, boiler>>

\* Fault variant: the callback compares the wrong way round.
CleanupOthers(i) ==
    /\ i \in ready
    /\ ready' = ready \ {i}
    /\ pending' = IF pending[requests[i].key] # i
                  THEN [pending EXCEPT ![requests[i].key] = NoRequest]
                  ELSE pending
    /\ UNCHANGED <<counter, requests, queue, worker, phase, boiler>>

\* The done callback: _cleanup_pending_request, which leaves a newer request of
\* the same key alone.
CleanupPending(i) ==
    /\ i \in ready
    /\ ready' = ready \ {i}
    /\ pending' = IF pending[requests[i].key] = i
                  THEN [pending EXCEPT ![requests[i].key] = NoRequest]
                  ELSE pending
    /\ UNCHANGED <<counter, requests, queue, worker, phase, boiler>>

\* A task awaiting a GET is cancelled, which cancels the future it shares with
\* the other callers; the request stays in the queue.  Tasks that await a SET
\* belong to nobody who could cancel them.
CancelGet(i) ==
    /\ i \in DOMAIN requests
    /\ ~IsSet(i)
    /\ ~IsDone(i)
    /\ Resolve(i, "cancelled")
    /\ UNCHANGED <<counter, queue, pending, worker, phase, boiler>>

-----------------------------------------------------------------------------
(* Specification                                                           *)

WorkerTakes == SkipSuperseded \/ Execute
CallEnds == ExecuteSucceeds \/ ExecuteFailsAndRetries \/ ExecuteFails

ManagerNext ==
    \/ Start \/ StopWorker \/ DrainQueue
    \/ \E g \in Groups : \E p \in {MEDIUM, LOW} : SubmitGet(g, p)
    \/ \E n \in Nodes : SubmitSet(n)
    \/ SkipSuperseded \/ Execute \/ BoilerApplies
    \/ ExecuteSucceeds \/ ExecuteFailsAndRetries \/ ExecuteFails \/ Requeue
    \/ \E i \in ready : CleanupPending(i)
    \/ \E i \in DOMAIN requests : CancelGet(i)

\* The event loop runs what is ready, a call ends within the client's timeout
\* and a pause ends.  Nobody has to submit, cancel or stop.
ManagerFairness ==
    /\ WF_managerVars(WorkerTakes)
    /\ WF_managerVars(CallEnds)
    /\ WF_managerVars(Requeue)
    /\ WF_managerVars(\E i \in ready : CleanupPending(i))

ManagerSpec == ManagerInit /\ [][ManagerNext]_managerVars
FairManagerSpec == ManagerSpec /\ ManagerFairness

-----------------------------------------------------------------------------
(* Properties                                                              *)

\* No two entries of the queue compare equal: the tuples of the PriorityQueue
\* would otherwise be compared by their ApiRequest, which has no order and
\* raises TypeError inside put().  A retry must therefore not reuse a number.
EntriesComparable ==
    \A e, f \in queue : e # f => Before(e, f) \/ Before(f, e)

\* Of the SETs of a node that the manager still works on, all but the newest
\* are superseded: no retry, cleanup or late answer revives an older value.
OlderSetsSuperseded ==
    \A i, j \in DOMAIN requests :
        (/\ i < j
         /\ IsSet(i)
         /\ requests[i].key = requests[j].key
         /\ IsLive(i)) => IsSuperseded(i)

\* While the manager runs, a request whose caller still waits and which is not
\* superseded is in the queue or in the worker's hands, and is the one that
\* further submissions of its key find pending.
WaitersAreServed ==
    phase = "running" =>
        \A i \in DOMAIN requests :
            ~IsDone(i) /\ ~IsSuperseded(i) =>
                IsLive(i) /\ pending[requests[i].key] = i

\* A pending entry never outlives the callback of its future: otherwise every
\* later GET of the group would be answered with the same old result.
NoStalePending ==
    \A k \in Keys :
        pending[k] # NoRequest /\ IsDone(pending[k]) => pending[k] \in ready

\* At most one request of a key is both alive and awaited: polls of a group
\* do not pile up in the queue.
SingleFlight ==
    \A i, j \in DOMAIN requests :
        (/\ requests[i].key = requests[j].key
         /\ IsLive(i) /\ ~IsDone(i) /\ ~IsSuperseded(i)
         /\ IsLive(j) /\ ~IsDone(j) /\ ~IsSuperseded(j)) => i = j

\* The inductive invariant behind these.  Entries of the queue are told apart
\* by their numbers and by their requests, and the worker's request is not in
\* the queue; a future whose callback is scheduled is done, that of a live SET
\* is not; a live request that is awaited and not superseded is the pending
\* one of its key; the boiler is never ahead of the SET being executed.
QueueShape ==
    /\ \A e, f \in queue : e.seq = f.seq \/ e.id = f.id => e = f
    /\ \A e \in queue : e.id # worker.id

FutureShape ==
    /\ \A i \in ready : IsDone(i)
    /\ \A i \in DOMAIN requests : IsSet(i) /\ IsLive(i) => ~IsDone(i)

LiveIsPending ==
    \A i \in DOMAIN requests :
        IsLive(i) /\ ~IsDone(i) /\ ~IsSuperseded(i) => pending[requests[i].key] = i

BoilerNotAhead ==
    worker.state = "executing" /\ IsSet(worker.id) =>
        boiler[requests[worker.id].key] <= worker.id

NothingBeforeStart == phase = "new" => DOMAIN requests = {} /\ queue = {}

ManagerInv ==
    /\ ManagerTypeOK
    /\ QueueShape
    /\ FutureShape
    /\ LiveIsPending
    /\ OlderSetsSuperseded
    /\ WaitersAreServed
    /\ NoStalePending
    /\ BoilerNotAhead
    /\ NothingBeforeStart

\* The boiler never goes back to the value of an older request, although a
\* failed SET may have taken effect and is sent again later.
BoilerNeverGoesBack ==
    [][\A n \in Nodes : boiler[n] <= boiler'[n]]_managerVars

\* The worker starts a poll only when no SET is waiting in the queue, a SET
\* that is tried again included.
SetsBeforePolls ==
    [][(worker.id # worker'.id /\ worker'.id # NoRequest /\ ~IsSet(worker'.id))
          => \A e \in queue : ~IsSet(e.id)]_managerVars

\* The manager implements LatestWriteWins.
AskedFor == [n \in Nodes |-> {i \in DOMAIN requests : requests[i].key = n}]
BeingSent ==
    [n \in Nodes |->
        IF worker.state = "executing" /\ requests[worker.id].key = n
        THEN worker.id ELSE NoRequest]

Abstract == INSTANCE LatestWriteWins
                WITH asked <- AskedFor, sending <- BeingSent, held <- boiler

\* Every transmission of a SET carries the newest value submitted for its node.
ImplementsLatestWriteWins == Abstract!AbsSpec

\* The manager keeps reaching points at which every caller has its answer,
\* unless its request was superseded or the manager is stopped: no request is
\* forgotten, whatever fails, is retried or is cancelled on the way.
RequestsAnswered ==
    []<>(\/ phase # "running"
         \/ \A i \in DOMAIN requests : IsDone(i) \/ IsSuperseded(i))

=============================================================================
