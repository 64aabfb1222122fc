----------------------------- MODULE SetValuePath -----------------------------
(***************************************************************************)
(* The way of a value from the user to the boiler and back to the display: *)
(* the coordinator's write path (coordinator.py), HdgOptimisticManager,    *)
(* HdgPollingResponseProcessor and the API access manager below them.      *)
(*                                                                         *)
(* async_set_node_value stores the value as optimistic and (re)starts the  *)
(* node's debounce timer.  The timer starts a task that submits the SET    *)
(* and awaits it; the task updates the coordinator's data on success,      *)
(* restores what it found there on failure, and clears the optimistic      *)
(* value in any case.  Meanwhile polls write the boiler's values into the  *)
(* same data, unless the node was set recently.                            *)
(*                                                                         *)
(* Values are told apart by the user's inputs: input number v asks for     *)
(* value v, and 0 is the value every node has at the start, the boiler and *)
(* the coordinator alike (the first refresh has read it).  Home Assistant  *)
(* does not call an entity that is unavailable, so data holds a value of   *)
(* every node that is set and "old_value is not None" is true.             *)
(*                                                                         *)
(* Home Assistant starts tasks eagerly: a timer that expires runs its task *)
(* up to the await of the future, and the callbacks of a future run one    *)
(* after the other, first the manager's cleanup, then the waiting task.    *)
(***************************************************************************)
EXTENDS ApiAccessManager

CONSTANT MaxInputs   \* bound on the values the user enters

ASSUME PathAssumption == MaxInputs \in Nat /\ MaxInputs <= MaxSubmissions

NoInput == 0
Inputs == 1..MaxInputs
Values == 0..MaxInputs

VARIABLES
    inputs,         \* how many values the user has entered
    latestInput,    \* the user's latest value for each node, or NoInput
    scheduled,      \* debounce timers of the event loop not yet expired
    pendingTimers,  \* _pending_set_timers: by node, the value of its timer
    optimistic,     \* HdgOptimisticManager._store: by node, value and age
    data,           \* coordinator.data
    tasks,          \* _execute_set_request tasks awaiting a SET, by request
    carries,        \* the value each SET request carries
    answer          \* the values in the latest answer to a poll

coordinatorVars ==
    <<inputs, latestInput, scheduled, pendingTimers, optimistic, data, tasks,
      carries, answer>>
pathVars == <<managerVars, coordinatorVars>>

-----------------------------------------------------------------------------
(* State predicates and types                                              *)

\* An entry is "recent" within the ignore window (at least 5 s) and "aged"
\* from there to the end of the grace period (30 s).
Ages == {"none", "recent", "aged", "expired"}
Timer == [node : Nodes, value : Inputs]
Task == [node : Nodes, value : Inputs, old : Values]
NoEntry == [value |-> NoInput, age |-> "none"]
NewEntry(v) == [value |-> v, age |-> "recent"]

PathTypeOK ==
    /\ ManagerTypeOK
    /\ inputs \in 0..MaxInputs
    /\ latestInput \in [Nodes -> Values]
    /\ scheduled \subseteq Timer
    /\ pendingTimers \in [Nodes -> Values]
    /\ optimistic \in [Nodes -> [value : Values, age : Ages]]
    /\ data \in [Nodes -> Values]
    /\ DOMAIN tasks \subseteq DOMAIN carries
    /\ tasks \in [DOMAIN tasks -> Task]
    /\ DOMAIN carries = {i \in DOMAIN requests : IsSet(i)}
    /\ carries \in [DOMAIN carries -> Inputs]
    /\ answer \in [Nodes -> Values]

\* The value a node of the boiler holds.
BoilerValue(n) == IF boiler[n] = NoRequest THEN 0 ELSE carries[boiler[n]]

\* HdgOptimisticManager.get and the entities' reading of it (number.py,
\* select.py): the optimistic value within the grace period, else the data.
OptimisticHolds(n) == optimistic[n].age \in {"recent", "aged"}
Displayed(n) == IF OptimisticHolds(n) THEN optimistic[n].value ELSE data[n]

-----------------------------------------------------------------------------
(* The user, the clock and the timers                                      *)

\* Fault variant: the pending timer is popped but not cancelled.
UserSetsLeavingTimer(n) ==
    LET v == inputs + 1
    IN  /\ phase = "running"
        /\ v \in Inputs
        /\ inputs' = v
        /\ latestInput' = [latestInput EXCEPT ![n] = v]
        /\ scheduled' = scheduled \cup {[node |-> n, value |-> v]}
        /\ pendingTimers' = [pendingTimers EXCEPT ![n] = v]
        /\ optimistic' = [optimistic EXCEPT ![n] = NewEntry(v)]
        /\ UNCHANGED <<managerVars, data, tasks, carries, answer>>

\* Fault variant: the value is written to the data at once.
UserSetsData(n) ==
    LET v == inputs + 1
    IN  /\ phase = "running"
        /\ v \in Inputs
        /\ inputs' = v
        /\ latestInput' = [latestInput EXCEPT ![n] = v]
        /\ scheduled' = {t \in scheduled : t.node # n} \cup {[node |-> n, value |-> v]}
        /\ pendingTimers' = [pendingTimers EXCEPT ![n] = v]
        /\ optimistic' = [optimistic EXCEPT ![n] = NewEntry(v)]
        /\ data' = [data EXCEPT ![n] = v]
        /\ UNCHANGED <<managerVars, tasks, carries, answer>>

\* async_set_node_value.
UserSets(n) ==
    LET v == inputs + 1
        cancelled == [node |-> n, value |-> pendingTimers[n]]
    IN  /\ phase = "running"
        /\ v \in Inputs
        /\ inputs' = v
        /\ latestInput' = [latestInput EXCEPT ![n] = v]
        /\ scheduled' = (scheduled \ {cancelled}) \cup {[node |-> n, value |-> v]}
        /\ pendingTimers' = [pendingTimers EXCEPT ![n] = v]
        /\ optimistic' = [optimistic EXCEPT ![n] = NewEntry(v)]
        /\ UNCHANGED <<managerVars, data, tasks, carries, answer>>

\* Fault variant: what the user sees is taken for what was there before.
OldDisplayed(n) == Displayed(n)

\* What a task puts back when its SET fails: old_value.
OldValue(n) == data[n]

\* A timer expires: _fire_set, and its _execute_set_request up to the await.
\* All timers run equally long, so they expire in the order of the inputs.
FireSet(t) ==
    LET id == Ticket(t.node)
        task == [node |-> t.node, value |-> t.value, old |-> OldValue(t.node)]
    IN  /\ \A u \in scheduled : t.value <= u.value
        /\ scheduled' = scheduled \ {t}
        /\ pendingTimers' = [pendingTimers EXCEPT ![t.node] = NoInput]
        /\ SubmitSet(t.node)
        /\ tasks' = [i \in DOMAIN tasks \cup {id} |-> IF i = id THEN task ELSE tasks[i]]
        /\ carries' = [i \in DOMAIN carries \cup {id} |->
                          IF i = id THEN t.value ELSE carries[i]]
        /\ UNCHANGED <<inputs, latestInput, optimistic, data, answer>>

\* Time passes: the ignore window of the node's entry ends, then its grace
\* period.  Both are longer than the debounce delay.  Eviction of an expired
\* entry (get, cleanup) changes nothing that is read afterwards.
EntryAges(n) ==
    /\ pendingTimers[n] = NoInput
    /\ \/ optimistic[n].age = "recent" /\ optimistic' = [optimistic EXCEPT ![n].age = "aged"]
       \/ optimistic[n].age = "aged" /\ optimistic' = [optimistic EXCEPT ![n].age = "expired"]
    /\ UNCHANGED <<managerVars, inputs, latestInput, scheduled, pendingTimers, data, tasks,
                   carries, answer>>

-----------------------------------------------------------------------------
(* Futures that are done                                                   *)

\* The rest of _execute_set_request once its future is done.  CancelledError is
\* not an Exception: then only the finally clause runs.
TaskResumes(i) ==
    LET t == tasks[i]
        settled == CASE requests[i].future = "result"    -> t.value
                     [] requests[i].future = "exception" -> t.old
                     [] requests[i].future = "cancelled" -> data[t.node]
    IN  /\ data' = [data EXCEPT ![t.node] = settled]
        /\ optimistic' = [optimistic EXCEPT ![t.node] = NoEntry]
        /\ tasks' = [j \in DOMAIN tasks \ {i} |-> tasks[j]]

\* Fault variant: the data is protected as long as an entry exists.
AnyEntryIgnored(n) == optimistic[n].age # "none" /\ data[n] # answer[n]

\* _should_ignore_polled_value.
PolledValueIgnored(n) == optimistic[n].age = "recent" /\ data[n] # answer[n]

\* process_api_items on the answer to a poll.
PollProcessed ==
    /\ data' = [n \in Nodes |-> IF PolledValueIgnored(n) THEN data[n] ELSE answer[n]]
    /\ UNCHANGED <<optimistic, tasks>>

\* The callbacks of a future: the manager's, then the awaiting task.
FutureCallbacks(i) ==
    /\ CleanupPending(i)
    /\ IF i \in DOMAIN tasks
       THEN TaskResumes(i)
       ELSE IF requests[i].future = "result"
            THEN PollProcessed
            ELSE UNCHANGED <<data, optimistic, tasks>>
    /\ UNCHANGED <<inputs, latestInput, scheduled, pendingTimers, carries, answer>>

-----------------------------------------------------------------------------
(* The manager's own steps, in this context                                *)

PollStarts(g, p) ==
    /\ Cardinality({i \in DOMAIN requests : ~IsSet(i)}) < MaxSubmissions - MaxInputs
    /\ SubmitGet(g, p)
    /\ UNCHANGED coordinatorVars

\* A poll is answered with what the boiler holds.
CallSucceeds ==
    /\ ExecuteSucceeds
    /\ answer' = IF IsSet(worker.id) THEN answer ELSE [n \in Nodes |-> BoilerValue(n)]
    /\ UNCHANGED <<inputs, latestInput, scheduled, pendingTimers, optimistic, data, tasks,
                   carries>>

ManagerStarts == Start /\ UNCHANGED coordinatorVars
WorkerPicks == WorkerTakes /\ UNCHANGED coordinatorVars
BoilerStores == BoilerApplies /\ UNCHANGED coordinatorVars
CallFails == (ExecuteFailsAndRetries \/ ExecuteFails) /\ UNCHANGED coordinatorVars
RetryQueued == Requeue /\ UNCHANGED coordinatorVars
PollCancelled(i) == CancelGet(i) /\ UNCHANGED coordinatorVars

\* async_stop up to the await of the worker, and the rest of it.
CoordinatorStops ==
    /\ StopWorker
    /\ scheduled' = {t \in scheduled : pendingTimers[t.node] # t.value}
    /\ pendingTimers' = [n \in Nodes |-> NoInput]
    /\ UNCHANGED <<inputs, latestInput, optimistic, data, tasks, carries, answer>>
QueueDrained == DrainQueue /\ UNCHANGED coordinatorVars

-----------------------------------------------------------------------------
(* Specification                                                           *)

PathInit ==
    /\ ManagerInit
    /\ inputs = 0
    /\ latestInput = [n \in Nodes |-> NoInput]
    /\ scheduled = {}
    /\ pendingTimers = [n \in Nodes |-> NoInput]
    /\ optimistic = [n \in Nodes |-> NoEntry]
    /\ data = [n \in Nodes |-> 0]
    /\ tasks = [i \in {} |-> NoEntry]
    /\ carries = [i \in {} |-> NoInput]
    /\ answer = [n \in Nodes |-> 0]

PathNext ==
    \/ \E n \in Nodes : UserSets(n)
    \/ \E t \in scheduled : FireSet(t)
    \/ \E n \in Nodes : EntryAges(n)
    \/ \E i \in ready : FutureCallbacks(i)
    \/ \E g \in Groups : PollStarts(g, LOW)
    \/ ManagerStarts \/ WorkerPicks \/ BoilerStores \/ CallSucceeds \/ CallFails
    \/ RetryQueued \/ CoordinatorStops \/ QueueDrained
    \/ \E i \in DOMAIN requests : PollCancelled(i)

\* As in ApiAccessManager, and a timer that is not cancelled expires.
PathFairness ==
    /\ WF_pathVars(WorkerPicks)
    /\ WF_pathVars(CallSucceeds \/ CallFails)
    /\ WF_pathVars(RetryQueued)
    /\ WF_pathVars(\E i \in ready : FutureCallbacks(i))
    /\ WF_pathVars(\E t \in scheduled : FireSet(t))

PathSpec == PathInit /\ [][PathNext]_pathVars
FairPathSpec == PathSpec /\ PathFairness

-----------------------------------------------------------------------------
(* Properties                                                              *)

RequestsOf(n) == {i \in DOMAIN requests : requests[i].key = n}
IsNewest(i) == \A j \in RequestsOf(requests[i].key) : j <= i

\* Debouncing loses no input: the user's latest value for a node is either in
\* the node's timer or in the newest SET submitted for the node.
DebounceKeepsLatest ==
    phase = "running" =>
        \A n \in Nodes : latestInput[n] # NoInput =>
            \/ pendingTimers[n] = latestInput[n]
            \/ /\ pendingTimers[n] = NoInput
               /\ \E i \in RequestsOf(n) : IsNewest(i) /\ carries[i] = latestInput[n]

\* A confirmed SET is what the boiler holds until the user's next SET of the
\* node is submitted: no older SET, retried or still in flight, undoes it.
ConfirmedInputHeld ==
    \A i \in DOMAIN carries :
        IsNewest(i) /\ requests[i].future = "result" => BoilerValue(requests[i].key) = carries[i]

\* What the user asked for stays out of the coordinator's data until the
\* boiler has it: the data never holds a newer value than the boiler.
DataNotAheadOfBoiler == \A n \in Nodes : data[n] <= BoilerValue(n)

\* The inductive invariant behind these.  A timer holds the latest input of its
\* node; SETs carry the inputs in their order; a SET whose callbacks have not
\* run has its task; what a task, an answer or a callback that is about to run
\* will write is known to be no newer than the boiler and no older than the data.
TimersHoldLatest ==
    /\ \A t \in scheduled : pendingTimers[t.node] = t.value
    /\ \A n \in Nodes : pendingTimers[n] \in {NoInput, latestInput[n]}
    /\ \A n \in Nodes : latestInput[n] <= inputs
    /\ phase # "running" => scheduled = {}
    /\ phase = "new" => inputs = 0

InputsInOrder ==
    /\ \A i, j \in DOMAIN carries :
          requests[i].key = requests[j].key /\ i < j => carries[i] < carries[j]
    /\ \A t \in scheduled, i \in DOMAIN carries :
          requests[i].key = t.node => carries[i] < t.value
    /\ \A i \in DOMAIN carries : carries[i] <= inputs

TasksMatchRequests ==
    /\ \A i \in DOMAIN tasks :
          tasks[i].node = requests[i].key /\ tasks[i].value = carries[i]
    /\ \A i \in DOMAIN carries : ~IsDone(i) \/ i \in ready => i \in DOMAIN tasks

BehindBoiler ==
    /\ DataNotAheadOfBoiler
    /\ \A n \in Nodes : answer[n] <= BoilerValue(n)
    /\ \A i \in DOMAIN tasks : tasks[i].old <= BoilerValue(tasks[i].node)
    /\ \A i \in DOMAIN carries :
          requests[i].future = "result" => i <= boiler[requests[i].key]

CallbacksFresh ==
    /\ \A i, j \in ready :
          requests[i].future # "cancelled" /\ requests[j].future # "cancelled" => i = j
    /\ \A i \in ready :
          requests[i].future = "result" =>
              IF IsSet(i) THEN data[requests[i].key] <= carries[i]
                          ELSE \A n \in Nodes : data[n] <= answer[n]

PathInv ==
    /\ PathTypeOK
    /\ TimersHoldLatest
    /\ InputsInOrder
    /\ DebounceKeepsLatest
    /\ TasksMatchRequests
    /\ BehindBoiler
    /\ CallbacksFresh

\* The write path implements SettingFlow: the user's values are what is wanted, a
\* timer is what waits, and the tasks are the changes under way.
Flow == INSTANCE SettingFlow
            WITH wanted <- latestInput,
                 waiting <- {n \in Nodes : pendingTimers[n] # NoInput},
                 device <- [n \in Nodes |-> BoilerValue(n)],
                 known <- data,
                 changes <- {tasks[i] : i \in DOMAIN tasks}

\* What a timer, a task, an answer or a late callback of a setting does is a step
\* of the flow from the user to the boiler and on to the data: the latest input is
\* what is sent, the boiler and the data only move forward, the data behind the
\* boiler, save for the rollback of a failed change to what was known before it.
ImplementsSettingFlow == Flow!FlowSpec

\* Once the data and the boiler hold the latest input of a node and nothing of the
\* node is under way, no poll, retry or callback takes them away from it.
SettledInputStays == Flow!SettledStays

\* Polls and confirmed SETs move the data of a node forward only, although a
\* poll's answer, a SET's confirmation and the user's next SET may cross: an
\* older value can return only by the rollback of a SET that failed.
OnlyRollbackRewinds ==
    [][\A n \in Nodes :
          data'[n] < data[n] =>
              \E i \in DOMAIN tasks \ DOMAIN tasks' :
                  tasks[i].node = n /\ requests[i].future = "exception"]_pathVars

\* Once a poll has been processed, the data of a node that is not within its
\* ignore window is what the boiler holds, save for a SET being executed: the
\* answer cannot be overtaken by a SET on its way to the data.
PollsRefreshData ==
    [][\A i \in ready \ ready' :
          phase = "running" /\ ~IsSet(i) /\ requests[i].future = "result" =>
              \A n \in Nodes :
                  \/ optimistic[n].age = "recent"
                  \/ data'[n] = BoilerValue(n)
                  \/ worker.state = "executing" /\ requests[worker.id].key = n]_pathVars

\* The latest input of every node is settled in the end: its timer expires and
\* its task finishes, however often the user changes his mind and whatever
\* fails, unless the integration is unloaded.
InputPending(n) ==
    \/ \E t \in scheduled : t.node = n /\ t.value = latestInput[n]
    \/ \E i \in DOMAIN tasks : tasks[i].node = n /\ tasks[i].value = latestInput[n]
LatestInputSettles ==
    []<>(phase # "running" \/ \A n \in Nodes : ~InputPending(n))

\* coordinator.py:451-454: "The optimistic state is updated on every call so
\* the UI always reflects the latest user input": within the grace period the
\* display shows the latest input as long as it is pending.
DisplayShowsLatestInput ==
    phase = "running" =>
        \A n \in Nodes :
            InputPending(n) /\ optimistic[n].age # "expired" => Displayed(n) = latestInput[n]

\* optimistic_manager.py:28: "Always cleanup after SET": every task that awaits
\* a SET gets to its finally clause.
EveryTaskFinishes ==
    []<>(phase # "running" \/ DOMAIN tasks = {})

\* coordinator.py:484: "persist on success, rollback on failure": the rollback
\* of one SET does not undo what another one has persisted.
ConfirmedDataKept ==
    [][\A i \in DOMAIN carries :
          LET n == requests[i].key
          IN  requests[i].future = "result" /\ data[n] = carries[i] => data'[n] >= data[n]]_pathVars

=============================================================================
