--------------------------- MODULE PollingScheduler ---------------------------
(***************************************************************************)
(* The coordinator's polling (coordinator.py): which groups are polled and *)
(* when, in cycles that may overlap.                                       *)
(*                                                                         *)
(* A cycle fetches its groups concurrently, at most MaxConcurrentPolls at  *)
(* a time, and ends when all of them have answered; then the timestamps of *)
(* the groups that were fetched are renewed.  A connection error ends the  *)
(* cycle at once (asyncio.gather raises, the sibling tasks go on): what is *)
(* still being fetched reaches the data, but no timestamp.                 *)
(*                                                                         *)
(* Home Assistant's DataUpdateCoordinator is external.  Its timer starts a *)
(* scheduled cycle, one at a time (the others wait for its lock); the      *)
(* button starts a cycle without that lock; every cycle and every write of *)
(* the user (async_set_updated_data) restarts the timer.                   *)
(*                                                                         *)
(* The API access manager is represented by what is proved of it: a group  *)
(* has one pending GET, shared by whoever asks for the group, and it is    *)
(* answered in the end.                                                    *)
(*                                                                         *)
(* Time is counted in units.  Only differences with the clock are used, so *)
(* ages and delays are kept, saturating where the code no longer tells     *)
(* them apart.                                                             *)
(***************************************************************************)
EXTENDS Naturals, FiniteSets

CONSTANTS
    Groups,              \* polling groups
    Cycles,              \* identities of cycles, bounding those under way
    ScanInterval,        \* default_scan_interval of each group
    UpdateInterval,      \* MIN_SCAN_INTERVAL, the period of the timer
    RetryInitialDelay,   \* POLLING_RETRY_INITIAL_DELAY_S
    RetryMaxDelay,       \* POLLING_RETRY_MAX_DELAY_S
    MaxConcurrentPolls,  \* MAX_CONCURRENT_POLL_REQUESTS
    ErrorThreshold,      \* the option error_threshold
    Switchable,          \* groups whose entities the user switches on and off
    MaxAttempts          \* the attempts from which the delay no longer grows

ASSUME PollingAssumption ==
    /\ Switchable \subseteq Groups
    /\ ScanInterval \in [Groups -> Nat \ {0}]
    /\ UpdateInterval \in Nat \ {0}
    /\ RetryInitialDelay \in Nat \ {0}
    /\ RetryMaxDelay \in Nat \ {0}
    /\ MaxConcurrentPolls \in Nat \ {0}
    /\ ErrorThreshold \in Nat \ {0}
    /\ MaxAttempts \in Nat \ {0}
    /\ RetryMaxDelay <= RetryInitialDelay * 2^(MaxAttempts - 1)

\* Arithmetic that the provers do not know: exponentiation is recursive.
ASSUME PowersAssumption == \A n \in 0..MaxAttempts : 2^n \in Nat

VARIABLES
    phase,               \* new, refreshing, refreshed, running or failed
    timer,               \* time to the next scheduled refresh, or NoTimer
    lockWaiting,         \* a scheduled refresh waits for the one under way
    kind,                \* of each cycle under way: first, scheduled, all
    task,                \* of each cycle and group: the state of its fetch
    active,              \* groups with a node in _active_node_ids
    stamped,             \* groups with an entry in last_update_times
    age,                 \* how long ago that entry was made
    attempts,            \* failed_group_retry_info: attempts, 0 for no entry
    retryIn,             \* failed_group_retry_info: time to next_retry_time
    failures,            \* consecutive_failures, up to the threshold
    connectionFailures,  \* consecutive_connection_failures, likewise
    lastUpdateSuccess    \* last_update_success of the DataUpdateCoordinator

pollState == <<stamped, age, attempts, retryIn, failures, connectionFailures>>
pollVars == <<phase, timer, lockWaiting, kind, task, active, pollState,
              lastUpdateSuccess>>

NoTimer == UpdateInterval + 1

-----------------------------------------------------------------------------
(* State predicates and types                                              *)

\* "none" is not part of the cycle; "fetched" and "failed" are the results
\* True and False; "refused" is HdgApiConnectionError.
TaskStates == {"none", "queued", "fetching", "fetched", "failed", "refused"}
Ended == {"fetched", "failed", "refused"}

Smaller(a, b) == IF a <= b THEN a ELSE b

PollingTypeOK ==
    /\ phase \in {"new", "refreshing", "refreshed", "running", "failed"}
    /\ timer \in 0..NoTimer
    /\ lockWaiting \in BOOLEAN
    /\ kind \in [Cycles -> {"none", "first", "scheduled", "all"}]
    /\ task \in [Cycles -> [Groups -> TaskStates]]
    /\ active \subseteq Groups
    /\ stamped \subseteq Groups
    /\ age \in [Groups -> Nat]
    /\ \A g \in Groups : age[g] <= ScanInterval[g]
    /\ attempts \in [Groups -> 0..MaxAttempts]
    /\ retryIn \in [Groups -> 0..RetryMaxDelay]
    /\ failures \in 0..ErrorThreshold
    /\ connectionFailures \in 0..ErrorThreshold
    /\ lastUpdateSuccess \in BOOLEAN

Open(c) == kind[c] # "none"
ScheduledUnderWay == \E c \in Cycles : kind[c] = "scheduled"

\* A cycle identity is free when no task of its last cycle goes on.
Free(c) == ~Open(c) /\ \A g \in Groups : task[c][g] = "none"

GroupsOf(c) == {g \in Groups : task[c][g] # "none"}
Fetching(c) == {g \in Groups : task[c][g] = "fetching"}

\* Every result is there, or one task has raised.
CycleDone(c) == Open(c) /\ \A g \in GroupsOf(c) : task[c][g] \in {"fetched", "failed"}
CycleBroken(c) == Open(c) /\ \E g \in Groups : task[c][g] = "refused"

\* Fault variant: a group is locked against other cycles, until its own ends.
CanStartLocked(c, g) ==
    /\ task[c][g] = "queued"
    /\ Cardinality(Fetching(c)) < MaxConcurrentPolls
    /\ \A d \in Cycles \ {c} : task[d][g] \in {"none", "queued"}

\* The semaphore of the cycle has a place for a further fetch.
CanStart(c, g) ==
    task[c][g] = "queued" /\ Cardinality(Fetching(c)) < MaxConcurrentPolls

-----------------------------------------------------------------------------
(* Starting a cycle                                                        *)

Begin(c, k, groups) ==
    /\ Free(c)
    /\ kind' = [kind EXCEPT ![c] = k]
    /\ task' = [task EXCEPT ![c] = [g \in Groups |->
                                      IF g \in groups THEN "queued" ELSE "none"]]

\* _sync_active_nodes_from_registry: nodes of enabled entities are added.
SyncActiveNodes == \E added \in SUBSET Switchable : active' = active \cup added

\* async_config_entry_first_refresh, up to its await.
FirstRefresh(c) ==
    /\ phase = "new"
    /\ phase' = "refreshing"
    /\ SyncActiveNodes
    /\ Begin(c, "first", Groups)
    /\ UNCHANGED <<timer, lockWaiting, pollState, lastUpdateSuccess>>

\* The entities are added and listen: the timer is started.
StartTimer == timer' = UpdateInterval

EntitiesAdded ==
    /\ phase = "refreshed"
    /\ phase' = "running"
    /\ StartTimer
    /\ UNCHANGED <<lockWaiting, kind, task, active, pollState, lastUpdateSuccess>>

\* _get_groups_to_fetch.
DueByAge(g) == age[g] >= ScanInterval[g]
DueForRetry(g) == attempts[g] > 0 /\ retryIn[g] = 0

\* Fault variant: a group that has failed is left to a retry that never comes.
GroupsNotFailing == {g \in Groups : DueByAge(g) /\ attempts[g] = 0}

GroupsToFetch == {g \in Groups : DueByAge(g) \/ DueForRetry(g)}

\* The timer expires: _async_update_data for the groups that are due.  With
\* none due it returns at once and the timer starts again.
Refresh(c) ==
    IF GroupsToFetch = {}
    THEN /\ StartTimer
         /\ lastUpdateSuccess' = TRUE
         /\ UNCHANGED <<kind, task>>
    ELSE /\ Begin(c, "scheduled", GroupsToFetch)
         /\ timer' = NoTimer
         /\ UNCHANGED lastUpdateSuccess

TimerExpires(c) ==
    /\ phase = "running"
    /\ timer = 0
    /\ ~ScheduledUnderWay
    /\ ~lockWaiting
    /\ Refresh(c)
    /\ UNCHANGED <<phase, lockWaiting, active, pollState>>

\* The timer expires during a scheduled refresh and waits for its lock.
TimerExpiresLocked ==
    /\ timer = 0
    /\ ScheduledUnderWay
    /\ timer' = NoTimer
    /\ lockWaiting' = TRUE
    /\ UNCHANGED <<phase, kind, task, active, pollState, lastUpdateSuccess>>

LockAcquired(c) ==
    /\ lockWaiting
    /\ ~ScheduledUnderWay
    /\ lockWaiting' = FALSE
    /\ Refresh(c)
    /\ UNCHANGED <<phase, active, pollState>>

\* The button: async_poll_everything, up to the await of its cycle.
\* async_refresh cancels the timer.
PollEverything(c) ==
    /\ phase = "running"
    /\ SyncActiveNodes
    /\ Begin(c, "all", Groups)
    /\ timer' = NoTimer
    /\ UNCHANGED <<phase, lockWaiting, pollState, lastUpdateSuccess>>

-----------------------------------------------------------------------------
(* Fetching                                                                *)

\* What a task leaves behind: a cycle that is over takes no result.
Reported(c, outcome) == IF Open(c) THEN outcome ELSE "none"

\* fetch_with_semaphore and _fetch_group_data, up to the await of the GET.  A
\* group without an active node is skipped, which counts as a success.
StartFetch(c, g) ==
    /\ CanStart(c, g)
    /\ task' = [task EXCEPT ![c][g] = IF g \in active THEN "fetching"
                                                     ELSE Reported(c, "fetched")]
    /\ UNCHANGED <<phase, timer, lockWaiting, kind, active, pollState, lastUpdateSuccess>>

\* No task of the event loop is ready to run.
LoopIdle ==
    /\ \A c \in Cycles : ~CycleDone(c) /\ ~CycleBroken(c)
    /\ \A c \in Cycles, g \in Groups : ~CanStart(c, g)

\* The pending GET of a group is answered: every task that awaits it goes on.
Answer(g, outcome) ==
    /\ LoopIdle
    /\ \E c \in Cycles : task[c][g] = "fetching"
    /\ task' = [c \in Cycles |->
                  IF task[c][g] = "fetching"
                  THEN [task[c] EXCEPT ![g] = Reported(c, outcome)]
                  ELSE task[c]]
    /\ UNCHANGED <<phase, timer, lockWaiting, kind, active, pollState, lastUpdateSuccess>>

\* The data of the group arrives and is processed.
GetDelivers(g) == Answer(g, "fetched")

\* An API error, or an unexpected one: the task returns False.
GetFails(g) == Answer(g, "failed")

\* HdgApiConnectionError.
GetRefused(g) == Answer(g, "refused")

-----------------------------------------------------------------------------
(* Ending a cycle                                                          *)

Fetched(c) == {g \in Groups : task[c][g] = "fetched"}

\* The end of _concurrently_fetch_groups: last_update_times.
Stamp(groups) ==
    /\ stamped' = stamped \cup groups
    /\ age' = [g \in Groups |-> IF g \in groups THEN 0 ELSE age[g]]

\* Fault variant: the delay is not limited.
DelayUnlimited(n) == RetryInitialDelay * 2^(n - 1)

Delay(n) == Smaller(RetryInitialDelay * 2^(n - 1), RetryMaxDelay)

\* Fault variant: the retries of groups outside the cycle are kept.
SuccessfulPollOf(groups) ==
    /\ failures' = 0
    /\ connectionFailures' = 0
    /\ attempts' = [g \in Groups |-> IF g \in groups THEN 0 ELSE attempts[g]]
    /\ retryIn' = [g \in Groups |-> IF g \in groups THEN 0 ELSE retryIn[g]]

\* _handle_successful_poll: the retries of all groups that have ever been
\* polled are dropped, whether the cycle was about them or not.
SuccessfulPoll(groups) ==
    /\ failures' = 0
    /\ connectionFailures' = 0
    /\ attempts' = [g \in Groups |-> IF g \in stamped' THEN 0 ELSE attempts[g]]
    /\ retryIn' = [g \in Groups |-> IF g \in stamped' THEN 0 ELSE retryIn[g]]

\* _update_polling_status without a success: every group of the cycle gets a
\* retry.
FailedPoll(groups) ==
    /\ failures' = Smaller(failures + 1, ErrorThreshold)
    /\ attempts' = [g \in Groups |-> IF g \in groups THEN Smaller(attempts[g] + 1, MaxAttempts)
                                                     ELSE attempts[g]]
    /\ retryIn' = [g \in Groups |-> IF g \in groups THEN Delay(attempts'[g]) ELSE retryIn[g]]
    /\ UNCHANGED connectionFailures

\* The cycle is closed.  Tasks still under way go on without it.
Close(c) ==
    /\ kind' = [kind EXCEPT ![c] = "none"]
    /\ task' = [task EXCEPT ![c] = [g \in Groups |->
                                      IF task[c][g] \in Ended THEN "none" ELSE task[c][g]]]

\* The first refresh has all its answers: without a success the setup fails.
FirstRefreshEnds(c) ==
    /\ CycleDone(c)
    /\ kind[c] = "first"
    /\ Stamp(Fetched(c))
    /\ phase' = IF Fetched(c) # {} THEN "refreshed" ELSE "failed"
    /\ Close(c)
    /\ UNCHANGED <<timer, lockWaiting, active, attempts, retryIn, failures,
                   connectionFailures, lastUpdateSuccess>>

\* A scheduled cycle, or the button's, has all its answers.  Timestamps are
\* renewed before the status is updated.
CycleEnds(c) ==
    /\ CycleDone(c)
    /\ kind[c] # "first"
    /\ Stamp(Fetched(c))
    /\ IF Fetched(c) # {} THEN SuccessfulPoll(GroupsOf(c)) ELSE FailedPoll(GroupsOf(c))
    /\ Close(c)
    /\ StartTimer
    /\ lastUpdateSuccess' = TRUE
    /\ UNCHANGED <<phase, lockWaiting, active>>

\* Fault variant: what was fetched before the error is stamped all the same.
CycleBreaksStamping(c) ==
    /\ CycleBroken(c)
    /\ Stamp(Fetched(c))
    /\ Close(c)
    /\ connectionFailures' = Smaller(connectionFailures + 1, ErrorThreshold)
    /\ IF kind[c] = "first" THEN phase' = "failed" /\ UNCHANGED timer
                            ELSE StartTimer /\ UNCHANGED phase
    /\ UNCHANGED <<lockWaiting, active, attempts, retryIn, failures, lastUpdateSuccess>>

\* Fault variant: after a connection error no further refresh is scheduled.
CycleBreaksForGood(c) ==
    /\ CycleBroken(c)
    /\ Close(c)
    /\ connectionFailures' = Smaller(connectionFailures + 1, ErrorThreshold)
    /\ phase' = IF kind[c] = "first" THEN "failed" ELSE phase
    /\ UNCHANGED <<timer, lockWaiting, active, stamped, age, attempts, retryIn, failures,
                   lastUpdateSuccess>>

\* A connection error reaches the cycle: no timestamp and no retry; the first
\* refresh fails, any other returns the data it has.
CycleBreaks(c) ==
    /\ CycleBroken(c)
    /\ Close(c)
    /\ IF kind[c] = "first"
       THEN phase' = "failed" /\ UNCHANGED <<timer, connectionFailures, lastUpdateSuccess>>
       ELSE /\ connectionFailures' = Smaller(connectionFailures + 1, ErrorThreshold)
            /\ StartTimer
            /\ lastUpdateSuccess' = TRUE
            /\ UNCHANGED phase
    /\ UNCHANGED <<lockWaiting, active, stamped, age, attempts, retryIn, failures>>

-----------------------------------------------------------------------------
(* The environment                                                         *)

\* register_node and unregister_node, when entities are added and removed.
NodeRegistered(g) ==
    /\ phase \in {"refreshed", "running"}
    /\ active' = active \cup {g}
    /\ UNCHANGED <<phase, timer, lockWaiting, kind, task, pollState, lastUpdateSuccess>>

NodesUnregistered(g) ==
    /\ phase \in {"refreshed", "running"}
    /\ active' = active \ {g}
    /\ UNCHANGED <<phase, timer, lockWaiting, kind, task, pollState, lastUpdateSuccess>>

\* The user sets a value, or a SET is over: async_set_updated_data.
UserWrites ==
    /\ phase = "running"
    /\ StartTimer
    /\ lastUpdateSuccess' = TRUE
    /\ UNCHANGED <<phase, lockWaiting, kind, task, active, pollState>>

\* The event loop waits for the network or for a timer.
Quiet ==
    /\ LoopIdle
    /\ timer # 0
    /\ ~lockWaiting \/ ScheduledUnderWay

\* A unit of time passes.
Tick ==
    /\ Quiet
    /\ timer' = IF timer = NoTimer THEN NoTimer ELSE timer - 1
    /\ age' = [g \in Groups |-> Smaller(age[g] + 1, ScanInterval[g])]
    /\ retryIn' = [g \in Groups |-> IF retryIn[g] = 0 THEN 0 ELSE retryIn[g] - 1]
    /\ UNCHANGED <<phase, lockWaiting, kind, task, active, stamped, attempts, failures,
                   connectionFailures, lastUpdateSuccess>>

\* The clock: time passes, and the timer does its work.
Clock == Tick \/ TimerExpiresLocked \/ \E c \in Cycles : TimerExpires(c) \/ LockAcquired(c)

-----------------------------------------------------------------------------
(* Specification                                                           *)

\* last_update_times.get(group, 0.0): a group without an entry is as old as
\* the host's uptime.
PollInit ==
    /\ phase = "new"
    /\ timer = NoTimer
    /\ lockWaiting = FALSE
    /\ kind = [c \in Cycles |-> "none"]
    /\ task = [c \in Cycles |-> [g \in Groups |-> "none"]]
    /\ active \in {Groups, Groups \ Switchable}
    /\ stamped = {}
    /\ \E uptime \in UNION {0..ScanInterval[g] : g \in Groups} :
          age = [g \in Groups |-> Smaller(uptime, ScanInterval[g])]
    /\ attempts = [g \in Groups |-> 0]
    /\ retryIn = [g \in Groups |-> 0]
    /\ failures = 0
    /\ connectionFailures = 0
    /\ lastUpdateSuccess = TRUE

CycleGoesOn(c) ==
    \/ CycleEnds(c) \/ CycleBreaks(c) \/ FirstRefreshEnds(c)
    \/ \E g \in Groups : StartFetch(c, g)
Answered(g) == GetDelivers(g) \/ GetFails(g) \/ GetRefused(g)

PollNext ==
    \/ \E c \in Cycles :
          \/ FirstRefresh(c) \/ TimerExpires(c) \/ LockAcquired(c) \/ PollEverything(c)
          \/ FirstRefreshEnds(c) \/ CycleEnds(c) \/ CycleBreaks(c)
          \/ \E g \in Groups : StartFetch(c, g)
    \/ \E g \in Groups :
          GetDelivers(g) \/ GetFails(g) \/ GetRefused(g)
    \/ \E g \in Switchable : NodeRegistered(g) \/ NodesUnregistered(g)
    \/ EntitiesAdded \/ TimerExpiresLocked \/ UserWrites \/ Tick

\* The event loop runs what is ready, and the access manager answers every GET.
\* Nobody has to press the button or to write, and time need not pass.
PollFairness ==
    /\ \A c \in Cycles : WF_pollVars(CycleGoesOn(c))
    /\ \A g \in Groups : WF_pollVars(Answered(g))

PollSpec == PollInit /\ [][PollNext]_pollVars
FairPollSpec == PollSpec /\ PollFairness

-----------------------------------------------------------------------------
(* Properties                                                              *)

\* Polling never dies: once the entities are there, a refresh is scheduled, is
\* waiting or is under way, whatever cycles overlap and however they end.
PollingNeverStops ==
    phase = "running" =>
        timer # NoTimer \/ lockWaiting \/ \E c \in Cycles : Open(c)

\* With no failure outstanding no retry is left over for a group that has
\* been polled: the dropping of retries by one cycle keeps up with the
\* failures of the cycles that overlap it.
RetriesOnlyWhileFailing ==
    failures = 0 => \A g \in stamped : attempts[g] = 0

\* The inductive invariant behind these.  The first refresh is the only cycle
\* of its phase, every other cycle belongs to the running integration, and
\* nothing is retried before that.
FirstCycleAlone ==
    \A c \in Cycles : kind[c] = "first" =>
        phase = "refreshing" /\ \A d \in Cycles : kind[d] = "first" => c = d

CyclesOfRunning ==
    /\ \A c \in Cycles : kind[c] \in {"scheduled", "all"} => phase = "running"
    /\ lockWaiting => phase = "running"

NoRetryAtFirst ==
    phase \in {"new", "refreshing", "refreshed"} => \A g \in Groups : attempts[g] = 0

PollingInv ==
    /\ PollingTypeOK
    /\ FirstCycleAlone
    /\ CyclesOfRunning
    /\ NoRetryAtFirst
    /\ PollingNeverStops
    /\ RetriesOnlyWhileFailing

\* A timestamp is renewed only by a cycle that ends with that group fetched:
\* not by a cycle that a connection error breaks off, and not by the tasks
\* such a cycle leaves behind.  Otherwise a group that was never fetched
\* would wait for its interval, up to a day.
OnlyEndedCyclesStamp ==
    [][\A g \in Groups :
          age'[g] < age[g] =>
              \E c \in Cycles :
                  /\ Open(c)
                  /\ kind'[c] = "none"
                  /\ task[c][g] = "fetched"
                  /\ \A h \in GroupsOf(c) : task[c][h] # "refused"]_pollVars

\* Every cycle ends, the button's too, whose caller waits for it: overlapping
\* cycles, the tasks of broken ones and shared GETs do not block each other.
CyclesFinish ==
    \A c \in Cycles : Open(c) ~> ~Open(c)

\* No group is forgotten.  While time passes, and once the user no longer
\* writes at every moment, every group comes round in a cycle again and
\* again, however its fetches end, whatever breaks cycles off, and whichever
\* cycle drops its retries.  (A write postpones the timer, so writes without
\* end would postpone polling without end.)
GroupsPolledAgain ==
    WF_pollVars(Clock) /\ <>[][~UserWrites]_pollVars =>
        \A g \in Groups : phase = "running" ~> \E c \in Cycles : task[c][g] # "none"

\* coordinator.py:358: "Fetch for group '%s' failed (attempt %d). Retrying in
\* %ds.": a scheduled cycle leaves a group alone until its retry is due.
RetryWaits ==
    [][\A c \in Cycles :
          kind[c] # "scheduled" /\ kind'[c] = "scheduled" =>
              \A g \in Groups : task'[c][g] = "queued" => attempts[g] = 0 \/ retryIn[g] = 0]_pollVars

=============================================================================
