----------------------- MODULE PollingSchedulerProofs -----------------------
(***************************************************************************)
(* Proofs about PollingScheduler, for any groups, intervals and delays and *)
(* any number of overlapping cycles.  All of them rest on PollingInv.      *)
(***************************************************************************)
EXTENDS PollingScheduler, TLAPS

-----------------------------------------------------------------------------
(* Types                                                                   *)

Kinds == {"none", "first", "scheduled", "all"}
Phases == {"new", "refreshing", "refreshed", "running", "failed"}

\* The smaller of two naturals is one of them, and no larger than either.
LEMMA SmallerFacts ==
  ASSUME NEW a \in Nat, NEW b \in Nat
  PROVE  /\ Smaller(a, b) \in Nat
         /\ Smaller(a, b) <= a
         /\ Smaller(a, b) <= b
         /\ Smaller(a, b) \in {a, b}
BY DEF Smaller

\* Beginning a cycle changes its own kind and tasks only.
LEMMA BeginType ==
  ASSUME PollingTypeOK, NEW c \in Cycles, NEW k \in Kinds, NEW groups \in SUBSET Groups,
         Begin(c, k, groups)
  PROVE  /\ kind' \in [Cycles -> Kinds]
         /\ task' \in [Cycles -> [Groups -> TaskStates]]
         /\ kind[c] = "none"
         /\ kind' = [kind EXCEPT ![c] = k]
BY DEF Begin, Free, Open, PollingTypeOK, Kinds, TaskStates

\* Closing a cycle keeps the types and leaves no kind behind.
LEMMA CloseType ==
  ASSUME PollingTypeOK, NEW c \in Cycles, Close(c)
  PROVE  /\ kind' \in [Cycles -> Kinds]
         /\ task' \in [Cycles -> [Groups -> TaskStates]]
         /\ kind' = [kind EXCEPT ![c] = "none"]
BY DEF Close, Open, PollingTypeOK, Kinds, TaskStates

\* Renewed timestamps are ages within the interval of their group.
LEMMA StampType ==
  ASSUME PollingTypeOK, NEW groups \in SUBSET Groups, Stamp(groups)
  PROVE  /\ stamped' \subseteq Groups
         /\ age' \in [Groups -> Nat]
         /\ \A g \in Groups : age'[g] <= ScanInterval[g]
BY PollingAssumption DEF Stamp, PollingTypeOK

\* The backoff delay is limited, whatever the number of attempts.
LEMMA DelayBounded ==
  ASSUME NEW n \in 1..MaxAttempts
  PROVE  Delay(n) \in 0..RetryMaxDelay
<1>1. n - 1 \in 0..MaxAttempts
  BY PollingAssumption
<1>2. 2^(n - 1) \in Nat
  BY <1>1, PowersAssumption
<1> DEFINE power == 2^(n - 1)
<1> HIDE DEF power
<1>3. RetryInitialDelay * power \in Nat
  BY <1>2, PollingAssumption DEF power
<1>4. Smaller(RetryInitialDelay * power, RetryMaxDelay) \in 0..RetryMaxDelay
  BY <1>3, PollingAssumption, SmallerFacts
<1> QED
  BY <1>4 DEF Delay, power

\* A successful cycle keeps the types of the retry information.
LEMMA SuccessType ==
  ASSUME PollingTypeOK, NEW groups, SuccessfulPoll(groups)
  PROVE  /\ failures' \in 0..ErrorThreshold
         /\ connectionFailures' \in 0..ErrorThreshold
         /\ attempts' \in [Groups -> 0..MaxAttempts]
         /\ retryIn' \in [Groups -> 0..RetryMaxDelay]
BY PollingAssumption DEF SuccessfulPoll, PollingTypeOK

\* A cycle without a success counts a failure and schedules bounded retries.
LEMMA FailedType ==
  ASSUME PollingTypeOK, NEW groups \in SUBSET Groups, FailedPoll(groups)
  PROVE  /\ failures' \in 1..ErrorThreshold
         /\ connectionFailures' \in 0..ErrorThreshold
         /\ attempts' \in [Groups -> 0..MaxAttempts]
         /\ retryIn' \in [Groups -> 0..RetryMaxDelay]
<1>1. failures' \in 1..ErrorThreshold /\ connectionFailures' \in 0..ErrorThreshold
  BY PollingAssumption DEF FailedPoll, PollingTypeOK, Smaller
<1>2. /\ attempts' \in [Groups -> 0..MaxAttempts]
      /\ \A g \in groups : attempts'[g] \in 1..MaxAttempts
  BY PollingAssumption DEF FailedPoll, PollingTypeOK, Smaller
<1>3. \A g \in groups : Delay(attempts'[g]) \in 0..RetryMaxDelay
  BY <1>2, DelayBounded
<1>4. retryIn' \in [Groups -> 0..RetryMaxDelay]
  BY <1>3 DEF FailedPoll, PollingTypeOK
<1> QED
  BY <1>1, <1>2, <1>4

-----------------------------------------------------------------------------
(* The inductive invariant                                                 *)

\* A coordinator that has just been constructed satisfies it.
LEMMA PollInitInv == PollInit => PollingInv
<1> SUFFICES ASSUME PollInit
             PROVE  PollingInv
  OBVIOUS
<1>1. age \in [Groups -> Nat] /\ \A g \in Groups : age[g] <= ScanInterval[g]
  <2> PICK uptime \in UNION {0..ScanInterval[g] : g \in Groups} :
         age = [g \in Groups |-> Smaller(uptime, ScanInterval[g])]
    BY DEF PollInit
  <2>1. uptime \in Nat
    BY PollingAssumption
  <2> QED
    BY <2>1, PollingAssumption, SmallerFacts
<1>2. /\ timer \in 0..NoTimer /\ failures \in 0..ErrorThreshold
      /\ connectionFailures \in 0..ErrorThreshold
  BY PollingAssumption DEF PollInit, NoTimer
<1>3. /\ attempts \in [Groups -> 0..MaxAttempts]
      /\ retryIn \in [Groups -> 0..RetryMaxDelay]
  BY PollingAssumption DEF PollInit
<1>4. /\ kind \in [Cycles -> Kinds]
      /\ task \in [Cycles -> [Groups -> TaskStates]]
  BY DEF PollInit, TaskStates, Kinds
<1>5. PollingTypeOK
  BY <1>1, <1>2, <1>3, <1>4 DEF PollInit, PollingTypeOK, Kinds
<1> QED
  BY <1>5 DEF PollInit, PollingInv, FirstCycleAlone, CyclesOfRunning, NoRetryAtFirst,
     PollingNeverStops, RetriesOnlyWhileFailing

\* Starting the timer schedules a refresh.
LEMMA TimerStarted ==
  ASSUME StartTimer
  PROVE  timer' \in 0..NoTimer /\ timer' # NoTimer
BY PollingAssumption DEF StartTimer, NoTimer

\* The first refresh is begun once, before anything else.
LEMMA FirstRefreshInv ==
  ASSUME PollingInv, NEW c \in Cycles, FirstRefresh(c)
  PROVE  PollingInv'
<1>1. Begin(c, "first", Groups) /\ PollingTypeOK
  BY DEF FirstRefresh, PollingInv
<1>2. /\ kind' \in [Cycles -> Kinds]
      /\ task' \in [Cycles -> [Groups -> TaskStates]]
      /\ kind' = [kind EXCEPT ![c] = "first"]
  BY <1>1, BeginType DEF Kinds
<1>3. active' \subseteq Groups
  BY PollingAssumption DEF FirstRefresh, SyncActiveNodes, PollingInv, PollingTypeOK
<1>4. PollingTypeOK'
  BY <1>2, <1>3 DEF FirstRefresh, pollState, PollingInv, PollingTypeOK, Kinds
<1>5. \A d \in Cycles : kind[d] = "none"
  BY DEF FirstRefresh, PollingInv, PollingTypeOK, FirstCycleAlone, CyclesOfRunning
<1> QED
  BY <1>2, <1>4, <1>5
     DEF FirstRefresh, pollState, PollingInv, PollingTypeOK, FirstCycleAlone, CyclesOfRunning,
         NoRetryAtFirst, PollingNeverStops, RetriesOnlyWhileFailing

\* What a cycle that begins in the running integration keeps: it is itself the
\* refresh under way that replaces the timer.
LEMMA LaterCycleInv ==
  ASSUME PollingInv, NEW c \in Cycles, NEW k \in {"scheduled", "all"},
         NEW groups \in SUBSET Groups, Begin(c, k, groups), phase = "running",
         timer' \in 0..NoTimer, lockWaiting' \in BOOLEAN,
         active' \subseteq Groups, lastUpdateSuccess' \in BOOLEAN,
         UNCHANGED <<phase, pollState>>
  PROVE  PollingInv'
<1>1. /\ kind' \in [Cycles -> Kinds]
      /\ task' \in [Cycles -> [Groups -> TaskStates]]
      /\ kind' = [kind EXCEPT ![c] = k]
  BY BeginType DEF Kinds, PollingInv
<1>2. PollingTypeOK'
  BY <1>1 DEF pollState, PollingInv, PollingTypeOK, Kinds
<1>3. \A d \in Cycles : kind'[d] # "first"
  BY <1>1 DEF PollingInv, PollingTypeOK, FirstCycleAlone
<1>4. kind'[c] # "none"
  BY <1>1 DEF PollingInv, PollingTypeOK
<1> QED
  BY <1>1, <1>2, <1>3, <1>4
     DEF pollState, PollingInv, FirstCycleAlone, CyclesOfRunning, NoRetryAtFirst,
         PollingNeverStops, RetriesOnlyWhileFailing, Open

\* A refresh begins a cycle or, with no group due, restarts the timer.
LEMMA RefreshInv ==
  ASSUME PollingInv, NEW c \in Cycles, Refresh(c), phase = "running",
         lockWaiting' \in BOOLEAN, UNCHANGED <<phase, active, pollState>>
  PROVE  PollingInv'
<1>1. CASE GroupsToFetch = {}
  <2>1. timer' \in 0..NoTimer /\ timer' # NoTimer
    BY <1>1, TimerStarted DEF Refresh
  <2> QED
    BY <1>1, <2>1
       DEF Refresh, pollState, PollingInv, PollingTypeOK, FirstCycleAlone, CyclesOfRunning,
           NoRetryAtFirst, PollingNeverStops, RetriesOnlyWhileFailing
<1>2. CASE GroupsToFetch # {}
  <2>1. Begin(c, "scheduled", GroupsToFetch) /\ GroupsToFetch \in SUBSET Groups
    BY <1>2 DEF Refresh, GroupsToFetch
  <2>2. /\ timer' \in 0..NoTimer
        /\ active' \subseteq Groups /\ lastUpdateSuccess' \in BOOLEAN
    BY <1>2, PollingAssumption DEF Refresh, NoTimer, PollingInv, PollingTypeOK
  <2> QED
    BY <2>1, <2>2, LaterCycleInv
<1> QED
  BY <1>1, <1>2

\* A cycle of the timer's is under way or waits for its turn.
LEMMA TimerInv ==
  ASSUME PollingInv, NEW c \in Cycles, TimerExpires(c) \/ LockAcquired(c)
  PROVE  PollingInv'
<1>1. phase = "running" /\ Refresh(c)
  BY DEF TimerExpires, LockAcquired, PollingInv, CyclesOfRunning
<1>2. lockWaiting' \in BOOLEAN /\ UNCHANGED <<phase, active, pollState>>
  BY DEF TimerExpires, LockAcquired, PollingInv, PollingTypeOK
<1> QED
  BY <1>1, <1>2, RefreshInv

\* The timer that expires during a refresh is kept as a waiting refresh.
LEMMA TimerExpiresLockedInv ==
  ASSUME PollingInv, TimerExpiresLocked
  PROVE  PollingInv'
<1>1. phase = "running"
  BY DEF TimerExpiresLocked, ScheduledUnderWay, PollingInv, CyclesOfRunning
<1>2. PollingTypeOK'
  BY PollingAssumption DEF TimerExpiresLocked, NoTimer, pollState, PollingInv, PollingTypeOK
<1> QED
  BY <1>1, <1>2
     DEF TimerExpiresLocked, pollState, PollingInv, FirstCycleAlone, CyclesOfRunning,
         NoRetryAtFirst, PollingNeverStops, RetriesOnlyWhileFailing

\* The button's cycle replaces the timer it cancels.
LEMMA PollEverythingInv ==
  ASSUME PollingInv, NEW c \in Cycles, PollEverything(c)
  PROVE  PollingInv'
<1>1. /\ phase = "running" /\ Begin(c, "all", Groups)
      /\ UNCHANGED <<phase, pollState>>
      /\ lockWaiting' \in BOOLEAN /\ lastUpdateSuccess' \in BOOLEAN
  BY DEF PollEverything, PollingInv, PollingTypeOK
<1>2. timer' \in 0..NoTimer
  BY PollingAssumption DEF PollEverything, NoTimer
<1>3. active' \subseteq Groups
  BY PollingAssumption DEF PollEverything, SyncActiveNodes, PollingInv, PollingTypeOK
<1> QED
  BY <1>1, <1>2, <1>3, LaterCycleInv

\* Fetching changes nothing but the tasks, and no property here is about them.
LEMMA FetchingInv ==
  ASSUME PollingInv, task' \in [Cycles -> [Groups -> TaskStates]],
         UNCHANGED <<phase, timer, lockWaiting, kind, active, pollState, lastUpdateSuccess>>
  PROVE  PollingInv'
BY DEF pollState, PollingInv, PollingTypeOK, FirstCycleAlone, CyclesOfRunning,
   NoRetryAtFirst, PollingNeverStops, RetriesOnlyWhileFailing, Open

\* A task starts, or a GET is answered.
LEMMA StartFetchInv ==
  ASSUME PollingInv, NEW c \in Cycles, NEW g \in Groups, StartFetch(c, g)
  PROVE  PollingInv'
<1>1. task' \in [Cycles -> [Groups -> TaskStates]]
  BY DEF StartFetch, Reported, PollingInv, PollingTypeOK, TaskStates
<1> QED
  BY <1>1, FetchingInv DEF StartFetch

\* Whatever the answer is, it ends fetches and nothing else.
LEMMA AnswerInv ==
  ASSUME PollingInv, NEW g \in Groups, NEW outcome \in TaskStates, Answer(g, outcome)
  PROVE  PollingInv'
<1>1. \A c \in Cycles : Reported(c, outcome) \in TaskStates
  BY DEF Reported, TaskStates
<1>2. task' \in [Cycles -> [Groups -> TaskStates]]
  BY <1>1 DEF Answer, PollingInv, PollingTypeOK
<1> QED
  BY <1>2, FetchingInv DEF Answer

\* The first refresh ends: nothing has been retried yet.
LEMMA FirstRefreshEndsInv ==
  ASSUME PollingInv, NEW c \in Cycles, FirstRefreshEnds(c)
  PROVE  PollingInv'
<1>1. /\ kind' \in [Cycles -> Kinds]
      /\ task' \in [Cycles -> [Groups -> TaskStates]]
      /\ kind' = [kind EXCEPT ![c] = "none"]
  BY CloseType DEF FirstRefreshEnds, PollingInv
<1>2. Fetched(c) \in SUBSET Groups
  BY DEF Fetched
<1>3. /\ stamped' \subseteq Groups /\ age' \in [Groups -> Nat]
      /\ \A g \in Groups : age'[g] <= ScanInterval[g]
  BY <1>2, StampType DEF FirstRefreshEnds, PollingInv
<1>4. PollingTypeOK'
  BY <1>1, <1>3 DEF FirstRefreshEnds, PollingInv, PollingTypeOK, Kinds
<1>5. phase = "refreshing" /\ phase' \in {"refreshed", "failed"}
      /\ \A d \in Cycles : kind'[d] = "none"
  BY <1>1 DEF FirstRefreshEnds, PollingInv, PollingTypeOK, FirstCycleAlone, CyclesOfRunning
<1>6. \A g \in Groups : attempts[g] = 0
  BY <1>5 DEF PollingInv, NoRetryAtFirst
<1> QED
  BY <1>3, <1>4, <1>5, <1>6
     DEF FirstRefreshEnds, PollingInv, FirstCycleAlone, CyclesOfRunning, NoRetryAtFirst,
         PollingNeverStops, RetriesOnlyWhileFailing

\* A later cycle ends: a success leaves no retry to a group that has been
\* polled, and a failure is counted.
LEMMA CycleEndsInv ==
  ASSUME PollingInv, NEW c \in Cycles, CycleEnds(c)
  PROVE  PollingInv'
<1>1. /\ kind' \in [Cycles -> Kinds]
      /\ task' \in [Cycles -> [Groups -> TaskStates]]
      /\ kind' = [kind EXCEPT ![c] = "none"]
  BY CloseType DEF CycleEnds, PollingInv
<1>2. Fetched(c) \in SUBSET Groups /\ GroupsOf(c) \in SUBSET Groups
  BY DEF Fetched, GroupsOf
<1>3. /\ stamped' \subseteq Groups /\ age' \in [Groups -> Nat]
      /\ \A g \in Groups : age'[g] <= ScanInterval[g]
  BY <1>2, StampType DEF CycleEnds, PollingInv
<1>4. timer' \in 0..NoTimer /\ timer' # NoTimer
  BY TimerStarted DEF CycleEnds
<1>5. phase = "running" /\ phase' = phase
  BY DEF CycleEnds, CycleDone, Open, PollingInv, PollingTypeOK, CyclesOfRunning
<1>6. /\ failures' \in 0..ErrorThreshold
      /\ connectionFailures' \in 0..ErrorThreshold
      /\ attempts' \in [Groups -> 0..MaxAttempts]
      /\ retryIn' \in [Groups -> 0..RetryMaxDelay]
      /\ failures' = 0 => \A g \in stamped' : attempts'[g] = 0
  <2>1. CASE SuccessfulPoll(GroupsOf(c))
    BY <2>1, <1>3, SuccessType DEF PollingInv, SuccessfulPoll
  <2>2. CASE FailedPoll(GroupsOf(c))
    BY <2>2, <1>2, FailedType, PollingAssumption DEF PollingInv
  <2> QED
    BY <2>1, <2>2 DEF CycleEnds
<1>7. PollingTypeOK'
  BY <1>1, <1>3, <1>4, <1>5, <1>6 DEF CycleEnds, PollingInv, PollingTypeOK, Kinds
<1>8. \A d \in Cycles : kind'[d] = kind[d] \/ kind'[d] = "none"
  BY <1>1 DEF PollingInv, PollingTypeOK
<1> QED
  BY <1>4, <1>5, <1>6, <1>7, <1>8
     DEF CycleEnds, PollingInv, FirstCycleAlone, CyclesOfRunning, NoRetryAtFirst,
         PollingNeverStops, RetriesOnlyWhileFailing

\* A broken cycle renews no timestamp and, unless it was the first refresh,
\* starts the timer again.
LEMMA CycleBreaksInv ==
  ASSUME PollingInv, NEW c \in Cycles, CycleBreaks(c)
  PROVE  PollingInv'
<1>1. /\ kind' \in [Cycles -> Kinds]
      /\ task' \in [Cycles -> [Groups -> TaskStates]]
      /\ kind' = [kind EXCEPT ![c] = "none"]
  BY CloseType DEF CycleBreaks, PollingInv
<1>2. \A d \in Cycles : kind'[d] = kind[d] \/ kind'[d] = "none"
  BY <1>1 DEF PollingInv, PollingTypeOK
<1>3. CASE kind[c] = "first"
  <2>1. phase = "refreshing" /\ phase' = "failed" /\ \A d \in Cycles : kind'[d] = "none"
    BY <1>1, <1>3 DEF CycleBreaks, PollingInv, PollingTypeOK, FirstCycleAlone,
       CyclesOfRunning
  <2>2. PollingTypeOK'
    BY <1>1, <1>3, <2>1 DEF CycleBreaks, PollingInv, PollingTypeOK, Kinds
  <2> QED
    BY <1>3, <2>1, <2>2
       DEF CycleBreaks, PollingInv, FirstCycleAlone, CyclesOfRunning, NoRetryAtFirst,
           PollingNeverStops, RetriesOnlyWhileFailing
<1>4. CASE kind[c] # "first"
  <2>1. timer' \in 0..NoTimer /\ timer' # NoTimer
    BY <1>4, TimerStarted DEF CycleBreaks
  <2>2. phase' = phase /\ lastUpdateSuccess' \in BOOLEAN
        /\ connectionFailures' \in 0..ErrorThreshold
    BY <1>4, PollingAssumption DEF CycleBreaks, PollingInv, PollingTypeOK, Smaller
  <2>3. PollingTypeOK'
    BY <1>1, <2>1, <2>2 DEF CycleBreaks, PollingInv, PollingTypeOK, Kinds
  <2> QED
    BY <1>2, <2>1, <2>2, <2>3
       DEF CycleBreaks, PollingInv, FirstCycleAlone, CyclesOfRunning, NoRetryAtFirst,
           PollingNeverStops, RetriesOnlyWhileFailing
<1> QED
  BY <1>3, <1>4

\* Entities, writes of the user and the passing of time.
LEMMA EnvironmentInv ==
  ASSUME PollingInv,
         \/ \E g \in Switchable : NodeRegistered(g) \/ NodesUnregistered(g)
         \/ EntitiesAdded \/ UserWrites \/ Tick
  PROVE  PollingInv'
<1>1. ASSUME NEW g \in Switchable, NodeRegistered(g) \/ NodesUnregistered(g)
      PROVE  PollingInv'
  BY <1>1, PollingAssumption
     DEF NodeRegistered, NodesUnregistered, pollState, PollingInv, PollingTypeOK,
         FirstCycleAlone, CyclesOfRunning, NoRetryAtFirst, PollingNeverStops,
         RetriesOnlyWhileFailing, Open
<1>2. CASE EntitiesAdded \/ UserWrites
  <2>1. timer' \in 0..NoTimer /\ timer' # NoTimer
    BY <1>2, TimerStarted DEF EntitiesAdded, UserWrites
  <2>2. PollingTypeOK'
    BY <1>2, <2>1 DEF EntitiesAdded, UserWrites, pollState, PollingInv, PollingTypeOK
  <2> QED
    BY <1>2, <2>1, <2>2
       DEF EntitiesAdded, UserWrites, pollState, PollingInv, FirstCycleAlone,
           CyclesOfRunning, NoRetryAtFirst, PollingNeverStops, RetriesOnlyWhileFailing
<1>3. CASE Tick
  <2>1. timer' \in 0..NoTimer /\ (timer # NoTimer => timer' # NoTimer)
    BY <1>3, PollingAssumption DEF Tick, Quiet, NoTimer, PollingInv, PollingTypeOK
  <2>2. age' \in [Groups -> Nat] /\ \A g \in Groups : age'[g] <= ScanInterval[g]
    BY <1>3, PollingAssumption DEF Tick, Smaller, PollingInv, PollingTypeOK
  <2>3. retryIn' \in [Groups -> 0..RetryMaxDelay]
    <3>1. \A r \in 0..RetryMaxDelay : (IF r = 0 THEN 0 ELSE r - 1) \in 0..RetryMaxDelay
      BY PollingAssumption
    <3>2. retryIn \in [Groups -> 0..RetryMaxDelay]
      BY DEF PollingInv, PollingTypeOK
    <3>3. retryIn' = [g \in Groups |-> IF retryIn[g] = 0 THEN 0 ELSE retryIn[g] - 1]
      BY <1>3 DEF Tick
    <3> QED
      BY <3>1, <3>2, <3>3
  <2>4. PollingTypeOK'
    BY <1>3, <2>1, <2>2, <2>3 DEF Tick, PollingInv, PollingTypeOK
  <2> QED
    BY <1>3, <2>1, <2>4
       DEF Tick, PollingInv, FirstCycleAlone, CyclesOfRunning, NoRetryAtFirst,
           PollingNeverStops, RetriesOnlyWhileFailing, Open
<1> QED
  BY <1>1, <1>2, <1>3

\* Every step of the polling keeps the invariant.
LEMMA PollNextInv == PollingInv /\ [PollNext]_pollVars => PollingInv'
<1> SUFFICES ASSUME PollingInv, [PollNext]_pollVars
             PROVE  PollingInv'
  OBVIOUS
<1>1. CASE UNCHANGED pollVars
  BY <1>1, FetchingInv DEF pollVars, PollingInv, PollingTypeOK
<1>2. ASSUME NEW c \in Cycles,
             \/ FirstRefresh(c) \/ TimerExpires(c) \/ LockAcquired(c) \/ PollEverything(c)
             \/ FirstRefreshEnds(c) \/ CycleEnds(c) \/ CycleBreaks(c)
             \/ \E g \in Groups : StartFetch(c, g)
      PROVE  PollingInv'
  BY <1>2, FirstRefreshInv, TimerInv, PollEverythingInv, FirstRefreshEndsInv, CycleEndsInv,
     CycleBreaksInv, StartFetchInv
<1>3. ASSUME NEW g \in Groups, GetDelivers(g) \/ GetFails(g) \/ GetRefused(g)
      PROVE  PollingInv'
  BY <1>3, AnswerInv DEF GetDelivers, GetFails, GetRefused, TaskStates
<1>4. CASE TimerExpiresLocked
  BY <1>4, TimerExpiresLockedInv
<1> QED
  BY <1>1, <1>2, <1>3, <1>4, EnvironmentInv DEF PollNext

\* The inductive invariant holds in every state that the polling reaches,
\* whatever the groups, the intervals and the overlap of the cycles.
THEOREM PollingInvariant == PollSpec => []PollingInv
<1>1. PollInit => PollingInv
  BY PollInitInv
<1>2. PollingInv /\ [PollNext]_pollVars => PollingInv'
  BY PollNextInv
<1> QED
  BY <1>1, <1>2, PTL DEF PollSpec

\* Ages, retry delays and counters stay within their bounds: the exponential
\* backoff never exceeds POLLING_RETRY_MAX_DELAY_S.
THEOREM PollingTypes == PollSpec => []PollingTypeOK
<1>1. PollingInv => PollingTypeOK
  BY DEF PollingInv
<1> QED
  BY <1>1, PollingInvariant, PTL

\* Once the entities are there a refresh is always scheduled, waiting or under
\* way, whatever fails and however many cycles overlap.
THEOREM PollingGoesOn == PollSpec => []PollingNeverStops
<1>1. PollingInv => PollingNeverStops
  BY DEF PollingInv
<1> QED
  BY <1>1, PollingInvariant, PTL

\* With no failure outstanding no group that was polled waits for a retry.
THEOREM NoRetryWithoutFailure == PollSpec => []RetriesOnlyWhileFailing
<1>1. PollingInv => RetriesOnlyWhileFailing
  BY DEF PollingInv
<1> QED
  BY <1>1, PollingInvariant, PTL

-----------------------------------------------------------------------------
(* Timestamps                                                              *)

\* Which steps renew the age of a group: the end of a cycle that has fetched
\* it, with no connection error in that cycle.
LEMMA AgesNext ==
  ASSUME PollingInv, [PollNext]_pollVars, NEW g \in Groups, age'[g] < age[g]
  PROVE  \E c \in Cycles :
            /\ Open(c)
            /\ kind'[c] = "none"
            /\ task[c][g] = "fetched"
            /\ \A h \in GroupsOf(c) : task[c][h] # "refused"
<1>1. /\ age \in [Groups -> Nat] /\ kind \in [Cycles -> Kinds]
      /\ \A h \in Groups : age[h] <= ScanInterval[h]
  BY DEF PollingInv, PollingTypeOK, Kinds
<1>2. age' # age
  BY <1>1
<1>3. ~Tick
  BY <1>1, PollingAssumption DEF Tick, Smaller
<1>4. PICK c \in Cycles : FirstRefreshEnds(c) \/ CycleEnds(c)
  BY <1>2, <1>3
     DEF PollNext, pollVars, pollState, FirstRefresh, TimerExpires, LockAcquired,
         PollEverything, CycleBreaks, StartFetch, GetDelivers, GetFails, GetRefused, Answer,
         NodeRegistered, NodesUnregistered, EntitiesAdded, TimerExpiresLocked, UserWrites
<1>5. CycleDone(c) /\ Stamp(Fetched(c)) /\ Close(c)
  BY <1>4 DEF FirstRefreshEnds, CycleEnds
<1>6. g \in Fetched(c)
  BY <1>1, <1>5 DEF Stamp
<1>7. kind'[c] = "none"
  BY <1>1, <1>5 DEF Close
<1> QED
  BY <1>5, <1>6, <1>7 DEF CycleDone, Fetched

\* No cycle that a connection error breaks off, and no task that such a cycle
\* leaves behind, renews a timestamp.
THEOREM StampsAreEarned == PollSpec => OnlyEndedCyclesStamp
<1>1. PollingInv /\ [PollNext]_pollVars =>
         [\A g \in Groups :
             age'[g] < age[g] =>
                 \E c \in Cycles :
                     /\ Open(c)
                     /\ kind'[c] = "none"
                     /\ task[c][g] = "fetched"
                     /\ \A h \in GroupsOf(c) : task[c][h] # "refused"]_pollVars
  BY AgesNext
<1> QED
  BY <1>1, PollingInvariant, PTL DEF PollSpec, OnlyEndedCyclesStamp

=============================================================================
