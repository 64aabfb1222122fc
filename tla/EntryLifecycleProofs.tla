------------------------- MODULE EntryLifecycleProofs -------------------------
(***************************************************************************)
(* Proofs about EntryLifecycle: for any number of groups, set-ups, saves   *)
(* and retries, the types, the accounting of requests, the discovery of    *)
(* the protocol and what the forms keep.                                   *)
(***************************************************************************)
EXTENDS EntryLifecycle, OptionsFormProofs, TLAPS

\* What the types need beside themselves: set-ups are counted from the first.
Counted ==
    /\ entry = "absent" => setups = 0 /\ reloads = 0
    /\ entry \in Live \cup {"refreshing", "setup_error"} => setups \in SetUps

LifecycleInv ==
    LifecycleTypeOK /\ Counted /\ RequestsAccounted /\ ProtocolFits

LEMMA NewClientTyped == NewClient \in Client
BY DEF NewClient, Client, Protocols

LEMMA InitHolds == Init => LifecycleInv
<1> SUFFICES ASSUME Init PROVE LifecycleInv
  OBVIOUS
<1> USE LifecycleAssumption DEF Init, SetUps, Live
<1>1. LifecycleTypeOK /\ Counted
  <2>1. /\ speaks \in Protocols /\ address \in Typed \cup {NoUrl}
        /\ setups \in 0..MaxSetUps /\ saved \in 0..MaxSaves /\ used \in [Followed -> 0..saved]
        /\ reloads \in Nat /\ setups + SetUpsAhead <= MaxSetUps
    BY DEF SetUpsAhead
  <2>2. /\ client \in [SetUps -> Client]
        /\ worker \in [SetUps -> {"none", "running", "stopped", "cancelled"}]
        /\ hands \in [SetUps -> Keys \cup {Idle, Pause}]
        /\ queue \in [SetUps -> SUBSET Keys] /\ awaiting \in [SetUps -> SUBSET Keys]
        /\ tries \in [SetUps -> 0..SetRetries] /\ misled \in [SetUps -> BOOLEAN]
    BY NewClientTyped
  <2> QED
    BY <2>1, <2>2 DEF LifecycleTypeOK, Counted
<1>2. RequestsAccounted
  BY DEF RequestsAccounted
<1>3. ProtocolFits
  BY DEF ProtocolFits, NewClient
<1> QED
  BY <1>1, <1>2, <1>3 DEF LifecycleInv

(***************************************************************************)
(* The discovery: no answer makes a client speak what the boiler does not, *)
(* except by another JSON that ends the discovery too early.               *)
(***************************************************************************)
Fits(c, dialect, gaveUp) ==
    /\ c.protocol = "V1" => dialect = "V1"
    /\ c.discovered /\ ~gaveUp => c.protocol = dialect

LEMMA AnswersFit ==
    ASSUME NEW c \in Client, NEW d \in Protocols, NEW gaveUp \in BOOLEAN,
           Fits(c, d, gaveUp), NEW a \in PossibleAnswers(d, c.protocol)
    PROVE  /\ AfterAnswer(c, a) \in Client
           /\ Fits(AfterAnswer(c, a), d,
                   gaveUp \/ (~c.discovered /\ a = "other_json"))
<1>1. CASE AsksAgain(c, a)
  <2>1. AfterAnswer(c, a) = [protocol |-> "V1", discovered |-> TRUE]
    BY <1>1 DEF AfterAnswer
  <2>2. d = "V1"
    BY <1>1 DEF AsksAgain, PossibleAnswers, Troubles, Lists, Protocols
  <2> QED
    BY <2>1, <2>2 DEF Client, Protocols, Fits
<1>2. CASE ~AsksAgain(c, a) /\ IsParsed(a)
  <2>1. AfterAnswer(c, a) = [c EXCEPT !.discovered = TRUE]
    BY <1>2 DEF AfterAnswer
  <2>2. CASE c.discovered
    BY <2>1, <2>2 DEF Client, Protocols, Fits
  <2>3. CASE ~c.discovered
    <3>1. a = "other_json" \/ c.protocol = d
      BY <1>2, <2>3 DEF AsksAgain, IsParsed, PossibleAnswers, Troubles, Lists
    <3> QED
      BY <2>1, <2>3, <3>1 DEF Client, Protocols, Fits
  <2> QED
    BY <2>2, <2>3
<1>3. CASE ~AsksAgain(c, a) /\ ~IsParsed(a)
  <2>1. AfterAnswer(c, a) = c
    BY <1>3, SMTT(60) DEF AfterAnswer
  <2> QED
    BY <2>1, <1>3 DEF Fits
<1> QED
  BY <1>1, <1>2, <1>3

LEMMA TypesKept ==
    ASSUME LifecycleInv, [Next]_vars
    PROVE  LifecycleTypeOK' /\ Counted'
<1> USE LifecycleAssumption
    DEF LifecycleInv, Counted, SetUps, Live, SetUpsAhead, Keys, Idle, Pause, SetKey
<1>1. CASE UNCHANGED vars
  BY <1>1 DEF LifecycleTypeOK, vars, entryVars, refreshVars, workVars
<1>2. CASE AddEntry
  BY <1>2 DEF AddEntry, LifecycleTypeOK, refreshVars, workVars
<1>3. CASE SetUp
  <2>1. setups + 1 \in SetUps /\ SetUpsAhead = reloads + 1 /\ SetUpsAhead' = reloads
    BY <1>3 DEF SetUp, LifecycleTypeOK
  <2>2. /\ client' \in [SetUps -> Client]
        /\ worker' \in [SetUps -> {"none", "running", "stopped", "cancelled"}]
        /\ queue' \in [SetUps -> SUBSET Keys] /\ awaiting' \in [SetUps -> SUBSET Keys]
        /\ fetched' \in BOOLEAN
    BY <1>3, NewClientTyped DEF SetUp, LifecycleTypeOK
  <2>3. \A n \in SetUps : n > setups' => worker'[n] = "none"
    BY <1>3, <2>1 DEF SetUp, LifecycleTypeOK
  <2>4. \A n \in SetUps : hands'[n] # Idle => worker'[n] = "running"
    BY <1>3 DEF SetUp, LifecycleTypeOK
  <2>5. /\ setups' = setups + 1 /\ entry' = "refreshing" /\ broken' = FALSE
        /\ UNCHANGED <<speaks, address, saved, reloads, hands, tries, misled>>
    BY <1>3 DEF SetUp
  <2>6. Counted'
    BY <2>1, <2>5
  <2>7. setups' \in 0..MaxSetUps /\ setups' + SetUpsAhead' <= MaxSetUps
    BY <2>1, <2>5 DEF LifecycleTypeOK
  <2>8. used' \in [Followed -> 0..saved'] /\ entry' \in {"refreshing"}
    BY <1>3, <2>5 DEF SetUp, LifecycleTypeOK
  <2>9. LifecycleTypeOK'
    BY <2>2, <2>3, <2>4, <2>5, <2>7, <2>8 DEF LifecycleTypeOK
  <2> QED
    BY <2>6, <2>9
<1>4. CASE FirstRefreshFails \/ FirstRefreshSucceeds \/ SetUpEnds
  BY <1>4 DEF FirstRefreshFails, FirstRefreshSucceeds, SetUpEnds, LifecycleTypeOK,
              refreshVars, workVars
<1>5. ASSUME NEW n \in SetUps, WorkerTakes(n) PROVE LifecycleTypeOK' /\ Counted'
  BY <1>5 DEF WorkerTakes, LifecycleTypeOK, entryVars, refreshVars
<1>6. ASSUME NEW n \in SetUps, NEW k \in Groups, GetAnswered(n, k)
      PROVE  LifecycleTypeOK' /\ Counted'
  <2>1. PICK a \in PossibleAnswers(speaks, client[n].protocol) :
            /\ client' = [client EXCEPT ![n] = AfterAnswer(@, a)]
            /\ misled' = [misled EXCEPT ![n] =
                             @ \/ (~client[n].discovered /\ a = "other_json")]
            /\ \/ UNCHANGED <<hands, awaiting, refreshVars>>
               \/ Finishes(n, k) /\ fetched' \in BOOLEAN /\ broken' \in BOOLEAN
    BY <1>6 DEF GetAnswered, LifecycleTypeOK
  <2>2. AfterAnswer(client[n], a) \in Client
    BY AnswersFit DEF LifecycleTypeOK, ProtocolFits, Fits
  <2>3. /\ client' \in [SetUps -> Client] /\ misled' \in [SetUps -> BOOLEAN]
        /\ fetched' \in BOOLEAN /\ broken' \in BOOLEAN
    BY <2>1, <2>2 DEF LifecycleTypeOK, refreshVars
  <2>4. UNCHANGED <<speaks, entryVars, worker, queue, tries>> /\ hands[n] = k
    BY <1>6 DEF GetAnswered
  <2>5. hands' \in [SetUps -> Keys \cup {Idle, Pause}]
        /\ awaiting' \in [SetUps -> SUBSET Keys]
        /\ \A m \in SetUps : hands'[m] # Idle => worker'[m] = "running"
    <3>1. CASE UNCHANGED <<hands, awaiting>>
      BY <2>4, <3>1 DEF LifecycleTypeOK
    <3>2. CASE Finishes(n, k)
      BY <2>4, <3>2 DEF LifecycleTypeOK, Finishes
    <3> QED
      BY <2>1, <3>1, <3>2
  <2>6. setups + SetUpsAhead' <= MaxSetUps /\ Counted'
    BY <2>4 DEF LifecycleTypeOK, entryVars
  <2> QED
    BY <2>3, <2>4, <2>5, <2>6 DEF LifecycleTypeOK, entryVars
<1>7. ASSUME NEW n \in SetUps, SetAnswered(n)
      PROVE  LifecycleTypeOK' /\ Counted'
  <2>1. /\ UNCHANGED <<speaks, entryVars, refreshVars, worker, queue, client, misled>>
        /\ worker[n] = "running"
    BY <1>7 DEF SetAnswered
  <2>2. CASE /\ hands' = [hands EXCEPT ![n] = Pause]
             /\ tries[n] < SetRetries /\ tries' = [tries EXCEPT ![n] = @ + 1]
             /\ UNCHANGED awaiting
    BY <2>1, <2>2 DEF LifecycleTypeOK, entryVars, refreshVars
  <2>3. CASE Finishes(n, SetKey) /\ tries' = [tries EXCEPT ![n] = 0]
    BY <2>1, <2>3 DEF Finishes, LifecycleTypeOK, entryVars, refreshVars
  <2> QED
    BY <1>7, <2>2, <2>3 DEF SetAnswered
<1>8. ASSUME NEW n \in SetUps, RetryQueued(n)
       PROVE  LifecycleTypeOK' /\ Counted'
  BY <1>8 DEF RetryQueued, LifecycleTypeOK, entryVars, refreshVars
<1>9. ASSUME NEW k \in Keys, Submit(k) PROVE LifecycleTypeOK' /\ Counted'
  BY <1>9 DEF Submit, LifecycleTypeOK, entryVars, refreshVars
<1>10. CASE SaveOptions
  BY <1>10 DEF SaveOptions, Listens, RoomForSetUp, LifecycleTypeOK, refreshVars, workVars
<1>11. CASE ListenerReloads
  BY <1>11 DEF ListenerReloads, Reload, LifecycleTypeOK, refreshVars, workVars
<1>12. CASE UserReloads
  BY <1>12 DEF UserReloads, RoomForSetUp, Reload, LifecycleTypeOK, refreshVars, workVars
<1>13. CASE UserRemoves \/ UnloadRefused
  BY <1>13, SMTT(60) DEF UserRemoves, UnloadRefused, LifecycleTypeOK, refreshVars, workVars
<1>14. CASE Unload
  BY <1>14 DEF Unload, Unloaded, Cancelled, ForgetClients, NewClient, Client, Protocols,
               LifecycleTypeOK, refreshVars
<1>15. CASE Restart
  <2>1. setups + SetUpsAhead' <= MaxSetUps
    BY <1>15 DEF Restart, RoomForSetUp, LifecycleTypeOK
  <2>2. /\ client' \in [SetUps -> Client]
        /\ worker' \in [SetUps -> {"none", "running", "stopped", "cancelled"}]
        /\ hands' \in [SetUps -> Keys \cup {Idle, Pause}]
        /\ queue' \in [SetUps -> SUBSET Keys] /\ awaiting' \in [SetUps -> SUBSET Keys]
        /\ tries' \in [SetUps -> 0..SetRetries] /\ misled' \in [SetUps -> BOOLEAN]
    BY <1>15, NewClientTyped DEF Restart, ForgetClients, LifecycleTypeOK
  <2> QED
    BY <1>15, <2>1, <2>2 DEF Restart, LifecycleTypeOK
<1> QED
  BY <1>1, <1>2, <1>3, <1>4, <1>5, <1>6, <1>7, <1>8, <1>9, <1>10, <1>11, <1>12, <1>13,
     <1>14, <1>15 DEF Next, Works

(***************************************************************************)
(* RequestsAccounted, worker by worker.                                    *)
(***************************************************************************)
WorkerAccounted(n) ==
    /\ worker[n] = "running" => /\ awaiting[n] = queue[n] \cup InHands(n)
                                /\ queue[n] \cap InHands(n) = {}
    /\ worker[n] = "stopped" =>
         queue[n] = {} /\ \A j, k \in awaiting[n] : j = k
    /\ worker[n] = "cancelled" =>
         /\ queue[n] \subseteq awaiting[n]
         /\ \A j, k \in awaiting[n] \ queue[n] : j = k

CurrentWorkerRuns == entry \in Live \cup {"refreshing"} => worker[setups] = "running"

LEMMA AccountedByWorker ==
    /\ RequestsAccounted <=> CurrentWorkerRuns /\ \A n \in SetUps : WorkerAccounted(n)
    /\ RequestsAccounted' <=> CurrentWorkerRuns' /\ \A n \in SetUps : WorkerAccounted(n)'
BY DEF RequestsAccounted, WorkerAccounted, CurrentWorkerRuns

LEMMA KeysAreNoStates == Keys \cap {Idle, Pause} = {}
BY LifecycleAssumption DEF Keys, Idle, Pause, SetKey

\* A step of a worker keeps the accounts if it keeps its own.
LEMMA OneWorkerSteps ==
    ASSUME LifecycleInv, NEW n \in SetUps,
           UNCHANGED <<entry, setups, worker>>,
           \A m \in SetUps \ {n} : /\ hands'[m] = hands[m] /\ queue'[m] = queue[m]
                                   /\ awaiting'[m] = awaiting[m],
           WorkerAccounted(n)'
    PROVE  RequestsAccounted'
<1>1. ASSUME NEW m \in SetUps, m # n PROVE WorkerAccounted(m)'
  BY <1>1, AccountedByWorker DEF WorkerAccounted, InHands, LifecycleInv
<1>2. CurrentWorkerRuns'
  BY AccountedByWorker DEF CurrentWorkerRuns, LifecycleInv, Live
<1> QED
  BY <1>1, <1>2, AccountedByWorker

LEMMA FinishKeepsAccounts ==
    ASSUME LifecycleInv, NEW n \in SetUps, NEW k \in Keys, Finishes(n, k),
           worker[n] = "running", hands[n] = k,
           UNCHANGED <<entry, setups, worker, queue>>
    PROVE  RequestsAccounted'
<1>1. WorkerAccounted(n)
  BY AccountedByWorker DEF LifecycleInv
<1>2. InHands(n) = {k} /\ InHands(n)' = {}
  BY KeysAreNoStates DEF InHands, Finishes, LifecycleInv, LifecycleTypeOK
<1>3. awaiting'[n] = awaiting[n] \ {k}
  BY DEF Finishes, LifecycleInv, LifecycleTypeOK
<1>4. WorkerAccounted(n)'
  BY <1>1, <1>2, <1>3 DEF WorkerAccounted
<1> QED
  BY <1>4, OneWorkerSteps DEF Finishes, LifecycleInv, LifecycleTypeOK

LEMMA RequestsKept ==
    ASSUME LifecycleInv, [Next]_vars
    PROVE  RequestsAccounted'
<1> USE DEF LifecycleInv
<1>1. CASE /\ UNCHANGED <<setups, worker, hands, queue, awaiting>>
           /\ entry' \in Live \cup {"refreshing"} => entry \in Live \cup {"refreshing"}
  BY <1>1 DEF RequestsAccounted, InHands
<1>2. CASE SetUp
  <2>1. setups + 1 \in SetUps /\ hands[setups + 1] = Idle
    <3>1. setups + 1 \in SetUps
      BY <1>2, LifecycleAssumption DEF SetUp, LifecycleTypeOK, SetUpsAhead, SetUps
    <3>2. worker[setups + 1] = "none"
      BY <1>2, <3>1 DEF SetUp, LifecycleTypeOK
    <3> QED
      BY <3>1, <3>2 DEF LifecycleTypeOK
  <2> QED
    BY <1>2, <2>1, LifecycleAssumption
       DEF SetUp, RequestsAccounted, LifecycleTypeOK, InHands, Live, SetUps
<1>3. ASSUME NEW n \in SetUps, WorkerTakes(n) PROVE RequestsAccounted'
  <2>1. PICK k \in queue[n] : /\ hands' = [hands EXCEPT ![n] = k]
                              /\ queue' = [queue EXCEPT ![n] = @ \ {k}]
    BY <1>3 DEF WorkerTakes
  <2>2. InHands(n) = {} /\ InHands(n)' = {k}
    BY <1>3, <2>1, KeysAreNoStates DEF WorkerTakes, InHands, LifecycleTypeOK
  <2>3. WorkerAccounted(n)'
    BY <1>3, <2>1, <2>2, AccountedByWorker
       DEF WorkerTakes, WorkerAccounted, LifecycleTypeOK
  <2> QED
    BY <1>3, <2>1, <2>3, OneWorkerSteps DEF WorkerTakes, LifecycleTypeOK, entryVars
<1>4. ASSUME NEW n \in SetUps, NEW k \in Groups, GetAnswered(n, k)
      PROVE  RequestsAccounted'
  <2>1. CASE UNCHANGED <<hands, awaiting>>
    BY <1>1, <1>4, <2>1 DEF GetAnswered, entryVars
  <2>2. CASE Finishes(n, k)
    BY <1>4, <2>2, FinishKeepsAccounts DEF GetAnswered, entryVars, Keys
  <2> QED
    BY <1>4, <2>1, <2>2 DEF GetAnswered
<1>5. ASSUME NEW n \in SetUps, SetAnswered(n) PROVE RequestsAccounted'
  <2>1. CASE hands' = [hands EXCEPT ![n] = Pause] /\ UNCHANGED awaiting
    <3>1. InHands(n)' = InHands(n)
      BY <1>5, <2>1 DEF SetAnswered, InHands, LifecycleTypeOK, Pause, Idle, SetKey
    <3>2. WorkerAccounted(n)'
      BY <1>5, <2>1, <3>1, AccountedByWorker DEF SetAnswered, WorkerAccounted
    <3> QED
      BY <1>5, <2>1, <3>2, OneWorkerSteps DEF SetAnswered, LifecycleTypeOK, entryVars
  <2>2. CASE Finishes(n, SetKey)
    BY <1>5, <2>2, FinishKeepsAccounts DEF SetAnswered, entryVars, Keys
  <2> QED
    BY <1>5, <2>1, <2>2 DEF SetAnswered
<1>6. ASSUME NEW n \in SetUps, RetryQueued(n) PROVE RequestsAccounted'
  <2>1. InHands(n) = {SetKey} /\ InHands(n)' = {}
    BY <1>6 DEF RetryQueued, InHands, LifecycleTypeOK, Pause, Idle
  <2>2. WorkerAccounted(n)'
    BY <1>6, <2>1, AccountedByWorker DEF RetryQueued, WorkerAccounted, LifecycleTypeOK
  <2> QED
    BY <1>6, <2>2, OneWorkerSteps DEF RetryQueued, LifecycleTypeOK, entryVars
<1>7. ASSUME NEW k \in Keys, Submit(k) PROVE RequestsAccounted'
  <2>1. setups \in SetUps /\ InHands(setups)' = InHands(setups)
    BY <1>7 DEF Submit, Counted, InHands, entryVars
  <2>2. WorkerAccounted(setups)'
    BY <1>7, <2>1, AccountedByWorker
       DEF Submit, WorkerAccounted, CurrentWorkerRuns, LifecycleTypeOK, entryVars
  <2> QED
    BY <1>7, <2>1, <2>2, OneWorkerSteps DEF Submit, LifecycleTypeOK, entryVars
<1>8. CASE Unload
  <2>1. setups \in SetUps /\ worker[setups] = "running" /\ CurrentWorkerRuns'
    BY <1>8 DEF Unload, Unloaded, RequestsAccounted, CurrentWorkerRuns, Counted, Live
  <2>2. ASSUME NEW n \in SetUps PROVE WorkerAccounted(n)'
    <3>1. WorkerAccounted(n) /\ \A j, k \in InHands(n) : j = k
      BY AccountedByWorker DEF InHands
    <3>2. CASE n = setups
      <4>1. /\ worker'[n] = "stopped" /\ queue'[n] = {}
            /\ awaiting'[n] = awaiting[n] \ queue[n]
        BY <1>8, <2>1, <3>2 DEF Unload, Cancelled, LifecycleTypeOK
      <4> QED
        BY <2>1, <3>1, <3>2, <4>1 DEF WorkerAccounted
    <3>3. CASE n # setups
      <4>1. /\ worker'[n] = (IF worker[n] = "running" THEN "cancelled" ELSE worker[n])
            /\ queue'[n] = queue[n] /\ awaiting'[n] = awaiting[n]
        BY <1>8, <3>3 DEF Unload, Cancelled, LifecycleTypeOK
      <4> QED
        BY <3>1, <4>1 DEF WorkerAccounted
    <3> QED
      BY <3>2, <3>3
  <2> QED
    BY <2>1, <2>2, AccountedByWorker
<1>9. CASE Restart
  BY <1>9 DEF Restart, RequestsAccounted, Live
<1> QED
  BY <1>1, <1>2, <1>3, <1>4, <1>5, <1>6, <1>7, <1>8, <1>9
     DEF Next, Works, vars, entryVars, refreshVars, workVars, AddEntry,
         FirstRefreshFails, FirstRefreshSucceeds, SetUpEnds, SaveOptions, Live,
         ListenerReloads, UserReloads, UserRemoves, UnloadRefused, Reload

LEMMA DiscoveryKept ==
    ASSUME LifecycleInv, [Next]_vars
    PROVE  ProtocolFits'
<1> USE DEF LifecycleInv
<1>1. CASE UNCHANGED <<speaks, client, misled>>
  BY <1>1 DEF ProtocolFits
<1>2. CASE SetUp
  BY <1>2 DEF SetUp, ProtocolFits, LifecycleTypeOK, NewClient
<1>3. CASE Unload \/ Restart
  BY <1>3 DEF Unload, Restart, ForgetClients, ProtocolFits, NewClient
<1>4. ASSUME NEW n \in SetUps, NEW k \in Groups, GetAnswered(n, k)
      PROVE  ProtocolFits'
  <2>1. PICK a \in PossibleAnswers(speaks, client[n].protocol) :
            /\ client' = [client EXCEPT ![n] = AfterAnswer(@, a)]
            /\ misled' = [misled EXCEPT ![n] =
                             @ \/ (~client[n].discovered /\ a = "other_json")]
    BY <1>4 DEF GetAnswered
  <2>2. Fits(AfterAnswer(client[n], a), speaks,
             misled[n] \/ (~client[n].discovered /\ a = "other_json"))
    BY AnswersFit DEF LifecycleTypeOK, ProtocolFits, Fits
  <2> QED
    BY <1>4, <2>1, <2>2 DEF GetAnswered, ProtocolFits, Fits, LifecycleTypeOK
<1> QED
  BY <1>1, <1>2, <1>3, <1>4
     DEF Next, Works, vars, workVars, AddEntry, FirstRefreshFails,
         FirstRefreshSucceeds, SetUpEnds, WorkerTakes, SetAnswered, RetryQueued,
         Submit, SaveOptions, ListenerReloads, UserReloads, UserRemoves, UnloadRefused

-----------------------------------------------------------------------------
(***************************************************************************)
(* The inductive invariant of the life cycle holds in every reachable      *)
(* state: set-up, unload, reload and restart keep the accounts of every    *)
(* worker (async_setup_entry, async_unload_entry, stop).                   *)
(***************************************************************************)
THEOREM LifecycleInvariant == Spec => []LifecycleInv
<1>1. LifecycleInv /\ [Next]_vars => LifecycleInv'
  BY TypesKept, RequestsKept, DiscoveryKept DEF LifecycleInv
<1> QED
  BY InitHolds, <1>1, PTL DEF Spec

(***************************************************************************)
(* Types, and that only a running worker has a request in its hands.       *)
(***************************************************************************)
THEOREM LifecycleTypes == Spec => []LifecycleTypeOK
BY LifecycleInvariant, PTL DEF LifecycleInv

(***************************************************************************)
(* Every request that somebody awaits is queued or in the hands of a       *)
(* worker that runs, and an unload loses at most one (_drain_queue).       *)
(***************************************************************************)
THEOREM NoRequestUnaccounted == Spec => []RequestsAccounted
BY LifecycleInvariant, PTL DEF LifecycleInv

(***************************************************************************)
(* The automatic discovery never picks a protocol that the boiler does not *)
(* speak, and ends with the right one (async_get_nodes_data).              *)
(***************************************************************************)
THEOREM DiscoveryIsRight == Spec => []ProtocolFits
BY LifecycleInvariant, PTL DEF LifecycleInv

(***************************************************************************)
(* After any save, any form over any stored options shows the next time    *)
(* what was submitted, and loses no option (_flatten_section_data).        *)
(***************************************************************************)
THEOREM FormsLoseNothing == Spec => []FormRoundTrip
<1>1. FormRoundTrip
  BY LifecycleAssumption, NothingLostByTheForm DEF FormRoundTrip, FormsKeep
<1> QED
  BY <1>1, PTL

(***************************************************************************)
(* What a set-up that has failed or was unloaded leaves to its worker only *)
(* becomes less: no later set-up, reload or user gives it another request. *)
(* This is the half of OrphansFallSilent that needs no fairness; a worker  *)
(* that goes on then runs out of requests (submit_request, async_stop).    *)
(***************************************************************************)
THEOREM OrphansGetNoRequests ==
    Spec =>
      [][\A n \in SetUps :
            n < setups \/ (n = setups /\ entry \notin Live \cup {"refreshing"}) =>
                awaiting'[n] \subseteq awaiting[n]]_vars
<1>1. LifecycleInv /\ [Next]_vars =>
        [\A n \in SetUps :
            n < setups \/ (n = setups /\ entry \notin Live \cup {"refreshing"}) =>
                awaiting'[n] \subseteq awaiting[n]]_vars
  <2> SUFFICES ASSUME LifecycleInv, Next, NEW n \in SetUps,
                      n < setups \/ (n = setups /\ entry \notin Live \cup {"refreshing"})
               PROVE  awaiting'[n] \subseteq awaiting[n]
    OBVIOUS
  <2> USE DEF LifecycleInv, LifecycleTypeOK
  <2>1. setups \in Nat /\ n \in Nat
    BY DEF SetUps
  <2>2. CASE UNCHANGED awaiting
    BY <2>2
  <2>3. CASE SetUp
    BY <2>1, <2>3 DEF SetUp
  <2>4. ASSUME NEW m \in SetUps, Works(m)
        PROVE  awaiting'[n] \subseteq awaiting[n]
    BY <2>4 DEF Works, WorkerTakes, GetAnswered, SetAnswered, RetryQueued, Finishes
  <2>5. ASSUME NEW k \in Keys, Submit(k)
        PROVE  awaiting'[n] \subseteq awaiting[n]
    BY <2>1, <2>5 DEF Submit
  <2>6. CASE Unload \/ Restart
    BY <2>6 DEF Unload, Restart
  <2> QED
    BY <2>2, <2>3, <2>4, <2>5, <2>6
       DEF Next, workVars, AddEntry, FirstRefreshFails, FirstRefreshSucceeds, SetUpEnds,
           SaveOptions, ListenerReloads, UserReloads, UserRemoves, UnloadRefused
<1> QED
  BY <1>1, LifecycleInvariant, PTL DEF Spec

=============================================================================
