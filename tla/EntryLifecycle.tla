---------------------------- MODULE EntryLifecycle ----------------------------
(***************************************************************************)
(* The life of a config entry (__init__.py, config_flow.py): the flow that *)
(* creates it, its set-ups with the first refresh, its unloads, reloads    *)
(* after new options, and restarts of Home Assistant.                      *)
(*                                                                         *)
(* Every set-up makes a client, an access manager and a coordinator of its *)
(* own, and nothing removes those of a failed set-up: its worker goes on   *)
(* beside the worker of the next one.  So the variables below that belong  *)
(* to a set-up are functions of its number.                                *)
(*                                                                         *)
(* The order of the queue, superseding and the data are the subject of the *)
(* other modules: a request is here known by its context key, a SET by     *)
(* SetKey, and there is at most one SET under way.                         *)
(***************************************************************************)
EXTENDS ApiClient, OptionsForm, Integers, FiniteSets

CONSTANTS Groups,        \* the polling groups
          SetRetries,    \* SET_VALUE_RETRY_ATTEMPTS
          Typed,         \* the addresses that the user may type
          StoredOptions, \* options that an entry may have stored
          Forms,         \* what the user may submit with the form of the options
          Followed,      \* the options whose way into the program is followed
          MaxSetUps,     \* bound: set-ups
          MaxSaves       \* bound: times that options are saved

ASSUME LifecycleAssumption ==
    /\ SetRetries \in Nat
    /\ MaxSetUps \in Nat \ {0}
    /\ MaxSaves \in Nat
    /\ Typed \subseteq Addresses
    /\ Groups \cap {"set", "idle", "pause"} = {}
    /\ IsFiniteSet(Groups)
    /\ \A form \in Forms : IsForm(form)
    /\ Followed \subseteq SavedKeys

VARIABLES
  speaks,    \* the protocol that the boiler speaks
  address,   \* the address of the entry
  entry,     \* the state of the entry in Home Assistant
  setups,    \* set-ups so far; the last one is the current one
  saved,     \* how often options were saved
  used,      \* of each option followed: the save that a set-up last read, or 0
  reloads,   \* reloads that update listeners have asked for
  fetched,   \* a group of the first refresh was fetched
  broken,    \* a connection error has broken off the first refresh
  client,    \* the client of each set-up
  worker,    \* its worker: "none", "running", "stopped", "cancelled"
  hands,     \* what the worker is at: a call for a key, a pause or nothing
  queue,     \* the keys of the queued requests
  awaiting,  \* the keys of the requests whose futures are not done
  tries,     \* retries of the SET so far
  misled     \* history: JSON that is no list ended the discovery

entryVars == <<address, entry, setups, saved, used, reloads>>
refreshVars == <<fetched, broken>>
workVars == <<client, worker, hands, queue, awaiting, tries, misled>>
vars == <<speaks, entryVars, refreshVars, workVars>>

SetKey == "set"
Idle == "idle"
Pause == "pause"
Keys == Groups \cup {SetKey}
SetUps == 1..MaxSetUps
Live == {"adding", "loaded", "unloading", "removing", "failed_unload"}

Init ==
    /\ speaks \in Protocols
    /\ address = NoUrl /\ entry = "absent"
    /\ setups = 0 /\ saved = 0 /\ reloads = 0
    /\ used = [k \in Followed |-> 0]
    /\ fetched = FALSE /\ broken = FALSE
    /\ client = [n \in SetUps |-> NewClient]
    /\ worker = [n \in SetUps |-> "none"]
    /\ hands = [n \in SetUps |-> Idle]
    /\ queue = [n \in SetUps |-> {}]
    /\ awaiting = [n \in SetUps |-> {}]
    /\ tries = [n \in SetUps |-> 0]
    /\ misled = [n \in SetUps |-> FALSE]

(***************************************************************************)
(* Bounds: whatever leads to one more set-up must leave room for it.       *)
(***************************************************************************)
SetUpsAhead == reloads + IF entry \in {"not_loaded", "unloading"} THEN 1 ELSE 0
RoomForSetUp == setups + SetUpsAhead < MaxSetUps

(***************************************************************************)
(* async_step_user, and the form of the options that follows: the address  *)
(* must make a URL, a failing ping does not matter, and a client of the    *)
(* flow's own must get a list with items, after the switch of protocol if  *)
(* that is what the first answer asks for.                                 *)
(***************************************************************************)
Connects ==
    \E a \in PossibleAnswers(speaks, NewClient.protocol) :
        \/ a = "items"
        \/ /\ AsksAgain(NewClient, a)
           /\ "items" \in PossibleAnswers(speaks, AfterAnswer(NewClient, a).protocol)

AddEntry ==
    /\ entry = "absent" /\ Connects
    /\ \E typed \in Typed :
         /\ prepare_base_url(typed) # NoUrl
         /\ address' = typed
    /\ entry' = "not_loaded"
    /\ UNCHANGED <<speaks, setups, saved, used, reloads, refreshVars, workVars>>

(***************************************************************************)
(* What a set-up takes from the options.  Others are read where they are   *)
(* used (source_timezone, the ignore window, the threshold for preemption  *)
(* errors) or nowhere: the intervals of the polling groups, which come     *)
(* from POLLING_GROUP_DEFINITIONS instead, fallback_ping_interval and      *)
(* polling_preemption_timeout.                                             *)
(***************************************************************************)
ReadAtSetUp ==
    Components \cup Puffers \cup
    {"api_timeout", "connect_timeout", "log_level", "advanced_logging",
     "log_version_prefix", "log_level_threshold_for_connection_errors",
     "error_threshold"}

(***************************************************************************)
(* async_setup_entry up to the first refresh: a client, a worker, and one  *)
(* GET for every group that has an active node (the others count as        *)
(* fetched).  The semaphore admits as many fetches as there are groups.    *)
(***************************************************************************)
\* Fault variant of SetUp: the options that were read once are kept.
SetUpWithOldOptions ==
    LET n == setups + 1
    IN  /\ entry = "not_loaded"
        /\ setups' = n /\ entry' = "refreshing" /\ broken' = FALSE
        /\ worker' = [worker EXCEPT ![n] = "running"]
        /\ \E asked \in SUBSET Groups :
             /\ queue' = [queue EXCEPT ![n] = asked]
             /\ awaiting' = [awaiting EXCEPT ![n] = asked]
             /\ fetched' = (asked # Groups)
        /\ UNCHANGED <<speaks, address, saved, used, reloads, client, hands,
                       tries, misled>>

SetUp ==
    LET n == setups + 1
    IN  /\ entry = "not_loaded"
        /\ prepare_base_url(address) # NoUrl
        /\ setups' = n /\ entry' = "refreshing" /\ broken' = FALSE
        /\ used' = [k \in Followed |-> IF k \in ReadAtSetUp THEN saved ELSE used[k]]
        /\ client' = [client EXCEPT ![n] = NewClient]
        /\ worker' = [worker EXCEPT ![n] = "running"]
        /\ \E asked \in SUBSET Groups :
             /\ queue' = [queue EXCEPT ![n] = asked]
             /\ awaiting' = [awaiting EXCEPT ![n] = asked]
             /\ fetched' = (asked # Groups)
        /\ UNCHANGED <<speaks, address, saved, reloads, hands, tries, misled>>

(***************************************************************************)
(* The worker: it takes a request, makes the call, and tries again, after  *)
(* a pause that it sits out, when a SET fails.                             *)
(***************************************************************************)
\* Fault variant of WorkerTakes: only the worker of the last set-up goes on.
WorkerTakesIfCurrent(n) ==
    /\ n = setups /\ entry # "setup_error" /\ hands[n] = Idle
    /\ \E k \in queue[n] : /\ hands' = [hands EXCEPT ![n] = k]
                           /\ queue' = [queue EXCEPT ![n] = @ \ {k}]
    /\ UNCHANGED <<speaks, entryVars, refreshVars, client, worker, awaiting,
                   tries, misled>>

WorkerTakes(n) ==
    /\ worker[n] = "running" /\ hands[n] = Idle
    /\ \E k \in queue[n] : /\ hands' = [hands EXCEPT ![n] = k]
                           /\ queue' = [queue EXCEPT ![n] = @ \ {k}]
    /\ UNCHANGED <<speaks, entryVars, refreshVars, client, worker, awaiting,
                   tries, misled>>

\* The future of the request in the worker's hands is done.
Finishes(n, k) ==
    /\ hands' = [hands EXCEPT ![n] = Idle]
    /\ awaiting' = [awaiting EXCEPT ![n] = @ \ {k}]

(***************************************************************************)
(* An answer to a GET.  The fetching tasks of a set-up that is over by now *)
(* still take it, but nobody looks at their results any more.              *)
(***************************************************************************)
GetAnswered(n, k) ==
    /\ worker[n] = "running" /\ hands[n] = k
    /\ \E a \in PossibleAnswers(speaks, client[n].protocol) :
         LET refreshing == entry = "refreshing" /\ n = setups
         IN  /\ client' = [client EXCEPT ![n] = AfterAnswer(@, a)]
             /\ misled' = [misled EXCEPT ![n] =
                              @ \/ (~client[n].discovered /\ a = "other_json")]
             /\ IF AsksAgain(client[n], a)
                THEN UNCHANGED <<hands, awaiting, refreshVars>>
                ELSE /\ Finishes(n, k)
                     /\ fetched' = (fetched \/ (refreshing /\ a \in Lists))
                     /\ broken' = (broken \/
                          (/\ refreshing /\ a \notin Lists
                           /\ ErrorOf(a) = "HdgApiConnectionError"))
    /\ UNCHANGED <<speaks, entryVars, worker, queue, tries>>

SetAnswered(n) ==
    /\ worker[n] = "running" /\ hands[n] = SetKey
    /\ \E a \in SetAnswers :
         IF a # "accepted" /\ tries[n] < SetRetries
         THEN /\ hands' = [hands EXCEPT ![n] = Pause]
              /\ tries' = [tries EXCEPT ![n] = @ + 1]
              /\ UNCHANGED awaiting
         ELSE Finishes(n, SetKey) /\ tries' = [tries EXCEPT ![n] = 0]
    /\ UNCHANGED <<speaks, entryVars, refreshVars, client, worker, queue, misled>>

RetryQueued(n) ==
    /\ worker[n] = "running" /\ hands[n] = Pause
    /\ hands' = [hands EXCEPT ![n] = Idle]
    /\ queue' = [queue EXCEPT ![n] = @ \cup {SetKey}]
    /\ UNCHANGED <<speaks, entryVars, refreshVars, client, worker, awaiting,
                   tries, misled>>

(***************************************************************************)
(* The first refresh ends at the first connection error (its other fetches *)
(* go on, gather does not cancel them), or when every group is through.    *)
(* Then at least one group must have been fetched.  UpdateFailed is not    *)
(* the ConfigEntryNotReady that async_setup_entry expects: the set-up      *)
(* fails without stopping its worker.                                      *)
(***************************************************************************)
\* Fault variant of FirstRefreshFails: only connection errors count.
FirstRefreshBreaks ==
    /\ entry = "refreshing" /\ broken
    /\ entry' = "setup_error" /\ fetched' = FALSE /\ broken' = FALSE
    /\ UNCHANGED <<speaks, address, setups, saved, used, reloads, workVars>>

FirstRefreshFails ==
    /\ entry = "refreshing"
    /\ broken \/ (awaiting[setups] = {} /\ ~fetched)
    /\ entry' = "setup_error" /\ fetched' = FALSE /\ broken' = FALSE
    /\ UNCHANGED <<speaks, address, setups, saved, used, reloads, workVars>>

FirstRefreshSucceeds ==
    /\ entry = "refreshing" /\ ~broken /\ awaiting[setups] = {} /\ fetched
    /\ entry' = "adding" /\ fetched' = FALSE
    /\ UNCHANGED <<speaks, address, setups, saved, used, reloads, broken,
                   workVars>>

\* The platforms are set up, and only now does the update listener exist.
SetUpEnds ==
    /\ entry = "adding"
    /\ entry' = "loaded"
    /\ UNCHANGED <<speaks, address, setups, saved, used, reloads, refreshVars,
                   workVars>>

\* A polling cycle or an entity submits a request; one that is there is shared.
Submit(k) ==
    /\ entry \in Live /\ k \notin awaiting[setups]
    /\ queue' = [queue EXCEPT ![setups] = @ \cup {k}]
    /\ awaiting' = [awaiting EXCEPT ![setups] = @ \cup {k}]
    /\ UNCHANGED <<speaks, entryVars, refreshVars, client, worker, hands, tries,
                   misled>>

(***************************************************************************)
(* New options are stored, and the update listener, which lives from the   *)
(* end of the set-up to the end of the unload, asks for a reload.  What is *)
(* saved while a set-up is under way waits for the next reload.            *)
(***************************************************************************)
Listens == entry \in Live \ {"adding"}

SaveOptions ==
    /\ entry \notin {"absent", "removed"} /\ saved < MaxSaves
    /\ saved' = saved + 1
    /\ IF Listens THEN RoomForSetUp /\ reloads' = reloads + 1
                  ELSE UNCHANGED reloads
    /\ UNCHANGED <<speaks, address, entry, setups, used, refreshVars, workVars>>

(***************************************************************************)
(* A reload unloads what is loaded; a failed set-up has nothing to unload, *)
(* and its worker stays.  After a failed unload, or without the entry,     *)
(* Home Assistant refuses.                                                 *)
(***************************************************************************)
Reload == \/ entry = "loaded" /\ entry' = "unloading"
          \/ entry = "setup_error" /\ entry' = "not_loaded"

ListenerReloads ==
    /\ reloads > 0
    /\ reloads' = reloads - 1
    /\ \/ Reload
       \/ entry \in {"failed_unload", "removed"} /\ UNCHANGED entry
    /\ UNCHANGED <<speaks, address, setups, saved, used, refreshVars, workVars>>

UserReloads ==
    /\ RoomForSetUp /\ Reload
    /\ UNCHANGED <<speaks, address, setups, saved, used, reloads, refreshVars,
                   workVars>>

\* Removing an entry unloads it first.
UserRemoves ==
    /\ \/ entry = "loaded" /\ entry' = "removing"
       \/ entry = "setup_error" /\ entry' = "removed"
    /\ UNCHANGED <<speaks, address, setups, saved, used, reloads, refreshVars,
                   workVars>>

UnloadRefused ==
    /\ entry \in {"unloading", "removing"}
    /\ entry' = "failed_unload"
    /\ UNCHANGED <<speaks, address, setups, saved, used, reloads, refreshVars,
                   workVars>>

(***************************************************************************)
(* async_stop: the worker is cancelled in the middle of a call or a pause, *)
(* and the futures of the queued requests get a CancelledError; that of    *)
(* the request in its hands is never done.  Then Home Assistant cancels    *)
(* the other background tasks of the entry, the workers of failed set-ups. *)
(***************************************************************************)
Cancelled(n) ==
    IF worker[n] # "running" THEN worker[n]
    ELSE IF n = setups THEN "stopped" ELSE "cancelled"

Unloaded == \/ entry = "unloading" /\ entry' = "not_loaded"
            \/ entry = "removing" /\ entry' = "removed"

\* Nobody uses the clients of set-ups whose workers are gone.
ForgetClients ==
    /\ client' = [n \in SetUps |-> NewClient]
    /\ tries' = [n \in SetUps |-> 0]
    /\ misled' = [n \in SetUps |-> FALSE]

\* Fault variant of Unload: the queue is emptied without a word to its futures.
UnloadSilently ==
    /\ Unloaded
    /\ worker' = [n \in SetUps |-> Cancelled(n)]
    /\ hands' = [n \in SetUps |-> Idle]
    /\ queue' = [queue EXCEPT ![setups] = {}]
    /\ UNCHANGED <<speaks, address, setups, saved, used, reloads, refreshVars,
                   client, awaiting, tries, misled>>

\* Fault variant of Unload: the worker is gone, its request looks under way.
UnloadInMidCall ==
    /\ Unloaded
    /\ worker' = [n \in SetUps |-> Cancelled(n)]
    /\ queue' = [queue EXCEPT ![setups] = {}]
    /\ awaiting' = [awaiting EXCEPT ![setups] = @ \ queue[setups]]
    /\ UNCHANGED <<speaks, address, setups, saved, used, reloads, refreshVars,
                   client, hands, tries, misled>>

Unload ==
    /\ Unloaded
    /\ worker' = [n \in SetUps |-> Cancelled(n)]
    /\ hands' = [n \in SetUps |-> Idle]
    /\ queue' = [queue EXCEPT ![setups] = {}]
    /\ awaiting' = [awaiting EXCEPT ![setups] = @ \ queue[setups]]
    /\ UNCHANGED <<speaks, address, setups, saved, used, reloads, refreshVars>>
    /\ ForgetClients

\* Home Assistant stops or crashes at any moment: only the entry survives.
Restart ==
    /\ entry \notin {"absent", "not_loaded", "removed"} /\ RoomForSetUp
    /\ entry' = "not_loaded" /\ reloads' = 0
    /\ fetched' = FALSE /\ broken' = FALSE
    /\ worker' = [n \in SetUps |-> "none"]
    /\ hands' = [n \in SetUps |-> Idle]
    /\ queue' = [n \in SetUps |-> {}]
    /\ awaiting' = [n \in SetUps |-> {}]
    /\ ForgetClients
    /\ UNCHANGED <<speaks, address, setups, saved, used>>

Works(n) ==
    \/ WorkerTakes(n)
    \/ \E k \in Groups : GetAnswered(n, k)
    \/ SetAnswered(n)
    \/ RetryQueued(n)

Next ==
    \/ AddEntry \/ SetUp \/ FirstRefreshFails \/ FirstRefreshSucceeds \/ SetUpEnds
    \/ \E n \in SetUps : Works(n)
    \/ \E k \in Keys : Submit(k)
    \/ SaveOptions \/ ListenerReloads \/ UserReloads \/ UserRemoves
    \/ UnloadRefused \/ Unload \/ Restart

(***************************************************************************)
(* Every call ends, at the latest by its timeout, the event loop runs      *)
(* every task, and Home Assistant goes on with a set-up, an unload or a    *)
(* reload it has begun.  Nobody has to submit, save, reload or restart.    *)
(***************************************************************************)
Spec == Init /\ [][Next]_vars

FairSpec ==
    /\ Spec
    /\ \A n \in SetUps : WF_vars(Works(n))
    /\ WF_vars(SetUp) /\ WF_vars(SetUpEnds)
    /\ WF_vars(FirstRefreshFails) /\ WF_vars(FirstRefreshSucceeds)
    /\ WF_vars(ListenerReloads) /\ WF_vars(Unload \/ UnloadRefused)
-----------------------------------------------------------------------------
InHands(n) == IF hands[n] = Idle THEN {}
              ELSE IF hands[n] = Pause THEN {SetKey} ELSE {hands[n]}

(***************************************************************************)
(* Types; what is under way is under way in a worker that runs; and no     *)
(* set-up has begun that has not been counted.                             *)
(***************************************************************************)
LifecycleTypeOK ==
    /\ speaks \in Protocols /\ address \in Typed \cup {NoUrl}
    /\ entry \in Live \cup {"absent", "not_loaded", "refreshing", "setup_error",
                        "removed"}
    /\ setups \in 0..MaxSetUps
    /\ saved \in 0..MaxSaves /\ reloads \in Nat
    /\ used \in [Followed -> 0..saved]
    /\ setups + SetUpsAhead <= MaxSetUps
    /\ fetched \in BOOLEAN /\ broken \in BOOLEAN
    /\ client \in [SetUps -> Client]
    /\ worker \in [SetUps -> {"none", "running", "stopped", "cancelled"}]
    /\ hands \in [SetUps -> Keys \cup {Idle, Pause}]
    /\ queue \in [SetUps -> SUBSET Keys] /\ awaiting \in [SetUps -> SUBSET Keys]
    /\ tries \in [SetUps -> 0..SetRetries] /\ misled \in [SetUps -> BOOLEAN]
    /\ \A n \in SetUps : hands[n] # Idle => worker[n] = "running"
    /\ \A n \in SetUps : n > setups => worker[n] = "none"

(***************************************************************************)
(* Whoever awaits a request is served: it is queued or in the hands of a   *)
(* worker that runs, and that of the current set-up does run.  An unload   *)
(* answers every queued request and loses one at most, the one it caught   *)
(* under way.  Nobody awaits the requests of a failed set-up whose worker  *)
(* Home Assistant has cancelled but its own fetches (stop, _drain_queue).  *)
(***************************************************************************)
RequestsAccounted ==
    /\ entry \in Live \cup {"refreshing"} => worker[setups] = "running"
    /\ \A n \in SetUps :
         /\ worker[n] = "running" => /\ awaiting[n] = queue[n] \cup InHands(n)
                                     /\ queue[n] \cap InHands(n) = {}
         /\ worker[n] = "stopped" =>
              queue[n] = {} /\ \A j, k \in awaiting[n] : j = k
         /\ worker[n] = "cancelled" =>
              /\ queue[n] \subseteq awaiting[n]
              /\ \A j, k \in awaiting[n] \ queue[n] : j = k

(***************************************************************************)
(* A client only ever speaks the legacy protocol to a legacy boiler, and   *)
(* it speaks the boiler's protocol once the discovery is over, unless some *)
(* other JSON has ended it (async_get_nodes_data).                         *)
(***************************************************************************)
ProtocolFits ==
    \A n \in SetUps :
      /\ client[n].protocol = "V1" => speaks = "V1"
      /\ client[n].discovered /\ ~misled[n] => client[n].protocol = speaks

(***************************************************************************)
(* Whatever the user submits, with whatever options the entry has by then, *)
(* is what the form shows the next time (_flatten_section_data,            *)
(* async_step_init, _async_finish_flow).                                   *)
(***************************************************************************)
FormsKeep == \A options \in StoredOptions, form \in Forms : FormKeeps(options, form)
FormRoundTrip == saved > 0 => FormsKeep

\* The first refresh ends, however its calls end (async_config_entry_first_refresh).
SetUpDecides == entry = "refreshing" ~> entry # "refreshing"

(***************************************************************************)
(* The worker that a failed set-up leaves behind falls silent for good: it *)
(* does not load the boiler beside the workers of later set-ups.           *)
(***************************************************************************)
OrphansFallSilent ==
    \A n \in SetUps :
      (entry = "setup_error" /\ setups = n)
        ~> [](hands[n] = Idle /\ (worker[n] = "running" => queue[n] = {}))

(***************************************************************************)
(* Options for which the update listener has asked for a reload are read   *)
(* by a set-up, unless a platform refuses to unload or the entry goes.     *)
(* Only of those that a set-up reads at all: a new interval of a polling   *)
(* group, for one, never gets into the program (scan_intervals).           *)
(***************************************************************************)
SavedOptionsUsed ==
    \A n \in 1..MaxSaves, k \in Followed \cap ReadAtSetUp :
      (entry = "loaded" /\ reloads > 0 /\ saved = n)
        ~> (used[k] >= n \/ entry \in {"failed_unload", "removing", "removed"})
=============================================================================
