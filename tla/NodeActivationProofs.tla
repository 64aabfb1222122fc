------------------------ MODULE NodeActivationProofs ------------------------
(***************************************************************************)
(* Theorems about NodeActivation, for any entities, nodes, component       *)
(* groups and options: the inductive invariant ActivationInv, and with it  *)
(* the properties of the module.                                           *)
(***************************************************************************)
EXTENDS NodeActivation, TLAPS

\* The initial states satisfy the invariant.
LEMMA InitInv == ActivationInit => ActivationInv
BY ActivationAssumption
   DEF ActivationInit, ActivationInv, ActivationTypeOK, LoadedOnce, RegistryCovered, NodesHeld,
       EntitiesFollowOptions, Enabled

\* What the synchronisation leaves: entries of the right kind that agree with
\* the options, no entity loaded that it has disabled, and, if it has not
\* called for a reload, nothing enabled that was not.
LEMMA SyncFacts ==
    ASSUME NEW opts \in SUBSET (Groups \cup Puffer), ActivationInv, SyncEntities(opts)
    PROVE  /\ entry' \in [Entities -> {"none", "enabled", "user", "integration"}]
           /\ reload' \in BOOLEAN
           /\ loaded' \subseteq loaded /\ loaded' \subseteq Enabled'
           /\ reload => reload'
           /\ ~reload' => Enabled' \subseteq Enabled
           /\ \A e \in Entities : entry[e] = "none" <=> entry'[e] = "none"
           /\ \A e \in Entities : entry[e] = "user" <=> entry'[e] = "user"
           /\ \A e \in Managed :
                 /\ entry'[e] = "enabled" => Wanted(e, opts)
                 /\ entry'[e] = "integration" => ~Wanted(e, opts)
<1> USE ActivationAssumption
<1>1. /\ entry \in [Entities -> {"none", "enabled", "user", "integration"}]
      /\ reload \in BOOLEAN /\ loaded \subseteq Enabled
  BY DEF ActivationInv, ActivationTypeOK
<1>2. /\ Managed \subseteq Entities
      /\ Enables(opts) \subseteq Managed /\ Disables(opts) \subseteq Managed
  BY DEF Managed, Enables, Disables
<1>3. \A e \in Entities :
         entry'[e] = IF e \in Enables(opts) THEN "enabled"
                     ELSE IF e \in Disables(opts) THEN "integration" ELSE entry[e]
  BY DEF SyncEntities
<1>4. entry' \in [Entities -> {"none", "enabled", "user", "integration"}]
  BY <1>1 DEF SyncEntities
<1>5. \A e \in Entities : (entry[e] = "none" <=> entry'[e] = "none")
                          /\ (entry[e] = "user" <=> entry'[e] = "user")
  BY <1>3 DEF Enables, Disables
<1>6. loaded' \subseteq loaded /\ loaded' \subseteq Enabled'
  BY <1>1, <1>3 DEF SyncEntities, Enabled, Enables
<1>7. reload' \in BOOLEAN /\ (reload => reload')
  BY <1>1 DEF SyncEntities
<1>8. ~reload' => Enabled' \subseteq Enabled
  BY <1>1, <1>3 DEF SyncEntities, Enabled
<1>9. \A e \in Managed : /\ entry'[e] = "enabled" => Wanted(e, opts)
                         /\ entry'[e] = "integration" => ~Wanted(e, opts)
  BY <1>2, <1>3 DEF Enables, Disables
<1> QED
  BY <1>4, <1>5, <1>6, <1>7, <1>8, <1>9

-----------------------------------------------------------------------------
(* Set-up                                                                  *)

\* async_setup_entry: the registry's enabled entities are active before the
\* first payloads are made.
LEMMA SetUpInv == ActivationInv /\ SetUp => ActivationInv'
<1> SUFFICES ASSUME ActivationInv, SetUp PROVE ActivationInv'
  OBVIOUS
<1> USE ActivationAssumption DEF ActivationInv, SetUp
<1>1. /\ defs' \subseteq Entities /\ loaded = {} /\ toAdd = {}
      /\ active' \subseteq Nodes /\ asked' \subseteq Nodes
  BY DEF ActivationTypeOK, LoadedOnce, Defined, DefaultActive, RegistryActive, Payload, NodesOf
<1>2. ActivationTypeOK'
  BY <1>1 DEF ActivationTypeOK, Enabled
<1>3. LoadedOnce'
  BY <1>1 DEF LoadedOnce
<1>4. RegistryCovered'
  <2>1. \A e \in defs' \cap Enabled : NodeOf[e] \in active' /\ NodeOf[e] \in NodesOf(defs')
    BY DEF RegistryActive, NodesOf
  <2> QED
    BY <2>1 DEF RegistryCovered, Payload, Enabled
<1>5. NodesHeld' /\ EntitiesFollowOptions'
  BY <1>1 DEF NodesHeld, EntitiesFollowOptions
<1> QED
  BY <1>2, <1>3, <1>4, <1>5

\* The end of the first refresh, either way.
LEMMA FirstRefreshInv ==
    ActivationInv /\ (FirstRefreshSucceeds \/ FirstRefreshFails) => ActivationInv'
BY DEF ActivationInv, FirstRefreshSucceeds, FirstRefreshFails, ActivationTypeOK, LoadedOnce,
       RegistryCovered, NodesHeld, EntitiesFollowOptions, Enabled

\* async_added_to_hass: a new entry is fresh, and an entity that loads holds its
\* node.
LEMMA EntityAddedInv ==
    ASSUME NEW e \in Entities, ActivationInv, EntityAdded(e)
    PROVE  ActivationInv'
<1> USE ActivationAssumption DEF ActivationInv
<1>1. /\ e \in defs /\ phase = "adding" /\ phase' = "adding" /\ e \notin loaded
      /\ entry'[e] \in {"enabled", "user", "integration"}
      /\ \A d \in Entities \ {e} : entry'[d] = entry[d]
      /\ entry[e] # "none" => entry'[e] = entry[e]
      /\ entry' \in [Entities -> {"none", "enabled", "user", "integration"}]
  BY DEF EntityAdded, ActivationTypeOK, LoadedOnce
<1>2. ActivationTypeOK'
  BY <1>1 DEF ActivationTypeOK, EntityAdded, Enabled
<1>3. LoadedOnce'
  BY <1>1 DEF LoadedOnce, EntityAdded
<1>4. RegistryCovered'
  BY <1>1 DEF RegistryCovered, EntityAdded, Enabled
<1>5. NodesHeld'
  <2> SUFFICES ASSUME NEW d \in loaded', NodeOf[d] \notin active'
               PROVE  \E c \in Entities \ {d} :
                         NodeOf[c] = NodeOf[d] /\ entry'[c] = "none" /\ c \notin toAdd'
    BY DEF NodesHeld
  <2>1. d # e /\ d \in loaded /\ NodeOf[d] \notin active
    BY <1>1 DEF EntityAdded
  <2>2. PICK c \in Entities \ {d} : NodeOf[c] = NodeOf[d] /\ entry[c] = "none" /\ c \notin toAdd
    BY <2>1 DEF NodesHeld
  <2> QED
    BY <2>2, <1>1 DEF EntityAdded
<1>6. EntitiesFollowOptions'
  BY <1>1 DEF EntitiesFollowOptions
<1> QED
  BY <1>2, <1>3, <1>4, <1>5, <1>6

\* A synchronisation removes no entry and loads nothing: nodes stay held.
LEMMA SyncKeepsNodes ==
    ASSUME NEW opts \in SUBSET (Groups \cup Puffer), ActivationInv, SyncEntities(opts),
           UNCHANGED <<active, toAdd>>
    PROVE  NodesHeld'
<1> SUFFICES ASSUME NEW d \in loaded', NodeOf[d] \notin active
             PROVE  \E c \in Entities \ {d} :
                       NodeOf[c] = NodeOf[d] /\ entry'[c] = "none" /\ c \notin toAdd
  BY DEF NodesHeld
<1>1. d \in loaded
  BY SyncFacts
<1>2. PICK c \in Entities \ {d} : NodeOf[c] = NodeOf[d] /\ entry[c] = "none" /\ c \notin toAdd
  BY <1>1 DEF ActivationInv, NodesHeld
<1> QED
  BY <1>2, SyncFacts

\* The end of async_setup_entry with its synchronisation.
LEMMA SetUpEndsInv == ActivationInv /\ SetUpEnds => ActivationInv'
<1> SUFFICES ASSUME ActivationInv, SetUpEnds PROVE ActivationInv'
  OBVIOUS
<1>1. /\ options \in SUBSET (Groups \cup Puffer) /\ SyncEntities(options)
      /\ options' = options /\ phase = "adding" /\ phase' = "loaded"
      /\ UNCHANGED <<defs, active, toAdd, fresh, asked>>
      /\ toAdd = {} /\ builtWith' = {}
  BY DEF SetUpEnds, ActivationInv, ActivationTypeOK
<1>2. ActivationTypeOK'
  BY <1>1, SyncFacts DEF ActivationInv, ActivationTypeOK
<1>3. LoadedOnce'
  BY <1>1 DEF LoadedOnce
<1>4. RegistryCovered'
  <2>1. ~reload' => Enabled' \subseteq Enabled /\ ~reload
    BY <1>1, SyncFacts
  <2> QED
    BY <1>1, <2>1 DEF ActivationInv, RegistryCovered
<1>5. NodesHeld'
  BY <1>1, SyncKeepsNodes
<1>6. EntitiesFollowOptions'
  <2>1. \A e \in Managed : /\ entry'[e] = "enabled" => Wanted(e, options)
                           /\ entry'[e] = "integration" => ~Wanted(e, options)
    BY <1>1, SyncFacts
  <2> QED
    BY <1>1, <2>1 DEF EntitiesFollowOptions, Wanted
<1> QED
  BY <1>2, <1>3, <1>4, <1>5, <1>6 DEF ActivationInv

\* async_poll_everything only adds active nodes.
LEMMA PollEverythingInv == ActivationInv /\ PollEverything => ActivationInv'
<1> SUFFICES ASSUME ActivationInv, PollEverything PROVE ActivationInv'
  OBVIOUS
<1>1. active \subseteq active' /\ active' \subseteq Nodes
  BY ActivationAssumption
     DEF PollEverything, ActivationInv, ActivationTypeOK, RegistryActive, NodesOf
<1> QED
  BY <1>1 DEF PollEverything, ActivationInv, ActivationTypeOK, LoadedOnce, RegistryCovered,
              NodesHeld, EntitiesFollowOptions, Enabled, Wanted

-----------------------------------------------------------------------------
(* Unloading and options                                                   *)

\* Reloads of all kinds.
LEMMA UnloadInv ==
    ActivationInv /\ (ScheduledReload \/ UserReloads \/ OptionsReload) => ActivationInv'
BY DEF ActivationInv, ScheduledReload, UserReloads, OptionsReload, Unload, ActivationTypeOK,
       LoadedOnce, RegistryCovered, NodesHeld, EntitiesFollowOptions, Enabled

\* New options, with and without the listener.
LEMMA OptionsChangeInv ==
    ASSUME NEW opts \in SUBSET (Groups \cup Puffer), ActivationInv, OptionsChange(opts)
    PROVE  ActivationInv'
<1>1. CASE phase = "loaded"
  <2>1. /\ SyncEntities(opts) /\ phase' = "reloading" /\ options' = opts /\ toAdd = {}
        /\ UNCHANGED <<defs, active, toAdd, builtWith, fresh, asked>>
    BY <1>1 DEF OptionsChange, ActivationInv, ActivationTypeOK
  <2>2. ActivationTypeOK'
    BY <1>1, <2>1, SyncFacts DEF ActivationInv, ActivationTypeOK
  <2>3. LoadedOnce' /\ RegistryCovered' /\ EntitiesFollowOptions'
    BY <2>1 DEF LoadedOnce, RegistryCovered, EntitiesFollowOptions
  <2>4. NodesHeld'
    BY <2>1, SyncKeepsNodes
  <2> QED
    BY <2>2, <2>3, <2>4 DEF ActivationInv
<1>2. CASE phase # "loaded"
  BY <1>2 DEF OptionsChange, ActivationInv, ActivationTypeOK, LoadedOnce, RegistryCovered,
              NodesHeld, EntitiesFollowOptions, Enabled
<1> QED
  BY <1>1, <1>2

-----------------------------------------------------------------------------
(* The user                                                                *)

\* Enabling an entity in the registry calls for a reload.
LEMMA UserEnablesInv ==
    ASSUME NEW e \in Entities, ActivationInv, UserEnables(e)
    PROVE  ActivationInv'
<1> USE DEF ActivationInv, UserEnables
<1>1. /\ entry' \in [Entities -> {"none", "enabled", "user", "integration"}]
      /\ \A d \in Entities : entry[d] = "none" => entry'[d] = "none"
      /\ Enabled \subseteq Enabled'
  BY DEF ActivationTypeOK, Enabled
<1>2. ActivationTypeOK'
  BY <1>1 DEF ActivationTypeOK
<1>3. LoadedOnce' /\ RegistryCovered' /\ EntitiesFollowOptions'
  BY DEF LoadedOnce, RegistryCovered, EntitiesFollowOptions
<1>4. NodesHeld'
  BY <1>1 DEF NodesHeld
<1> QED
  BY <1>2, <1>3, <1>4

\* Disabling one leaves its node active.
LEMMA UserDisablesInv ==
    ASSUME NEW e \in Entities, ActivationInv, UserDisables(e)
    PROVE  ActivationInv'
<1> USE DEF ActivationInv, UserDisables
<1>1. /\ entry' \in [Entities -> {"none", "enabled", "user", "integration"}]
      /\ \A d \in Entities : entry[d] = "none" => entry'[d] = "none"
      /\ Enabled' = Enabled \ {e}
      /\ \A d \in Entities \ {e} : entry'[d] = entry[d]
      /\ entry'[e] = "user"
  BY DEF ActivationTypeOK, Enabled
<1>2. ActivationTypeOK'
  BY <1>1 DEF ActivationTypeOK
<1>3. LoadedOnce' /\ RegistryCovered'
  BY <1>1 DEF LoadedOnce, RegistryCovered
<1>4. EntitiesFollowOptions'
  BY <1>1, ActivationAssumption DEF EntitiesFollowOptions, Managed, Wanted
<1>5. NodesHeld'
  BY <1>1 DEF NodesHeld
<1> QED
  BY <1>2, <1>3, <1>4, <1>5

\* Removing one may take the node of another away, and is then the reason.
LEMMA UserRemovesInv ==
    ASSUME NEW e \in Entities, ActivationInv, UserRemoves(e)
    PROVE  ActivationInv'
<1> USE DEF ActivationInv, UserRemoves
<1>1. /\ entry' \in [Entities -> {"none", "enabled", "user", "integration"}]
      /\ entry'[e] = "none"
      /\ \A d \in Entities \ {e} : entry'[d] = entry[d]
      /\ Enabled' = Enabled \ {e}
  BY DEF ActivationTypeOK, Enabled
<1>2. ActivationTypeOK'
  BY <1>1 DEF ActivationTypeOK
<1>3. LoadedOnce' /\ RegistryCovered'
  BY <1>1 DEF LoadedOnce, RegistryCovered
<1>4. EntitiesFollowOptions'
  BY <1>1, ActivationAssumption DEF EntitiesFollowOptions, Managed, Wanted
<1>5. NodesHeld'
  <2> SUFFICES ASSUME NEW d \in loaded', NodeOf[d] \notin active'
               PROVE  \E c \in Entities \ {d} :
                         NodeOf[c] = NodeOf[d] /\ entry'[c] = "none" /\ c \notin toAdd
    BY DEF NodesHeld
  <2>1. d \in loaded /\ d # e
    OBVIOUS
  <2>2. CASE NodeOf[d] \in active
    <3>1. e \in loaded /\ NodeOf[e] = NodeOf[d] /\ e \notin toAdd
      BY <2>2 DEF LoadedOnce
    <3> QED
      BY <3>1, <2>1, <1>1
  <2>3. CASE NodeOf[d] \notin active
    <3>1. PICK c \in Entities \ {d} : NodeOf[c] = NodeOf[d] /\ entry[c] = "none" /\ c \notin toAdd
      BY <2>1, <2>3 DEF NodesHeld
    <3> QED
      BY <3>1, <1>1
  <2> QED
    BY <2>2, <2>3
<1> QED
  BY <1>2, <1>3, <1>4, <1>5

\* Editing one only adds its node.
LEMMA UserEditsInv ==
    ASSUME NEW e \in Entities, ActivationInv, UserEdits(e)
    PROVE  ActivationInv'
<1>1. active \subseteq active' /\ active' \subseteq Nodes
  BY ActivationAssumption DEF UserEdits, ActivationInv, ActivationTypeOK
<1>2. UNCHANGED <<phase, options, entry, reload, defs, toAdd, builtWith, loaded, fresh, asked>>
  BY DEF UserEdits
<1>3. e \in loaded
  BY DEF UserEdits
<1>4. phase \notin {"unloaded", "failed"}
  BY <1>3 DEF ActivationInv, LoadedOnce
<1> QED
  BY <1>1, <1>2, <1>4 DEF ActivationInv, ActivationTypeOK, LoadedOnce, RegistryCovered,
              NodesHeld, EntitiesFollowOptions, Enabled, Wanted

-----------------------------------------------------------------------------
(* The theorems                                                            *)

\* Every step keeps the invariant.
LEMMA StepInv == ActivationInv /\ [ActivationNext]_activationVars => ActivationInv'
<1> SUFFICES ASSUME ActivationInv, [ActivationNext]_activationVars PROVE ActivationInv'
  OBVIOUS
<1>1. CASE UNCHANGED activationVars
  BY <1>1 DEF activationVars, ActivationInv, ActivationTypeOK, LoadedOnce, RegistryCovered,
              NodesHeld, EntitiesFollowOptions, Enabled, Wanted
<1>2. CASE ActivationNext
  BY <1>2, SetUpInv, FirstRefreshInv, EntityAddedInv, SetUpEndsInv, PollEverythingInv,
     UnloadInv, OptionsChangeInv, UserEnablesInv, UserDisablesInv,
     UserRemovesInv, UserEditsInv DEF ActivationNext
<1> QED
  BY <1>1, <1>2

\* The inductive invariant of node activation, through any order of set-ups,
\* reloads, changed options and changes in the entity registry.
THEOREM ActivationInvariant == ActivationSpec => []ActivationInv
BY InitInv, StepInv, PTL DEF ActivationSpec

\* Only enabled and defined entities are loaded, and nothing of the coordinator
\* outlives the unloading of the entry.
THEOREM ActivationTypes == ActivationSpec => []ActivationTypeOK
<1>1. ActivationInv => ActivationTypeOK
  BY DEF ActivationInv
<1> QED
  BY <1>1, ActivationInvariant, PTL

\* The node of an enabled entity is polled, unless the removal of another
\* entity of that node has taken it away (register_node, unregister_node).
THEOREM EnabledArePolled == ActivationSpec => []EnabledEntitiesPolled
<1>1. ActivationInv => EnabledEntitiesPolled
  BY DEF ActivationInv, NodesHeld, EnabledEntitiesPolled
<1> QED
  BY <1>1, ActivationInvariant, PTL

\* The first refresh asks for the nodes of all entities that the registry had
\* enabled before (_sync_active_nodes_from_registry).
THEOREM RegistryIsCovered == ActivationSpec => []FirstRefreshCoversRegistry
<1>1. ActivationInv => FirstRefreshCoversRegistry
  BY DEF ActivationInv, ActivationTypeOK, RegistryCovered, FirstRefreshCoversRegistry
<1> QED
  BY <1>1, ActivationInvariant, PTL

\* In a settled entry the registry agrees with the options.
THEOREM OptionsAreFollowed == ActivationSpec => []EntitiesFollowOptions
<1>1. ActivationInv => EntitiesFollowOptions
  BY DEF ActivationInv
<1> QED
  BY <1>1, ActivationInvariant, PTL

\* No set-up and no synchronisation undoes what the user has disabled.
THEOREM UsersDisablingStays == ActivationSpec => UserChoiceKept
<1>1. ActivationInv /\ [ActivationNext]_activationVars =>
         [\A e \in Entities : entry[e] = "user" /\ entry'[e] # "user" =>
             UserEnables(e) \/ UserRemoves(e)]_activationVars
  <2> SUFFICES ASSUME ActivationInv, ActivationNext, NEW e \in Entities,
                      entry[e] = "user", entry'[e] # "user"
               PROVE  UserEnables(e) \/ UserRemoves(e)
    OBVIOUS
  <2>1. entry \in [Entities -> {"none", "enabled", "user", "integration"}]
    BY DEF ActivationInv, ActivationTypeOK
  <2>2. ASSUME NEW opts \in SUBSET (Groups \cup Puffer), SyncEntities(opts) PROVE FALSE
    BY <2>2, SyncFacts
  <2>3. ~SetUpEnds
    <3>1. options \in SUBSET (Groups \cup Puffer)
      BY DEF ActivationInv, ActivationTypeOK
    <3> QED
      BY <3>1, <2>2 DEF SetUpEnds
  <2>4. \A opts \in SUBSET (Groups \cup Puffer) : ~OptionsChange(opts)
    BY <2>2 DEF OptionsChange
  <2>5. ~(SetUp \/ FirstRefreshSucceeds \/ FirstRefreshFails \/ ScheduledReload \/ UserReloads
             \/ OptionsReload \/ PollEverything)
    BY DEF SetUp, PollEverything, FirstRefreshSucceeds, FirstRefreshFails, ScheduledReload, UserReloads,
           OptionsReload, Unload
  <2>6. \A d \in Entities : ~EntityAdded(d) /\ ~UserDisables(d) /\ ~UserEdits(d)
    BY <2>1 DEF EntityAdded, UserDisables, UserEdits
  <2>7. PICK d \in Entities : UserEnables(d) \/ UserRemoves(d)
    BY <2>3, <2>4, <2>5, <2>6 DEF ActivationNext
  <2>8. d = e
    BY <2>1, <2>7 DEF UserEnables, UserRemoves
  <2> QED
    BY <2>7, <2>8
<1> QED
  BY <1>1, ActivationInvariant, PTL DEF ActivationSpec, UserChoiceKept

=============================================================================
