--------------------------- MODULE NodeActivation ---------------------------
(***************************************************************************)
(* Which nodes of the boiler are polled: the entities of the integration,  *)
(* their entries in Home Assistant's entity registry, and the coordinator's *)
(* set of active nodes, through set-up, changes of options, reloads and    *)
(* what the user does in the registry meanwhile.                           *)
(*                                                                         *)
(* An entity of a component group (HK2, solar, storage, ...) follows its   *)
(* group's option; a buffer sensor exists only when its node is configured; *)
(* every other entity has a default.  Several entities may show one node.  *)
(*                                                                         *)
(* Home Assistant, outside the source, is modelled as the source uses it:  *)
(* an entity disabled or removed in the registry leaves at once, one that  *)
(* is enabled there appears with a reload some time later.  A disabled     *)
(* entity knows that it is disabled when it leaves, so HdgNodeEntity does  *)
(* not unregister its node.                                                *)
(***************************************************************************)
EXTENDS Naturals

CONSTANTS
    Entities, Nodes,
    Groups,             \* component groups
    NodeOf,             \* the node an entity shows
    GroupOf,            \* the component group of an entity, or NoGroup
    NoGroup,
    Puffer,             \* the buffer sensors whose node is an option
    EnabledFlag         \* entities whose entity_registry_enabled_default is True

ASSUME ActivationAssumption ==
    /\ NodeOf \in [Entities -> Nodes]
    /\ NoGroup \notin Groups
    /\ GroupOf \in [Entities -> Groups \cup {NoGroup}]
    /\ Puffer \subseteq Entities /\ EnabledFlag \subseteq Entities
    /\ Puffer \cap Groups = {}
    /\ \A e \in Puffer : GroupOf[e] = NoGroup /\ e \in EnabledFlag

VARIABLES
    phase,      \* of the config entry
    options,    \* component groups switched on, buffer sensors configured
    entry,      \* by entity: its registry entry ("none", "enabled", or who disabled it)
    reload,     \* Home Assistant will reload the config entry
    defs,       \* the definitions of HdgEntityRegistry
    active,     \* coordinator._active_node_ids
    toAdd,      \* entities that the platforms still have to add
    builtWith,  \* the options these entities were made with
    loaded,     \* entities added to Home Assistant
    fresh,      \* entities whose registry entry this set-up has created
    asked       \* nodes in the payloads of the first refresh

activationVars == <<phase, options, entry, reload, defs, active, toAdd, builtWith, loaded, fresh, asked>>

NodesOf(es) == {NodeOf[e] : e \in es}
Enabled == {e \in Entities : entry[e] = "enabled"}

\* get_sensor_definitions
Defined(opts) == (Entities \ Puffer) \cup (Puffer \cap opts)

\* get_default_active_node_ids: by the flag of the definition alone
DefaultActive(ds) == NodesOf(ds \cap EnabledFlag)

\* _sync_active_nodes_from_registry
RegistryActive(ds) == NodesOf(ds \cap Enabled)

\* get_optimized_payload_for_group, over all groups
Payload(ds, nodes) == NodesOf(ds) \cap nodes

\* HdgNodeEntity.__init__: what a new registry entry starts with
EnabledDefault(e) == IF GroupOf[e] = NoGroup THEN e \in EnabledFlag ELSE GroupOf[e] \in builtWith

-----------------------------------------------------------------------------
(* The synchronisation of registry entries with the options                *)

Managed == Puffer \cup {e \in Entities : GroupOf[e] # NoGroup}
Wanted(e, opts) == IF e \in Puffer THEN e \in opts ELSE GroupOf[e] \in opts

\* Fault variant: enables whatever is disabled, by whomever
EnablesAnyDisabled(opts) == {e \in Managed : Wanted(e, opts) /\ entry[e] \in {"integration", "user"}}

\* async_sync_entities_by_key, for component groups and for buffer sensors:
\* it only undoes its own disabling.
Enables(opts) == {e \in Managed : Wanted(e, opts) /\ entry[e] = "integration"}
Disables(opts) == {e \in Managed : ~Wanted(e, opts) /\ entry[e] = "enabled"}

\* Home Assistant's part: what is disabled leaves, what is enabled calls for a reload
SyncEntities(opts) ==
    /\ entry' = [e \in Entities |->
                    IF e \in Enables(opts) THEN "enabled"
                    ELSE IF e \in Disables(opts) THEN "integration" ELSE entry[e]]
    /\ loaded' = loaded \ Disables(opts)
    /\ reload' = (reload \/ Enables(opts) # {})

-----------------------------------------------------------------------------
(* Set-up                                                                  *)

ActivationInit ==
    /\ phase = "unloaded" /\ reload = FALSE
    /\ options \in SUBSET (Groups \cup Puffer)
    /\ entry = [e \in Entities |-> "none"]
    /\ defs = {} /\ active = {} /\ toAdd = {} /\ builtWith = {} /\ loaded = {} /\ fresh = {} /\ asked = {}

\* Fault variant: without _sync_active_nodes_from_registry
SetUpByDefault ==
    /\ phase = "unloaded"
    /\ phase' = "refreshing"
    /\ defs' = Defined(options)
    /\ active' = DefaultActive(defs')
    /\ asked' = Payload(defs', active')
    /\ fresh' = {}
    /\ UNCHANGED <<options, entry, reload, toAdd, builtWith, loaded>>

\* async_setup_entry up to the first refresh: definitions, coordinator, active
\* nodes.  The payloads are made when the refresh starts.
SetUp ==
    /\ phase = "unloaded"
    /\ phase' = "refreshing"
    /\ defs' = Defined(options)
    /\ active' = DefaultActive(defs') \cup RegistryActive(defs')
    /\ asked' = Payload(defs', active')
    /\ fresh' = {}
    /\ UNCHANGED <<options, entry, reload, toAdd, builtWith, loaded>>

\* The first refresh succeeds; the platforms get their entities.
FirstRefreshSucceeds ==
    /\ phase = "refreshing"
    /\ phase' = "adding"
    /\ toAdd' = defs /\ builtWith' = options
    /\ UNCHANGED <<options, entry, reload, defs, active, loaded, fresh, asked>>

\* It fails: the set-up ends with an error and the entry waits for a reload.
FirstRefreshFails ==
    /\ phase = "refreshing"
    /\ phase' = "failed"
    /\ active' = {} /\ defs' = {}
    /\ UNCHANGED <<options, entry, reload, toAdd, builtWith, loaded, fresh, asked>>

\* Fault variant: the node is registered only if its flag says so
EntityAddedByFlag(e) ==
    /\ e \in toAdd
    /\ toAdd' = toAdd \ {e}
    /\ entry' = [entry EXCEPT ![e] =
                    IF @ # "none" THEN @
                    ELSE IF EnabledDefault(e) THEN "enabled" ELSE "integration"]
    /\ fresh' = IF entry[e] = "none" THEN fresh \cup {e} ELSE fresh
    /\ loaded' = IF entry'[e] = "enabled" THEN loaded \cup {e} ELSE loaded
    /\ active' = IF e \in EnabledFlag THEN active \cup {NodeOf[e]} ELSE active
    /\ UNCHANGED <<phase, options, builtWith, reload, defs, asked>>

\* A platform adds an entity; async_added_to_hass registers its node.
EntityAdded(e) ==
    /\ e \in toAdd
    /\ toAdd' = toAdd \ {e}
    /\ entry' = [entry EXCEPT ![e] =
                    IF @ # "none" THEN @
                    ELSE IF EnabledDefault(e) THEN "enabled" ELSE "integration"]
    /\ fresh' = IF entry[e] = "none" THEN fresh \cup {e} ELSE fresh
    /\ loaded' = IF entry'[e] = "enabled" THEN loaded \cup {e} ELSE loaded
    /\ active' = IF entry'[e] = "enabled" THEN active \cup {NodeOf[e]} ELSE active
    /\ UNCHANGED <<phase, options, builtWith, reload, defs, asked>>

\* Fault variant: the options are applied only when they change
SetUpEndsWithoutSync ==
    /\ phase = "adding" /\ toAdd = {}
    /\ phase' = "loaded"
    /\ builtWith' = {}
    /\ UNCHANGED <<options, entry, reload, defs, active, toAdd, loaded, fresh, asked>>

\* The end of async_setup_entry: buffer sensors and component groups follow the
\* options, and the listener for their changes is installed.
SetUpEnds ==
    /\ phase = "adding" /\ toAdd = {}
    /\ phase' = "loaded"
    /\ builtWith' = {}
    /\ SyncEntities(options)
    /\ UNCHANGED <<options, defs, active, toAdd, fresh, asked>>

\* The button: async_poll_everything takes in whatever the registry has enabled.
PollEverything ==
    /\ phase \in {"adding", "loaded"}
    /\ active' = active \cup RegistryActive(defs)
    /\ UNCHANGED <<phase, options, entry, reload, defs, toAdd, builtWith, loaded, fresh, asked>>

-----------------------------------------------------------------------------
(* Unloading, reloading, options                                           *)

\* Fault variant: the coordinator stays in hass.data
UnloadKeepingCoordinator ==
    /\ phase' = "unloaded"
    /\ loaded' = {} /\ active' = active \ NodesOf(loaded)
    /\ UNCHANGED <<options, entry, defs, toAdd, builtWith, fresh, asked>>

\* async_unload_entry: every entity leaves and unregisters its node, and the
\* coordinator is dropped.  After a failed set-up there is nothing to unload.
Unload ==
    /\ phase' = "unloaded"
    /\ loaded' = {} /\ active' = {} /\ defs' = {}
    /\ UNCHANGED <<options, entry, toAdd, builtWith, fresh, asked>>

ScheduledReload ==
    /\ reload /\ phase \in {"loaded", "failed"}
    /\ Unload
    /\ reload' = FALSE

UserReloads ==
    /\ phase \in {"loaded", "failed"}
    /\ Unload
    /\ UNCHANGED reload

\* The options flow stores new options.  In a loaded entry the update listener
\* applies them to the registry and reloads the entry.
OptionsChange(opts) ==
    /\ opts # options
    /\ options' = opts
    /\ IF phase = "loaded"
       THEN /\ phase' = "reloading"
            /\ SyncEntities(opts)
       ELSE UNCHANGED <<phase, entry, reload, loaded>>
    /\ UNCHANGED <<defs, active, toAdd, builtWith, fresh, asked>>

OptionsReload ==
    /\ phase = "reloading"
    /\ Unload
    /\ UNCHANGED reload

-----------------------------------------------------------------------------
(* The user in the entity registry                                         *)

UserEnables(e) ==
    /\ entry[e] \in {"user", "integration"}
    /\ entry' = [entry EXCEPT ![e] = "enabled"]
    /\ reload' = TRUE
    /\ UNCHANGED <<phase, options, defs, active, toAdd, builtWith, loaded, fresh, asked>>

\* async_will_remove_from_hass finds the entity disabled: its node stays active.
UserDisables(e) ==
    /\ entry[e] = "enabled"
    /\ entry' = [entry EXCEPT ![e] = "user"]
    /\ loaded' = loaded \ {e}
    /\ UNCHANGED <<phase, options, reload, defs, active, toAdd, builtWith, fresh, asked>>

\* The entity without an entry counts as enabled: its node is unregistered.
UserRemoves(e) ==
    /\ entry[e] # "none"
    /\ entry' = [entry EXCEPT ![e] = "none"]
    /\ loaded' = loaded \ {e}
    /\ active' = IF e \in loaded THEN active \ {NodeOf[e]} ELSE active
    /\ UNCHANGED <<phase, options, reload, defs, toAdd, builtWith, fresh, asked>>

\* Any other change of its registry entry, a new name for instance, registers
\* the node of a loaded entity again.
UserEdits(e) ==
    /\ e \in loaded
    /\ active' = active \cup {NodeOf[e]}
    /\ UNCHANGED <<phase, options, entry, reload, defs, toAdd, builtWith, loaded, fresh, asked>>

-----------------------------------------------------------------------------
ActivationNext ==
    \/ SetUp
    \/ FirstRefreshSucceeds
    \/ FirstRefreshFails
    \/ \E e \in Entities : EntityAdded(e)
    \/ SetUpEnds
    \/ PollEverything
    \/ ScheduledReload
    \/ UserReloads
    \/ \E opts \in SUBSET (Groups \cup Puffer) : OptionsChange(opts)
    \/ OptionsReload
    \/ \E e \in Entities : UserEnables(e)
    \/ \E e \in Entities : UserDisables(e)
    \/ \E e \in Entities : UserRemoves(e)
    \/ \E e \in Entities : UserEdits(e)

ActivationSpec == ActivationInit /\ [][ActivationNext]_activationVars

-----------------------------------------------------------------------------
(* Properties                                                              *)

\* Types, and what belongs to a phase: only enabled, defined entities are
\* loaded, and an unloaded entry leaves no active node behind.
ActivationTypeOK ==
    /\ phase \in {"unloaded", "refreshing", "failed", "adding", "loaded", "reloading"}
    /\ options \subseteq Groups \cup Puffer
    /\ entry \in [Entities -> {"none", "enabled", "user", "integration"}]
    /\ reload \in BOOLEAN
    /\ defs \subseteq Entities /\ toAdd \subseteq defs
    /\ builtWith \subseteq Groups \cup Puffer
    /\ loaded \subseteq defs \cap Enabled
    /\ fresh \subseteq Entities
    /\ active \subseteq Nodes /\ asked \subseteq Nodes
    /\ phase \in {"unloaded", "failed"} => active = {}
    /\ phase # "adding" => toAdd = {}

\* An enabled entity's node is polled, whichever other entities come and go:
\* only the removal of another entity of the same node can take it away, until
\* the next reload, a press of the button or an edit of its registry entry.
EnabledEntitiesPolled ==
    \A e \in loaded :
        NodeOf[e] \in active \/ \E d \in Entities \ {e} : NodeOf[d] = NodeOf[e] /\ entry[d] = "none"

\* coordinator.py:247: an entity that the registry had enabled before this
\* set-up was in the first refresh, which stamps its group for up to a day;
\* later enabling calls for another reload.
FirstRefreshCoversRegistry ==
    phase = "loaded" /\ ~reload => \A e \in loaded \ fresh : NodeOf[e] \in asked

\* The registry agrees with the options once an entry has settled, whenever the
\* options changed, before, during or after the set-up: nothing of a group that
\* is off is enabled, and the integration keeps nothing disabled that is on.
EntitiesFollowOptions ==
    phase = "loaded" /\ ~reload =>
        \A e \in Managed :
            /\ entry[e] = "enabled" => Wanted(e, options)
            /\ entry[e] = "integration" => ~Wanted(e, options)

\* The inductive invariant behind these.  Entities are loaded only from the
\* platforms' set-up on and none twice; the first refresh has covered all that
\* is enabled, loaded or not; the entity whose removal took a node away is not
\* one that is still to be added.
LoadedOnce ==
    /\ phase \in {"unloaded", "refreshing", "failed"} => loaded = {}
    /\ loaded \cap toAdd = {}

RegistryCovered ==
    phase \in {"refreshing", "adding", "loaded"} /\ ~reload =>
        \A e \in (defs \cap Enabled) \ fresh : NodeOf[e] \in asked

NodesHeld ==
    \A e \in loaded :
        \/ NodeOf[e] \in active
        \/ \E d \in Entities \ {e} :
              NodeOf[d] = NodeOf[e] /\ entry[d] = "none" /\ d \notin toAdd

ActivationInv ==
    /\ ActivationTypeOK
    /\ LoadedOnce
    /\ RegistryCovered
    /\ NodesHeld
    /\ EntitiesFollowOptions

\* What the user has disabled stays so until the user changes it, whatever is
\* set up, reloaded or synchronised.
UserChoiceKept ==
    [][\A e \in Entities :
          entry[e] = "user" /\ entry'[e] # "user" => UserEnables(e) \/ UserRemoves(e)]_activationVars

\* README.md:65: "Only nodes for *currently enabled* entities are polled."
OnlyEnabledPolled ==
    phase = "loaded" /\ ~reload => active \subseteq NodesOf(Enabled)

=============================================================================
