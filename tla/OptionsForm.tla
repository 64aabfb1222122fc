----------------------------- MODULE OptionsForm -----------------------------
(***************************************************************************)
(* The form of the options (config_flow.py): its sections, the flattening  *)
(* of what is submitted, and what becomes of the options of the entry.     *)
(* The same form creates an entry and changes its options.                 *)
(*                                                                         *)
(* Options are a function from some of the keys to values.  What is        *)
(* submitted is a function from the sections to functions from the fields  *)
(* that were filled in.  None stands for a buffer sensor without a node,   *)
(* Blanks are the texts that are empty or only white space.                *)
(***************************************************************************)

CONSTANTS None, Empty, Blanks,
          Default(_)        \* the default of const.py for a key

ASSUME BlanksAssumption == Empty \in Blanks /\ None \notin Blanks

Components == {"enable_ww1", "enable_ww2", "enable_hk2", "enable_hk3",
               "enable_hk4", "enable_hk5", "enable_hk6", "enable_solar",
               "enable_puffer_2", "enable_ext_wq", "enable_lager",
               "enable_netzpumpe_1", "enable_netzpumpe_2", "enable_netzpumpe_3"}
Intervals == {"scan_interval_group_1", "scan_interval_group_2",
              "scan_interval_group_3", "scan_interval_group_4",
              "scan_interval_group_5"}
Puffers == {"puffer_mitte_oben_node_id", "puffer_mitte_unten_node_id"}

\* The fields that _build_options_schema shows in each section.
SchemaFields ==
    [components |-> Components,
     puffer     |-> Puffers,
     polling    |-> Intervals,
     connection |-> {"api_timeout", "connect_timeout", "fallback_ping_interval"},
     logging    |-> {"log_level", "advanced_logging", "log_version_prefix",
                     "source_timezone"},
     advanced   |-> {"polling_preemption_timeout",
                     "recently_set_poll_ignore_window_s",
                     "log_level_threshold_for_connection_errors",
                     "error_threshold",
                     "log_level_threshold_for_preemption_errors"}]

\* Fault variant of SectionKeys: a field of the form that was added later.
SectionKeysForgetting ==
    [SchemaFields EXCEPT !.logging = @ \ {"log_version_prefix"}]

\* The keys that _flatten_section_data takes from each section.
SectionKeys ==
    [polling    |-> Intervals,
     connection |-> {"api_timeout", "connect_timeout", "fallback_ping_interval"},
     logging    |-> {"log_level", "advanced_logging", "log_version_prefix",
                     "source_timezone"},
     advanced   |-> {"polling_preemption_timeout",
                     "recently_set_poll_ignore_window_s",
                     "log_level_threshold_for_connection_errors",
                     "error_threshold",
                     "log_level_threshold_for_preemption_errors"},
     components |-> Components,
     puffer     |-> Puffers]

Sections == DOMAIN SchemaFields
SavedKeys == UNION {SectionKeys[s] : s \in Sections}
IsBlank(value) == value = None \/ value \in Blanks

\* A form gives some of its fields a value; no field of the form holds None.
IsForm(form) ==
    \A s \in Sections : /\ DOMAIN form[s] \subseteq SchemaFields[s]
                        /\ \A k \in DOMAIN form[s] : form[s][k] # None

\* What _get_current_options of the options flow gives the form: no None.
CurrentOptions(options) ==
    [k \in DOMAIN options \cup Puffers |->
        IF k \notin Puffers THEN options[k]
        ELSE IF k \notin DOMAIN options THEN Empty
        ELSE IF IsBlank(options[k]) THEN Empty ELSE options[k]]

(***************************************************************************)
(* The value a field shows when the form opens: its default or, for the    *)
(* buffer sensors, a suggestion that the user may clear.                   *)
(***************************************************************************)
Shown(options, k) ==
    LET opts == CurrentOptions(options)
    IN  IF k \in DOMAIN opts THEN opts[k] ELSE Default(k)

(***************************************************************************)
(* Home Assistant validates what is submitted with the schema: a field     *)
(* that was not filled in gets its default, except that a suggestion that  *)
(* was cleared stays away.                                                 *)
(***************************************************************************)
Validated(options, form) ==
    [s \in Sections |->
        [k \in SchemaFields[s] \ (Puffers \ DOMAIN form[s]) |->
            IF k \in DOMAIN form[s] THEN form[s][k] ELSE Shown(options, k)]]

\* _flatten_section_data: the keys of a section that are there, and both puffers.
Flattened(input) ==
    LET Taken(s) == (SectionKeys[s] \cap DOMAIN input[s])
                        \cup (IF s = "puffer" THEN SectionKeys[s] ELSE {})
    IN  [k \in UNION {Taken(s) : s \in Sections} |->
            LET s == CHOOSE s \in Sections : k \in SectionKeys[s]
            IN  IF k \in DOMAIN input[s] THEN input[s][k] ELSE None]

\* async_step_init: blank node ids of the buffer sensors become None.
PuffersSettled(options) ==
    [k \in DOMAIN options \cup Puffers |->
        IF k \notin Puffers THEN options[k]
        ELSE IF k \notin DOMAIN options THEN None
        ELSE IF IsBlank(options[k]) THEN None ELSE options[k]]

(***************************************************************************)
(* The options of the entry after the form: its own, overridden by what    *)
(* was submitted.  A new entry has none of its own.                        *)
(***************************************************************************)
Saved(options, form) ==
    LET new == PuffersSettled(Flattened(Validated(options, form)))
    IN  PuffersSettled([k \in DOMAIN options \cup DOMAIN new |->
                            IF k \in DOMAIN new THEN new[k] ELSE options[k]])

(***************************************************************************)
(* What the user submits is what the form shows the next time, field by    *)
(* field, also for fields of options that older versions stored or lack;   *)
(* options that are no fields are kept; and a buffer sensor without a node *)
(* is stored as None, which the definitions test.                          *)
(***************************************************************************)
Cleared(value) == IF value \in Blanks THEN Empty ELSE value

FormKeeps(options, form) ==
    LET new == Saved(options, form)
    IN  /\ \A s \in Sections : \A k \in SchemaFields[s] :
             Shown(new, k) = IF k \in DOMAIN form[s]
                             THEN IF k \in Puffers THEN Cleared(form[s][k])
                                                   ELSE form[s][k]
                             ELSE IF k \in Puffers THEN Empty
                             ELSE Shown(options, k)
        /\ \A k \in DOMAIN options \ SavedKeys : new[k] = options[k]
        /\ \A k \in Puffers : new[k] = None \/ new[k] \notin Blanks
=============================================================================
