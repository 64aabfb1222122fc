-------------------------- MODULE OptionsFormProofs --------------------------
(***************************************************************************)
(* The form of the options loses nothing and invents nothing, whatever the *)
(* entry had stored and whatever the user fills in.                        *)
(***************************************************************************)
EXTENDS OptionsForm, TLAPS

SectionNames == {"components", "puffer", "polling", "connection", "logging",
                 "advanced"}

LEMMA SectionsNamed == Sections = SectionNames
  BY DEF Sections, SchemaFields, SectionNames

LEMMA SectionKeysComplete ==
    ASSUME NEW s \in Sections
    PROVE  SectionKeys[s] = SchemaFields[s]
<1> s \in SectionNames
  BY SectionsNamed
<1>1. CASE s = "components"
  BY <1>1 DEF SectionKeys, SchemaFields
<1>2. CASE s = "puffer"
  BY <1>2 DEF SectionKeys, SchemaFields
<1>3. CASE s = "polling"
  BY <1>3 DEF SectionKeys, SchemaFields
<1>4. CASE s = "connection"
  BY <1>4 DEF SectionKeys, SchemaFields
<1>5. CASE s = "logging"
  BY <1>5 DEF SectionKeys, SchemaFields
<1>6. CASE s = "advanced"
  BY <1>6 DEF SectionKeys, SchemaFields
<1> QED
  BY <1>1, <1>2, <1>3, <1>4, <1>5, <1>6 DEF SectionNames

\* No field is in two sections: the flat options keep the sections apart.
LEMMA SectionsDisjoint ==
    ASSUME NEW s \in Sections, NEW t \in Sections, NEW k \in SchemaFields[s],
           k \in SchemaFields[t]
    PROVE  s = t
  BY SectionsNamed
     DEF SectionNames, SchemaFields, Components, Intervals, Puffers

LEMMA PuffersTheirOwn ==
    /\ "puffer" \in Sections /\ SchemaFields["puffer"] = Puffers
    /\ \A s \in Sections \ {"puffer"} : SchemaFields[s] \cap Puffers = {}
<1>1. "puffer" \in Sections /\ SchemaFields["puffer"] = Puffers
  BY DEF Sections, SchemaFields
<1> QED
  BY <1>1, SectionsDisjoint

-----------------------------------------------------------------------------
(***************************************************************************)
(* From the form to the flat options.                                      *)
(***************************************************************************)
LEMMA ValidatedFields ==
    ASSUME NEW options, NEW form, NEW s \in Sections
    PROVE  /\ DOMAIN Validated(options, form)[s]
                = SchemaFields[s] \ (Puffers \ DOMAIN form[s])
           /\ \A k \in DOMAIN Validated(options, form)[s] :
                Validated(options, form)[s][k] =
                    IF k \in DOMAIN form[s] THEN form[s][k] ELSE Shown(options, k)
  BY DEF Validated

LEMMA FlattenedFields ==
    ASSUME NEW options, NEW form, NEW s \in Sections, NEW k \in SchemaFields[s]
    PROVE  LET flat == Flattened(Validated(options, form))
           IN  /\ DOMAIN flat = SavedKeys
               /\ k \in SavedKeys
               /\ flat[k] = IF k \in DOMAIN form[s] THEN form[s][k]
                            ELSE IF k \in Puffers THEN None ELSE Shown(options, k)
<1> DEFINE input == Validated(options, form)
           Taken(t) == (SectionKeys[t] \cap DOMAIN input[t])
                           \cup (IF t = "puffer" THEN SectionKeys[t] ELSE {})
           Home(j) == CHOOSE t \in Sections : j \in SectionKeys[t]
           Value(j) == IF j \in DOMAIN input[Home(j)] THEN input[Home(j)][j]
                                                      ELSE None
<1>1. \A t \in Sections : Taken(t) = SectionKeys[t]
  <2> TAKE t \in Sections
  <2>1. CASE t = "puffer"
    BY <2>1
  <2>2. CASE t # "puffer"
    <3>1. SectionKeys[t] = SchemaFields[t] /\ SchemaFields[t] \cap Puffers = {}
      BY <2>2, SectionKeysComplete, PuffersTheirOwn
    <3>2. DOMAIN input[t] = SchemaFields[t] \ (Puffers \ DOMAIN form[t])
      BY ValidatedFields
    <3> QED
      BY <2>2, <3>1, <3>2
  <2> QED
    BY <2>1, <2>2
<1>2. UNION {Taken(t) : t \in Sections} = SavedKeys
  BY <1>1 DEF SavedKeys
<1>3. Flattened(input) = [j \in SavedKeys |-> Value(j)]
  BY <1>2 DEF Flattened
<1>4. k \in SavedKeys
  BY SectionKeysComplete DEF SavedKeys
<1>5. Home(k) = s
  BY SectionKeysComplete, SectionsDisjoint
<1> HIDE DEF Home
<1>6. Value(k) = IF k \in DOMAIN input[s] THEN input[s][k] ELSE None
  BY <1>5
<1>7. Value(k) = IF k \in DOMAIN form[s] THEN form[s][k]
                 ELSE IF k \in Puffers THEN None ELSE Shown(options, k)
  BY <1>6, ValidatedFields
<1> HIDE DEF input, Value
<1>8. DOMAIN Flattened(input) = SavedKeys /\ Flattened(input)[k] = Value(k)
  BY <1>3, <1>4
<1> QED
  BY <1>4, <1>7, <1>8 DEF input

(***************************************************************************)
(* From the flat options to what the entry stores.                         *)
(***************************************************************************)
Settled(value) == IF IsBlank(value) THEN None ELSE value

LEMMA SettledFields ==
    ASSUME NEW options
    PROVE  LET settled == PuffersSettled(options)
           IN  /\ DOMAIN settled = DOMAIN options \cup Puffers
               /\ \A k \in DOMAIN options \ Puffers : settled[k] = options[k]
               /\ \A k \in Puffers :
                    settled[k] = IF k \in DOMAIN options THEN Settled(options[k])
                                                         ELSE None
  BY DEF PuffersSettled, Settled

LEMMA PuffersAreSaved == Puffers \subseteq SavedKeys
  BY PuffersTheirOwn, SectionKeysComplete DEF SavedKeys

LEMMA SavedFields ==
    ASSUME NEW options, NEW form,
           NEW flat, flat = Flattened(Validated(options, form)),
           DOMAIN flat = SavedKeys
    PROVE  LET new == Saved(options, form)
           IN  /\ DOMAIN new = DOMAIN options \cup SavedKeys
               /\ \A k \in SavedKeys \ Puffers : new[k] = flat[k]
               /\ \A k \in Puffers : new[k] = Settled(flat[k])
               /\ \A k \in DOMAIN options \ SavedKeys : new[k] = options[k]
<1> DEFINE once == PuffersSettled(flat)
           both == [k \in DOMAIN options \cup DOMAIN once |->
                        IF k \in DOMAIN once THEN once[k] ELSE options[k]]
<1>1. Saved(options, form) = PuffersSettled(both)
  BY DEF Saved
<1>2. /\ DOMAIN once = SavedKeys
      /\ \A k \in SavedKeys \ Puffers : once[k] = flat[k]
      /\ \A k \in Puffers : once[k] = Settled(flat[k])
  BY SettledFields, PuffersAreSaved
<1>3. /\ DOMAIN both = DOMAIN options \cup SavedKeys
      /\ \A k \in SavedKeys : both[k] = once[k]
      /\ \A k \in DOMAIN options \ SavedKeys : both[k] = options[k]
  BY <1>2
<1> HIDE DEF once, both
<1>4. /\ DOMAIN PuffersSettled(both) = DOMAIN options \cup SavedKeys
      /\ \A k \in (DOMAIN options \cup SavedKeys) \ Puffers :
            PuffersSettled(both)[k] = both[k]
      /\ \A k \in Puffers : PuffersSettled(both)[k] = Settled(both[k])
  BY <1>3, SettledFields, PuffersAreSaved
<1>5. \A value : Settled(Settled(value)) = Settled(value)
  BY DEF Settled, IsBlank
<1>6. \A k \in Puffers : PuffersSettled(both)[k] = Settled(flat[k])
  BY <1>2, <1>3, <1>4, <1>5, PuffersAreSaved
<1> QED
  BY <1>1, <1>2, <1>3, <1>4, <1>6, PuffersAreSaved

(***************************************************************************)
(* And back to the form.                                                   *)
(***************************************************************************)
LEMMA ShownFields ==
    ASSUME NEW options, NEW k \in DOMAIN options
    PROVE  Shown(options, k) =
               IF k \in Puffers /\ IsBlank(options[k]) THEN Empty ELSE options[k]
  BY DEF Shown, CurrentOptions

(***************************************************************************)
(* Every field shows what was submitted for it or else, unless it is a     *)
(* cleared suggestion, what it showed before; every other option stays;    *)
(* and no buffer sensor is stored with a blank node (config_flow.py).      *)
(***************************************************************************)
THEOREM NothingLostByTheForm ==
    ASSUME NEW options, NEW form, IsForm(form)
    PROVE  FormKeeps(options, form)
<1> DEFINE new == Saved(options, form)
           flat == Flattened(Validated(options, form))
<1>1. DOMAIN flat = SavedKeys
  BY FlattenedFields, PuffersTheirOwn DEF Puffers
<1>2. /\ DOMAIN new = DOMAIN options \cup SavedKeys
      /\ \A k \in SavedKeys \ Puffers : new[k] = flat[k]
      /\ \A k \in Puffers : new[k] = Settled(flat[k])
      /\ \A k \in DOMAIN options \ SavedKeys : new[k] = options[k]
  BY <1>1, SavedFields
<1> HIDE DEF new
<1>3. ASSUME NEW s \in Sections, NEW k \in SchemaFields[s]
      PROVE  Shown(new, k) = IF k \in DOMAIN form[s]
                             THEN IF k \in Puffers THEN Cleared(form[s][k])
                                                   ELSE form[s][k]
                             ELSE IF k \in Puffers THEN Empty
                             ELSE Shown(options, k)
  <2>1. /\ k \in SavedKeys
        /\ flat[k] = IF k \in DOMAIN form[s] THEN form[s][k]
                     ELSE IF k \in Puffers THEN None ELSE Shown(options, k)
    BY FlattenedFields
  <2> HIDE DEF flat
  <2>2. Shown(new, k) =
            IF k \in Puffers /\ IsBlank(new[k]) THEN Empty ELSE new[k]
    BY <1>2, <2>1, ShownFields
  <2>3. CASE k \notin Puffers
    BY <1>2, <2>1, <2>2, <2>3
  <2>4. CASE k \in Puffers
    <3>1. new[k] = Settled(flat[k])
      BY <1>2, <2>4
    <3>2. CASE k \in DOMAIN form[s]
      <4>1. form[s][k] # None
        BY <3>2 DEF IsForm
      <4> QED
        BY <2>1, <2>2, <2>4, <3>1, <3>2, <4>1, BlanksAssumption
           DEF Settled, IsBlank, Cleared
    <3>3. CASE k \notin DOMAIN form[s]
      BY <2>1, <2>2, <2>4, <3>1, <3>3 DEF Settled, IsBlank
    <3> QED
      BY <3>2, <3>3
  <2> QED
    BY <2>3, <2>4
<1>4. \A k \in Puffers : new[k] = None \/ new[k] \notin Blanks
  BY <1>2 DEF Settled, IsBlank
<1> QED
  BY <1>2, <1>3, <1>4 DEF FormKeeps, new
=============================================================================
