----------------------------- MODULE NodeValues -----------------------------
(***************************************************************************)
(* The way of one node's value from the text of the boiler to the state an *)
(* entity shows, and from the user's input to the text that is sent:       *)
(* parsers.py, enum_mappings.py, HdgPollingResponseProcessor, the entities *)
(* (entity.py, sensor.py, number.py, select.py), the validation of the     *)
(* services (services.py, validation_utils.py) and the definitions that    *)
(* direct them all (definitions.py).                                       *)
(*                                                                         *)
(* Numbers are counted in thousandths.  The order of concurrent requests   *)
(* is the subject of SetValuePath; here one SET at a time is under way,    *)
(* and what matters is which form a value has in which place: coordinator. *)
(* data holds parsed values after a poll and the text that was sent after  *)
(* a SET, and every entity reads either with a definition of its own.      *)
(***************************************************************************)
EXTENDS Integers, SequencesExt

CONSTANTS
    SourceTimezone,   \* option source_timezone
    MaxChanges,       \* bound on the changes of the boiler's value
    MaxInputs         \* bound on the values the user enters

Zones == {"Europe/Berlin", "UTC"}

ASSUME ValuesAssumption ==
    SourceTimezone \in Zones /\ MaxChanges \in Nat /\ MaxInputs \in Nat

-----------------------------------------------------------------------------
(* Values and texts                                                        *)

None == [kind |-> "none"]
Unavailable == [kind |-> "unavailable"]           \* HDG_UNAVAILABLE_STRINGS
OverSevenDays == [kind |-> "over_seven_days"]     \* HDG_DATETIME_SPECIAL_TEXT
Float(v) == [kind |-> "float", v |-> v]
DateTime(t) == [kind |-> "datetime", at |-> t]    \* an instant, with a zone

(***************************************************************************)
(* Texts.  A numeral has digits and marks, each mark paired with the       *)
(* number of digits to its right; units and blanks around it are left out. *)
(* A label is a word, possibly wrapped after a hyphen.  A local time comes *)
(* without its offset, a stamp with it.                                    *)
(***************************************************************************)
Numeral(digits, marks) ==
    [kind |-> "numeral", digits |-> digits, marks |-> marks]
Label(word, cut, case) ==
    [kind |-> "label", word |-> word, cut |-> cut, case |-> case]
Local(t) == [kind |-> "local", at |-> t]
Stamp(t) == [kind |-> "stamp", at |-> t]

Unit == 1000
Place(d) == IF d = 0 THEN Unit ELSE <<100, 10, 1>>[d]    \* of the d-th decimal
Decimals(v, d) ==
    Numeral(v \div Place(d), IF d = 0 THEN {} ELSE {<<"point", d>>})
IsExact(v, d) == v % Place(d) = 0

\* Python's str of a float, of a whole number, and of the values in the data.
FloatText(v) == Decimals(v, Min({d \in 1..3 : IsExact(v, d)}))
IntText(v) == Decimals(v, 0)
Str(value) == CASE value.kind = "float" -> FloatText(value.v)
                [] value.kind = "datetime" -> Stamp(value.at)
                [] OTHER -> value

-----------------------------------------------------------------------------
(* Labels and their keys (enum_mappings.py)                                *)

Entry(word, cut, key, case) ==
    [text |-> Label(word, cut, "title"), key |-> Label(key, "none", case)]

HkBetriebsart ==
    <<Entry("normal", "none", "normal", "upper"),
      Entry("tagbetrieb", "none", "tag", "upper"),
      Entry("nachtbetrieb", "none", "nacht", "upper"),
      Entry("partybetrieb", "none", "party", "upper"),
      Entry("sommerbetrieb", "hyphen", "sommer", "upper")>>
HkAktuelleBetriebsart ==
    <<Entry("abgesenkt", "none", "abgesenkt", "lower"),
      Entry("aus", "none", "aus", "lower"),
      Entry("standard", "none", "standard", "lower"),
      Entry("tagbetrieb", "none", "tag", "lower"),
      Entry("nachtbetrieb", "none", "nacht", "lower"),
      Entry("partybetrieb", "none", "party", "lower"),
      Entry("urlaubsbetrieb", "hyphen", "urlaub", "lower"),
      Entry("sommerbetrieb", "hyphen", "sommer", "lower")>>
AnlageBetriebsart ==
    <<Entry("normal", "none", "normal", "lower"),
      Entry("urlaubsbetrieb", "hyphen", "urlaubs_betrieb", "lower"),
      Entry("sommerbetrieb", "hyphen", "sommerbetrieb", "lower"),
      Entry("frostschutz", "none", "frostschutz", "lower")>>
ExterneWarmequelleBetriebsart ==
    <<Entry("aus", "none", "aus", "lower"),
      Entry("ein", "none", "ein", "lower"),
      Entry("auto_ein", "none", "auto_ein", "lower"),
      Entry("auto_aus", "none", "auto_aus", "lower"),
      Entry("auto", "none", "auto_ein", "lower")>>
NoTable == <<>>
Tables == {HkBetriebsart, HkAktuelleBetriebsart, AnlageBetriebsart,
           ExterneWarmequelleBetriebsart, NoTable}

lower(text) == [text EXCEPT !.case = "lower"]

_fold_hdg_enum_text(text) ==
    lower([text EXCEPT !.cut = IF @ = "break" THEN "hyphen" ELSE @])

_compact_hdg_enum_text(text) ==
    [_fold_hdg_enum_text(text) EXCEPT !.cut = "none"]

\* Fault variant of resolve_hdg_enum_key: the hyphen of a wrapped label stays.
ResolveUncompacted(text, table) ==
    LET hits == {i \in DOMAIN table :
                    _fold_hdg_enum_text(table[i].text) = _fold_hdg_enum_text(text)}
    IN  IF hits = {} THEN None ELSE table[Min(hits)].key

\* The key of the first entry that matches, in any spelling, or is named.
resolve_hdg_enum_key(text, table) ==
    LET folded == _fold_hdg_enum_text(text)
        hits == {i \in DOMAIN table :
                    \/ _fold_hdg_enum_text(table[i].text) = folded
                    \/ _compact_hdg_enum_text(table[i].text)
                           = _compact_hdg_enum_text(text)
                    \/ _fold_hdg_enum_text(table[i].key) = folded}
    IN  IF hits = {} THEN None ELSE table[Min(hits)].key

-----------------------------------------------------------------------------
(* Definitions (definitions.py): the parts that direct values.  Units,     *)
(* icons, device classes and polling groups are left out.                  *)

_create_sensor_definition(platform, parse_as_type) ==
    [platform |-> platform, parse_as_type |-> parse_as_type, table |-> NoTable,
     divided |-> FALSE,        \* hdg_formatter is "iT"
     setter_type |-> "none", min |-> 0, max |-> 0, step |-> 0,
     uppercase_value |-> FALSE]

FloatSensor == _create_sensor_definition("sensor", "float")
create_temp_sensor == FloatSensor
create_percentage_sensor == FloatSensor
create_duration_sensor == FloatSensor
create_energy_sensor == FloatSensor
create_pressure_sensor == FloatSensor
create_kelvin_sensor == FloatSensor
create_mass_sensor(formatter) == [FloatSensor EXCEPT !.divided = formatter = "iT"]
create_general_sensor(parse) == _create_sensor_definition("sensor", parse)
create_text_sensor(parse) == _create_sensor_definition("sensor", parse)
create_diagnostic_text_sensor(parse) == _create_sensor_definition("sensor", parse)
create_version_sensor == _create_sensor_definition("sensor", "text")
create_enum_sensor(table) ==
    [_create_sensor_definition("sensor", "enum_text") EXCEPT !.table = table]
create_diagnostic_enum_sensor(table) ==
    [_create_sensor_definition("sensor", "enum_text") EXCEPT !.table = table]
create_number_entity(setter, min, max, step) ==
    [_create_sensor_definition("number", "float") EXCEPT
        !.setter_type = setter, !.min = min, !.max = max, !.step = step]
create_select_entity(table) ==
    [_create_sensor_definition("select", "text") EXCEPT
        !.table = table, !.uppercase_value = TRUE]

whole(min, max) == create_number_entity("int", min * Unit, max * Unit, Unit)

\* A heating circuit: what the user may set, its parameters and its readings.
HkSettings ==
    [betriebsart |-> create_select_entity(HkBetriebsart),
     heizkreis_system |-> create_enum_sensor(NoTable),
     bezeichnung |-> create_diagnostic_text_sensor("text"),
     soll_normal |-> whole(0, 90), soll_absenk |-> whole(0, 90),
     parallelverschiebung |-> whole(-20, 20),
     raumeinflussfaktor |-> create_general_sensor("float"),
     steilheit |-> create_number_entity("float1", 100, 3500, 100)]
HkTemperatures == {"vorlauftemperatur_minimum", "vorlauftemperatur_maximum",
                   "pumpe_ein_freigabetemperatur", "frostschutz_temp"}
HkStates == {"raumeinheit_status", "warmequelle", "restwarme_aufnehmen"}
HkLimits == {"pumpe_aus_aussentemperatur", "eco_absenken_aus_aussentemperatur"}
HkParameters ==
    [k \in HkTemperatures \cup HkStates \cup HkLimits
             \cup {"offset_raumfuhler", "mischerlaufzeit_maximum"} |->
        CASE k \in HkTemperatures -> create_temp_sensor
          [] k \in HkStates -> create_enum_sensor(NoTable)
          [] k \in HkLimits -> whole(0, 50)
          [] k = "offset_raumfuhler" -> create_kelvin_sensor
          [] k = "mischerlaufzeit_maximum" -> create_duration_sensor]
HkReadings ==
    [vorlauftemperatur_ist |-> create_temp_sensor,
     vorlauftemperatur_soll |-> create_temp_sensor,
     mischer_status_text |-> create_enum_sensor(NoTable),
     pumpe_status_text |-> create_enum_sensor(NoTable),
     aktuelle_betriebsart |-> create_diagnostic_enum_sensor(HkAktuelleBetriebsart),
     temp_quelle_status_wert |-> create_general_sensor("float")]

get_netzpumpe_definitions ==
    [temperatur |-> create_temp_sensor, status_text |-> create_enum_sensor(NoTable),
     betriebsart |-> create_diagnostic_enum_sensor(NoTable)]
get_netzpumpe_param_definitions == [freigabetemperatur |-> whole(0, 95)]

(***************************************************************************)
(* The nodes: the definitions that share one, in the order of              *)
(* SENSOR_DEFINITIONS.  Definitions that do not differ here are the same.  *)
(***************************************************************************)
Alone(table) == {<<table[k]>> : k \in DOMAIN table}
get_hk_definitions ==
    UNION {Alone(HkSettings), Alone(HkParameters), Alone(HkReadings)}
Nachlegeschritt == <<create_text_sensor("text"), create_percentage_sensor>>
DomesticWater == [ww1_erhitzen_an_schwelle |-> whole(10, 60),
                  ww1_erhitzen_aus_schwelle |-> whole(20, 70)]
OtherDefinitions ==
    [anlage_betriebsart |-> create_enum_sensor(AnlageBetriebsart),
     extra_version_info |-> create_diagnostic_text_sensor("allow_empty_string"),
     kessel_nachlegezeitpunkt_2 |-> create_general_sensor("hdg_datetime_or_text"),
     lager_pelletverbrauch_insgesamt |-> create_mass_sensor("iT"),
     externe_warmequelle_betriebsart |->
         create_select_entity(ExterneWarmequelleBetriebsart)]
NodesDefined ==
    UNION {get_hk_definitions, Alone(get_netzpumpe_definitions),
           Alone(get_netzpumpe_param_definitions), Alone(DomesticWater),
           Alone(OtherDefinitions), {Nachlegeschritt}}

\* _index_entities: polls are parsed with the last definition of the node.
Indexed(node) == node[Len(node)]

-----------------------------------------------------------------------------
(* Parsing (parsers.py)                                                    *)

\* _normalize_numeric_string: the last mark is the decimal separator.
Thousandths(numeral) ==
    LET rights == {m[2] : m \in numeral.marks}
    IN  numeral.digits * Place(IF rights = {} THEN 0 ELSE Min(rights))

\* _extract_numeric_string and _parse_number: texts without a number give None.
_parse_number(text) ==
    IF text.kind = "numeral" THEN Float(Thousandths(text)) ELSE None

\* Hours by which a zone is ahead of UTC.
Offset(zone) == IF zone = "UTC" THEN 0 ELSE 2

_parse_datetime(text, zone) ==
    CASE text.kind = "over_seven_days" -> text
      [] text.kind = "local" -> DateTime(text.at - Offset(zone))
      [] text.kind = "stamp" -> DateTime(text.at)
      [] OTHER -> None

_convert_enum_text_to_key(text, table) ==
    IF text.kind # "label" THEN text
    ELSE LET key == resolve_hdg_enum_key(text, table)
         IN  IF key = None THEN text ELSE key

\* The values of the data are parsed as the texts that str makes of them.
parse_sensor_value(raw, def, zone) ==
    LET text == Str(raw)
    IN  CASE raw = None -> None
          [] raw # None /\ def.parse_as_type = "float" -> _parse_number(text)
          [] raw # None /\ def.parse_as_type = "enum_text" ->
                 _convert_enum_text_to_key(text, def.table)
          [] raw # None /\ def.parse_as_type = "hdg_datetime_or_text" ->
                 _parse_datetime(text, zone)
          [] OTHER -> text

-----------------------------------------------------------------------------
(* What the boiler means.  A reading is a quantity, the key of a mode, an  *)
(* instant, a word or Missing, and it has several renderings.              *)

Missing == None
Quantities(def) ==
    IF def.platform = "number" THEN {def.min, def.min + def.step \div 2, def.max}
                               ELSE {-500, 21500, 1234500}
Instants == {8, 9}
Unknown == "unknown"
Modes(table) == {table[i].key.word : i \in DOMAIN table} \cup {Unknown}
Mode(word) == [kind |-> "mode", word |-> word]

Readings(def) ==
    {Missing} \cup
    CASE def.parse_as_type = "float" -> {Float(q) : q \in Quantities(def)}
      [] def.table # NoTable -> {Mode(w) : w \in Modes(def.table)}
      [] def.parse_as_type = "hdg_datetime_or_text" ->
             {DateTime(t) : t \in Instants} \cup {OverSevenDays}
      [] OTHER -> {Mode("a"), Mode("b")}

(***************************************************************************)
(* A number with a decimal mark of either kind, from 1000 on with the      *)
(* other one between the thousands as well.  With marked thousands and no  *)
(* decimals a number is ambiguous, and read as if it had three of them.    *)
(***************************************************************************)
MarkedNumerals(q, d, point, comma) ==
    {Numeral(q \div Place(d), {<<point, d>>})}
    \cup IF q < 1000 * Unit THEN {}
         ELSE {Numeral(q \div Place(d), {<<point, d>>, <<comma, d + 3>>})}
Numerals(q) ==
    LET exact == {d \in 1..3 : IsExact(q, d)}
    IN  (UNION {MarkedNumerals(q, d, "point", "comma")
                    \cup MarkedNumerals(q, d, "comma", "point") : d \in exact})
        \cup (IF IsExact(q, 0) THEN {Numeral(q \div Unit, {})} ELSE {})

\* A wrapped or upper-case label, and the text that a SET may have sent.
Labels(word, table) ==
    LET words == {table[i].text.word : i \in {i \in DOMAIN table :
                                                table[i].key.word = word}}
    IN  {Label(w, cut, "title") : w \in words, cut \in {"none", "break"}}
        \cup {Label(w, "hyphen", "upper") : w \in words}
        \cup {Label(word, "none", "upper")}

Renderings(reading, def) ==
    CASE reading.kind = "float" ->
             Numerals(IF def.divided THEN reading.v * 100 ELSE reading.v)
      [] reading.kind = "mode" /\ def.table # NoTable ->
             IF reading.word = Unknown THEN {Label(Unknown, "none", "title")}
                                       ELSE Labels(reading.word, def.table)
      [] reading.kind = "mode" /\ def.table = NoTable ->
             {Label(reading.word, "none", "title")}
      [] reading.kind = "datetime" -> {Local(reading.at + Offset("Europe/Berlin")),
                                       Stamp(reading.at)}
      [] reading.kind = "none" -> {Unavailable}
      [] OTHER -> {reading}

-----------------------------------------------------------------------------
VARIABLES
    node,        \* the definitions of the node
    boiler,      \* the reading of the boiler
    data,        \* coordinator.data of the node
    optimistic,  \* HdgOptimisticManager: the text of a SET and its age
    stage,       \* of the SET: "idle", "entered" (debounced) or "sent"
    old,         \* old_value, which a SET that fails restores
    meant,       \* history: the reading that data stands for
    entered,     \* history: the reading that the user asked for
    oldMeant,    \* history: the reading that old stands for
    changes,     \* how often the boiler's reading has changed
    inputs       \* how many values the user has entered

vars == <<node, boiler, data, optimistic, stage, old, meant, entered, oldMeant,
          changes, inputs>>

Ages == {"none", "recent", "aged", "expired"}
NoEntry == [text |-> None, age |-> "none"]

Init ==
    /\ node \in NodesDefined
    /\ boiler \in Readings(Indexed(node))
    /\ data = None /\ meant = Missing
    /\ optimistic = NoEntry /\ stage = "idle"
    /\ old = None /\ oldMeant = Missing /\ entered = Missing
    /\ changes = 0 /\ inputs = 0

-----------------------------------------------------------------------------
(* The entities                                                            *)

\* HdgNodeEntity.available, while the coordinator reports success.
available == data # None /\ data # Unavailable

\* HdgOptimisticManager.get.
get_optimistic_value ==
    IF optimistic.age \in {"recent", "aged"} THEN optimistic.text ELSE None

\* floor(value + 0.5) where the step is 1.
Rounded(def, v) == IF def.step = Unit THEN ((v + 500) \div Unit) * Unit ELSE v

_get_value(def) ==
    IF data.kind = "float" /\ def.parse_as_type = "float" THEN data
    ELSE parse_sensor_value(data, def, SourceTimezone)

NumberShows(def) ==
    LET opt == get_optimistic_value
        value == IF opt # None THEN _parse_number(opt) ELSE _get_value(def)
    IN  IF value = None THEN None ELSE Float(Rounded(def, value.v))

current_option(def) ==
    LET opt == get_optimistic_value
        val == IF opt # None THEN opt ELSE _get_value(def)
        key == IF opt # None THEN None ELSE resolve_hdg_enum_key(val, def.table)
        processed == IF key = None THEN val ELSE key
    IN  IF def.uppercase_value THEN lower(processed) ELSE processed

\* What the entity of a definition shows as its state.
native_value(def) ==
    CASE ~available -> None
      [] available /\ def.platform = "number" -> NumberShows(def)
      [] available /\ def.platform = "select" -> current_option(def)
      [] OTHER -> _get_value(def)

\* async_set_native_value and async_select_option: the text they send.
EntityText(def, input) ==
    IF def.platform = "select" THEN Label(input.word, "none", "upper")
    ELSE IF def.step = Unit THEN IntText(Rounded(def, input.v))
    ELSE FloatText(input.v)

\* The reading that the user asks for by an input.
Asked(def, input) ==
    IF def.platform = "select" THEN Mode(input.word) ELSE Float(Rounded(def, input.v))

-----------------------------------------------------------------------------
(* Polls (polling_response_processor.py)                                   *)

Item(suffix, text) == [suffix |-> suffix, text |-> text]
Junk == {Item("U", Unavailable), Item("T", None)}

\* Answers that hold the node: alone, after an item that is no use, or twice.
PolledItems ==
    LET texts == Renderings(boiler, Indexed(node))
        again == Item("T", CHOOSE t \in texts : TRUE)
    IN  UNION {{<<Item("T", t)>>, <<Item("none", t), again>>}
               \cup {<<j, Item("none", t)>> : j \in Junk} : t \in texts}

\* _get_entity_definition: an id without a T gets one, whatever it ends with.
IsKnown(item) == item.suffix \in {"none", "T"}

\* _is_recently_set: within the ignore window of an input.
_is_recently_set == optimistic.age = "recent"

\* Fault variant of ParsedItem: the text is stored and left to the entities.
UnparsedItem(def, text) == text

\* The value of an item's text; a formatter iT counts hundredths.
ParsedItem(def, text) ==
    LET value == parse_sensor_value(text, def, "Europe/Berlin")
    IN  IF def.divided /\ value.kind = "float" THEN Float(value.v \div 100)
                                               ELSE value

PolledValue(item) == ParsedItem(Indexed(node), item.text)

\* Fault variant of _process_single_item: a value that is none is not stored.
ProcessValuesOnly(item) ==
    /\ item.text # None
    /\ IsKnown(item)
    /\ PolledValue(item) # None
    /\ ~(_is_recently_set /\ data # PolledValue(item))

\* Whether an item is stored, if none of the node was stored before it.
_process_single_item(item) ==
    /\ item.text # None
    /\ IsKnown(item)
    /\ ~(_is_recently_set /\ data # PolledValue(item))

\* Of the items of a node the first that is not skipped counts, the others are
\* duplicates.
process_api_items(items) ==
    \/ \E k \in DOMAIN items :
          /\ _process_single_item(items[k])
          /\ \A j \in 1..(k - 1) : ~_process_single_item(items[j])
          /\ data' = PolledValue(items[k]) /\ meant' = boiler
    \/ /\ \A k \in DOMAIN items : ~_process_single_item(items[k])
       /\ UNCHANGED <<data, meant>>

Poll ==
    /\ UNCHANGED <<node, boiler, optimistic, stage, old, entered, oldMeant,
                   changes, inputs>>
    /\ \E items \in PolledItems : process_api_items(items)

-----------------------------------------------------------------------------
(* SETs                                                                    *)

UserInputs(def) ==
    CASE def.platform = "select" -> {Mode(w) : w \in Modes(def.table) \ {Unknown}}
      [] def.platform = "number" ->
             {Float(v) : v \in {def.min, def.min + def.step,
                                def.min + def.step \div 2, def.max}}
      [] OTHER -> {}

\* async_set_node_value, from an entity.
UserSets ==
    /\ stage = "idle" /\ available /\ inputs < MaxInputs
    /\ \E input \in UserInputs(Indexed(node)) :
          /\ optimistic' = [text |-> EntityText(Indexed(node), input),
                            age |-> "recent"]
          /\ entered' = Asked(Indexed(node), input)
    /\ stage' = "entered" /\ inputs' = inputs + 1
    /\ UNCHANGED <<node, boiler, data, old, meant, oldMeant, changes>>

\* _execute_set_request, up to the await.
SetSent ==
    /\ stage = "entered" /\ stage' = "sent"
    /\ old' = data /\ oldMeant' = meant
    /\ UNCHANGED <<node, boiler, data, optimistic, meant, entered, changes, inputs>>

\* The finally clause, and the locals that end with the task.
SetEnds ==
    /\ optimistic' = NoEntry
    /\ old' = None /\ oldMeant' = Missing /\ entered' = Missing

\* The rest of it: the boiler has taken the value.
SetConfirmed ==
    /\ stage = "sent" /\ stage' = "idle"
    /\ boiler' = entered
    /\ data' = optimistic.text /\ meant' = entered
    /\ SetEnds
    /\ UNCHANGED <<node, changes, inputs>>

\* All attempts failed, although the boiler may have taken the value.
SetFails ==
    /\ stage = "sent" /\ stage' = "idle"
    /\ boiler' \in {boiler, entered}
    /\ IF old = None THEN UNCHANGED <<data, meant>>
                     ELSE data' = old /\ meant' = oldMeant
    /\ SetEnds
    /\ UNCHANGED <<node, changes, inputs>>

\* The ignore window ends and then the grace period; both outlast the debounce.
TimePasses ==
    /\ stage = "sent" /\ optimistic.age \in {"recent", "aged"}
    /\ optimistic' = [optimistic EXCEPT
                        !.age = IF @ = "recent" THEN "aged" ELSE "expired"]
    /\ UNCHANGED <<node, boiler, data, stage, old, meant, entered, oldMeant,
                   changes, inputs>>

BoilerChanges ==
    /\ changes < MaxChanges /\ changes' = changes + 1
    /\ boiler' \in Readings(Indexed(node)) \ {boiler}
    /\ UNCHANGED <<node, data, optimistic, stage, old, meant, entered, oldMeant,
                   inputs>>

Next == Poll \/ UserSets \/ SetSent \/ SetConfirmed \/ SetFails \/ TimePasses
        \/ BoilerChanges

Spec == Init /\ [][Next]_vars

(***************************************************************************)
(* Polling goes on, timers expire and the access manager ends every        *)
(* request; SetValuePath and PollingScheduler show that they do.           *)
(***************************************************************************)
FairSpec == Spec /\ WF_vars(Poll) /\ WF_vars(SetSent)
                 /\ WF_vars(SetConfirmed \/ SetFails)

-----------------------------------------------------------------------------
(* The services (services.py, validation_utils.py).  The handlers are      *)
(* there, but nothing registers them.                                      *)

Refused == [kind |-> "refused"]

\* Fault variant of coerce_value_to_numeric_type: a fraction is cut off.
CoerceTruncating(input, setter) ==
    CASE input.kind # "float" -> Refused
      [] setter = "int" /\ input.kind = "float" -> Float((input.v \div Unit) * Unit)
      [] OTHER -> input

coerce_value_to_numeric_type(input, setter) ==
    IF input.kind = "float" /\ (setter = "int" => input.v % Unit = 0)
    THEN input ELSE Refused

_validate_range(v, min, max) == min <= v /\ v <= max
_validate_step(v, min, step) ==
    IF step = 0 THEN v = min ELSE (v - min) % step = 0
validate_value_range_and_step(v, def) ==
    _validate_range(v, def.min, def.max) /\ _validate_step(v, def.min, def.step)

format_value_for_api(v, setter) ==
    IF setter = "int" THEN IntText(((v + 500) \div Unit) * Unit)
                      ELSE Decimals(((v + 50) \div 100) * 100, 1)

\* _validate_and_prepare_node_value: the text that is sent, or Refused.
ServiceText(input, def) ==
    LET value == coerce_value_to_numeric_type(input, def.setter_type)
    IN  IF value = Refused THEN Refused
        ELSE IF validate_value_range_and_step(value.v, def)
             THEN format_value_for_api(value.v, def.setter_type) ELSE Refused

\* get_settable_number_definition_by_base_node_id, among the node's definitions.
SettableNumbers(n) ==
    {n[i] : i \in {i \in DOMAIN n : n[i].platform = "number"
                                    /\ n[i].setter_type # "none"}}

-----------------------------------------------------------------------------
(* Properties                                                              *)

Keys(table) == {table[i].key : i \in DOMAIN table}

(***************************************************************************)
(* Types.  The data of a node is what parsing with its last definition     *)
(* gives - for a mapped label a key, never a spelling of the boiler - or   *)
(* the text of a SET; and that text is one the boiler reads as the value   *)
(* the user asked for.                                                     *)
(***************************************************************************)
ParsedValues(def) ==
    CASE def.parse_as_type = "float" ->
             {Float(q) : q \in Quantities(def)}
             \cup {Asked(def, i) : i \in UserInputs(def)}
      [] def.parse_as_type = "enum_text" /\ def.table # NoTable ->
             Keys(def.table) \cup {Label(Unknown, "none", "title"), Unavailable}
      [] def.parse_as_type = "hdg_datetime_or_text" -> Readings(def)
      [] OTHER -> UNION {Renderings(r, def) : r \in Readings(def)}
SentTexts(def) == {EntityText(def, input) : input \in UserInputs(def)}

ValuesTypeOK ==
    LET def == Indexed(node)
        values == {None} \cup ParsedValues(def) \cup SentTexts(def)
    IN  /\ node \in NodesDefined
        /\ data \in values /\ old \in values
        /\ boiler \in Readings(def) \cup {Asked(def, i) : i \in UserInputs(def)}
        /\ stage \in {"idle", "entered", "sent"}
        /\ optimistic.age \in Ages
        /\ IF stage = "idle" THEN optimistic = NoEntry
           ELSE optimistic.text \in SentTexts(def) \cap Renderings(entered, def)
        /\ changes \in 0..MaxChanges /\ inputs \in 0..MaxInputs

\* What an entity may show for a reading.
Presents(def, shown, reading) ==
    CASE reading = Missing -> shown = None
      [] def.platform = "number" /\ reading # Missing ->
             shown = Float(Rounded(def, reading.v))
      [] def.platform = "select" /\ reading # Missing ->
             shown = Label(reading.word, "none", "lower")
      [] def.platform = "sensor" /\ reading # Missing ->
             IF reading.kind = "mode" /\ def.table # NoTable
             THEN \/ shown \in Keys(def.table) /\ shown.word = reading.word
                  \/ reading.word = Unknown /\ shown \in Renderings(reading, def)
             ELSE IF def.parse_as_type \in {"float", "hdg_datetime_or_text"}
             THEN shown = reading
             ELSE shown \in Renderings(reading, def)

(***************************************************************************)
(* The inductive invariant behind ValuesTypeOK and DisplayTrue.  Held(def, *)
(* reading) is what the data of a node with this definition may hold for a *)
(* reading: what a poll makes of one of its renderings, or the text of a   *)
(* SET that asked for it.  What the data, a rollback and a SET will write  *)
(* is so related to the reading that the history variables remember.       *)
(***************************************************************************)
Meanings(def) == Readings(def) \cup {Asked(def, i) : i \in UserInputs(def)}
Held(def, reading) ==
    {ParsedItem(def, text) : text \in Renderings(reading, def)}
    \cup {EntityText(def, i) : i \in {i \in UserInputs(def) : Asked(def, i) = reading}}
    \cup (IF reading = Missing THEN {None} ELSE {})

DataHeld ==
    LET def == Indexed(node)
    IN  /\ {boiler, meant, oldMeant} \subseteq Meanings(def)
        /\ data \in Held(def, meant)
        /\ old \in Held(def, oldMeant)

SetUnderWay ==
    LET def == Indexed(node)
    IN  IF stage = "idle" THEN optimistic = NoEntry
        ELSE \E i \in UserInputs(def), age \in Ages \ {"none"} :
                /\ optimistic = [text |-> EntityText(def, i), age |-> age]
                /\ entered = Asked(def, i)

ValuesInv ==
    /\ node \in NodesDefined
    /\ stage \in {"idle", "entered", "sent"}
    /\ changes \in 0..MaxChanges /\ inputs \in 0..MaxInputs
    /\ DataHeld
    /\ SetUnderWay

(***************************************************************************)
(* Every entity of the node shows what its data stands for, or the value   *)
(* the user has entered while that is on its way: however the boiler       *)
(* writes it, whether a poll, a SET or a rollback has put it there, and    *)
(* with whichever definition of the node it was parsed.                    *)
(***************************************************************************)
DisplayTrue ==
    \A i \in DOMAIN node :
        Presents(node[i], native_value(node[i]),
                 IF meant = Missing THEN Missing
                 ELSE IF get_optimistic_value # None THEN entered ELSE meant)

(***************************************************************************)
(* Once the boiler and the user leave the node alone, its entities come to *)
(* show the reading of the boiler and stay with it, after failed SETs and  *)
(* after polls that were ignored, too.                                     *)
(***************************************************************************)
ShowsBoiler ==
    \A i \in DOMAIN node : Presents(node[i], native_value(node[i]), boiler)
ReadingArrives == <>[]ShowsBoiler

(***************************************************************************)
(* The service for a number accepts exactly the steps of its range, and    *)
(* sends for each the text that its entity sends.                          *)
(***************************************************************************)
ServiceInputs(def) ==
    {None, Label("a", "none", "lower")}
    \cup {Float(v) : v \in UNION {{b - def.step, b - def.step \div 2, b - 1, b,
                                   b + 1, b + def.step \div 2, b + def.step} :
                                  b \in {def.min, def.max}}}
Steps(def) == {def.min + k * def.step : k \in 0..((def.max - def.min) \div def.step)}

ServicesAgree ==
    \A def \in SettableNumbers(node) : \A input \in ServiceInputs(def) :
        ServiceText(input, def) =
            IF input.kind = "float" /\ input.v \in Steps(def)
            THEN EntityText(def, input) ELSE Refused
=============================================================================
