--------------------------- MODULE NodeValuesProofs ---------------------------
(***************************************************************************)
(* Theorems about NodeValues: the service for numbers agrees with the      *)
(* entities, numbers are read back from whatever text they are written as, *)
(* and the inductive invariant ValuesInv, with what follows from it: every *)
(* entity shows what its data stands for.                                  *)
(***************************************************************************)
EXTENDS NodeValues, WellFoundedInduction, TLAPS

Steilheit == create_number_entity("float1", 100, 3500, 100)

(***************************************************************************)
(* The numbers of the boiler count whole units, except the steepness of a  *)
(* heating curve, which counts tenths.                                     *)
(***************************************************************************)
IsWholeNumber(def) == \E min, max \in Int : def = whole(min, max)
IsNoNumber(def) == def.platform # "number"
IsServed(def) == IsWholeNumber(def) \/ def = Steilheit \/ IsNoNumber(def)

LEMMA SensorsAreNoNumbers ==
    /\ \A parse : IsNoNumber(_create_sensor_definition("sensor", parse))
    /\ \A table : IsNoNumber(create_enum_sensor(table))
    /\ \A table : IsNoNumber(create_diagnostic_enum_sensor(table))
    /\ \A table : IsNoNumber(create_select_entity(table))
    /\ \A formatter : IsNoNumber(create_mass_sensor(formatter))
  BY DEF IsNoNumber, _create_sensor_definition, create_enum_sensor,
         create_diagnostic_enum_sensor, create_select_entity,
         create_mass_sensor, FloatSensor

LEMMA SettingsServed == \A k \in DOMAIN HkSettings : IsServed(HkSettings[k])
  BY SensorsAreNoNumbers DEF HkSettings, IsServed, IsWholeNumber, Steilheit,
     create_diagnostic_text_sensor, create_general_sensor

LEMMA ParametersServed == \A k \in DOMAIN HkParameters : IsServed(HkParameters[k])
<1> SUFFICES ASSUME NEW k \in DOMAIN HkParameters
             PROVE  IsServed(HkParameters[k])
  OBVIOUS
<1>1. CASE k \in HkLimits
  BY <1>1 DEF HkParameters, HkLimits, HkTemperatures, HkStates, IsServed, IsWholeNumber
<1>2. CASE k \notin HkLimits
  BY <1>2, SensorsAreNoNumbers
     DEF HkParameters, HkTemperatures, HkStates, IsServed, create_temp_sensor,
         create_kelvin_sensor, create_duration_sensor, FloatSensor
<1> QED
  BY <1>1, <1>2

LEMMA ReadingsServed == \A k \in DOMAIN HkReadings : IsServed(HkReadings[k])
  BY SensorsAreNoNumbers DEF HkReadings, IsServed, create_temp_sensor,
     create_general_sensor, FloatSensor

LEMMA PumpsServed ==
    /\ \A k \in DOMAIN get_netzpumpe_definitions :
          IsServed(get_netzpumpe_definitions[k])
    /\ \A k \in DOMAIN get_netzpumpe_param_definitions :
          IsServed(get_netzpumpe_param_definitions[k])
  BY SensorsAreNoNumbers
     DEF get_netzpumpe_definitions, get_netzpumpe_param_definitions, IsServed,
         IsWholeNumber, create_temp_sensor, FloatSensor

LEMMA OthersServed ==
    /\ \A k \in DOMAIN DomesticWater : IsServed(DomesticWater[k])
    /\ \A k \in DOMAIN OtherDefinitions : IsServed(OtherDefinitions[k])
    /\ \A i \in DOMAIN Nachlegeschritt : IsServed(Nachlegeschritt[i])
<1>1. \A k \in DOMAIN DomesticWater : IsServed(DomesticWater[k])
  BY DEF DomesticWater, IsServed, IsWholeNumber
<1>2. \A k \in DOMAIN OtherDefinitions : IsServed(OtherDefinitions[k])
  BY SensorsAreNoNumbers DEF OtherDefinitions, IsServed,
     create_diagnostic_text_sensor, create_general_sensor
<1>3. \A i \in DOMAIN Nachlegeschritt : IsServed(Nachlegeschritt[i])
  BY SensorsAreNoNumbers DEF Nachlegeschritt, IsServed, create_text_sensor,
     create_percentage_sensor, FloatSensor
<1> QED
  BY <1>1, <1>2, <1>3

LEMMA NodesServed ==
    ASSUME NEW n \in NodesDefined, NEW i \in DOMAIN n
    PROVE  IsServed(n[i])
<1>1. ASSUME NEW table, \A k \in DOMAIN table : IsServed(table[k]),
             n \in Alone(table)
      PROVE  IsServed(n[i])
  <2>1. PICK k \in DOMAIN table : n = <<table[k]>>
    BY <1>1 DEF Alone
  <2>2. n[i] = table[k]
    BY <2>1
  <2> QED
    BY <1>1, <2>2
<1>2. CASE n = Nachlegeschritt
  BY <1>2, OthersServed
<1>3. \/ n \in Alone(HkSettings) \/ n \in Alone(HkParameters)
      \/ n \in Alone(HkReadings) \/ n \in Alone(get_netzpumpe_definitions)
      \/ n \in Alone(get_netzpumpe_param_definitions)
      \/ n \in Alone(DomesticWater) \/ n \in Alone(OtherDefinitions)
      \/ n = Nachlegeschritt
  BY DEF NodesDefined, get_hk_definitions
<1> QED
  BY <1>1, <1>2, <1>3, SettingsServed, ParametersServed, ReadingsServed,
     PumpsServed, OthersServed

-----------------------------------------------------------------------------
(***************************************************************************)
(* Numbers: what is accepted, and what is sent.                            *)
(***************************************************************************)
LEMMA StepsOfARange ==
    ASSUME NEW low \in Int, NEW high \in Int, NEW step \in {100, Unit},
           NEW def, def.min = low, def.max = high, def.step = step,
           step = Unit => low % Unit = 0 /\ high % Unit = 0,
           NEW v \in Int
    PROVE  v \in Steps(def) <=> /\ low <= v /\ v <= high
                                /\ (v - low) % step = 0
<1>1. ASSUME v \in Steps(def)
      PROVE  low <= v /\ v <= high /\ (v - low) % step = 0
  <2>1. PICK k \in 0..((high - low) \div step) : v = low + k * step
    BY <1>1 DEF Steps
  <2>2. CASE step = 100
    BY <2>1, <2>2
  <2>3. CASE step = Unit
    BY <2>1, <2>3 DEF Unit
  <2> QED
    BY <2>2, <2>3
<1>2. ASSUME low <= v, v <= high, (v - low) % step = 0
      PROVE  v \in Steps(def)
  <2> DEFINE k == (v - low) \div step
  <2>1. k \in 0..((high - low) \div step) /\ v = low + k * step
    <3>1. CASE step = 100
      BY <1>2, <3>1
    <3>2. CASE step = Unit
      BY <1>2, <3>2 DEF Unit
    <3> QED
      BY <3>1, <3>2
  <2> QED
    BY <2>1 DEF Steps
<1> QED
  BY <1>1, <1>2

LEMMA TenthsAreWritten ==
    ASSUME NEW v \in Int, v % 100 = 0
    PROVE  FloatText(v) = Decimals(v, 1)
<1> DEFINE exact == {d \in 1..3 : IsExact(v, d)}
<1>1. 1 \in exact
  BY DEF IsExact, Place
<1>2. Min(exact) = 1
  BY <1>1 DEF Min
<1> QED
  BY <1>2 DEF FloatText

LEMMA WholeNumbersAgree ==
    ASSUME NEW min \in Int, NEW max \in Int, NEW v \in Int,
           NEW def, def = whole(min, max)
    PROVE  ServiceText(Float(v), def) =
               IF v \in Steps(def) THEN EntityText(def, Float(v)) ELSE Refused
<1>1. /\ def.platform = "number" /\ def.setter_type = "int"
      /\ def.min = min * Unit /\ def.max = max * Unit /\ def.step = Unit
  BY DEF whole, create_number_entity, _create_sensor_definition
<1>2. /\ Float(v).kind = "float" /\ Float(v).v = v /\ Float(v) # Refused
  BY DEF Float, Refused
<1>3. v \in Steps(def) <=> /\ def.min <= v /\ v <= def.max
                           /\ (v - def.min) % Unit = 0
  BY <1>1, StepsOfARange DEF Unit
<1>4. (v - def.min) % Unit = 0 <=> v % Unit = 0
  BY <1>1 DEF Unit
<1>5. CASE v % Unit = 0
  <2>1. coerce_value_to_numeric_type(Float(v), def.setter_type) = Float(v)
    BY <1>2, <1>5 DEF coerce_value_to_numeric_type
  <2>2. validate_value_range_and_step(v, def) <=> v \in Steps(def)
    BY <1>1, <1>3 DEF validate_value_range_and_step, _validate_range,
       _validate_step, Unit
  <2>3. format_value_for_api(v, def.setter_type) = EntityText(def, Float(v))
    BY <1>1, <1>2 DEF format_value_for_api, EntityText, Rounded
  <2> QED
    BY <1>2, <2>1, <2>2, <2>3 DEF ServiceText
<1>6. CASE v % Unit # 0
  BY <1>1, <1>2, <1>3, <1>4, <1>6 DEF ServiceText, coerce_value_to_numeric_type
<1> QED
  BY <1>5, <1>6

LEMMA SteepnessAgrees ==
    ASSUME NEW v \in Int
    PROVE  ServiceText(Float(v), Steilheit) =
               IF v \in Steps(Steilheit) THEN EntityText(Steilheit, Float(v))
                                         ELSE Refused
<1>1. /\ Steilheit.platform = "number" /\ Steilheit.setter_type = "float1"
      /\ Steilheit.min = 100 /\ Steilheit.max = 3500 /\ Steilheit.step = 100
  BY DEF Steilheit, create_number_entity, _create_sensor_definition
<1>2. /\ Float(v).kind = "float" /\ Float(v).v = v /\ Float(v) # Refused
  BY DEF Float, Refused
<1>3. v \in Steps(Steilheit) <=> 100 <= v /\ v <= 3500 /\ (v - 100) % 100 = 0
  BY <1>1, StepsOfARange DEF Unit
<1>4. coerce_value_to_numeric_type(Float(v), Steilheit.setter_type) = Float(v)
  BY <1>1, <1>2 DEF coerce_value_to_numeric_type
<1>5. validate_value_range_and_step(v, Steilheit) <=> v \in Steps(Steilheit)
  BY <1>1, <1>3 DEF validate_value_range_and_step, _validate_range, _validate_step
<1>6. ASSUME v \in Steps(Steilheit)
      PROVE  format_value_for_api(v, Steilheit.setter_type)
                 = EntityText(Steilheit, Float(v))
  <2>1. v % 100 = 0 /\ ((v + 50) \div 100) * 100 = v
    BY <1>3, <1>6
  <2>2. EntityText(Steilheit, Float(v)) = FloatText(v)
    BY <1>1, <1>2 DEF EntityText, Unit
  <2>3. format_value_for_api(v, Steilheit.setter_type) = Decimals(v, 1)
    BY <1>1, <2>1 DEF format_value_for_api
  <2> QED
    BY <2>1, <2>2, <2>3, TenthsAreWritten
<1> QED
  BY <1>2, <1>4, <1>5, <1>6 DEF ServiceText

(***************************************************************************)
(* Whatever number the service is called with, it accepts it exactly if it *)
(* is a step of the range, and sends the text that the entity would send   *)
(* (_validate_and_prepare_node_value and async_set_native_value).          *)
(***************************************************************************)
THEOREM ServiceAgreesOnAnyNumber ==
    ASSUME NEW n \in NodesDefined, NEW def \in SettableNumbers(n), NEW v \in Int
    PROVE  ServiceText(Float(v), def) =
               IF v \in Steps(def) THEN EntityText(def, Float(v)) ELSE Refused
<1>1. def.platform = "number" /\ IsServed(def)
  BY NodesServed DEF SettableNumbers
<1>2. CASE def = Steilheit
  BY <1>2, SteepnessAgrees
<1>3. CASE IsWholeNumber(def)
  <2>1. PICK min \in Int, max \in Int : def = whole(min, max)
    BY <1>3 DEF IsWholeNumber
  <2> QED
    BY <2>1, WholeNumbersAgree
<1> QED
  BY <1>1, <1>2, <1>3 DEF IsServed, IsNoNumber

LEMMA BoundsAreNumbers ==
    ASSUME NEW n \in NodesDefined, NEW def \in SettableNumbers(n)
    PROVE  def.min \in Int /\ def.max \in Int /\ def.step \in {100, Unit}
<1>1. def.platform = "number" /\ IsServed(def)
  BY NodesServed DEF SettableNumbers
<1>2. CASE def = Steilheit
  BY <1>2 DEF Steilheit, create_number_entity, _create_sensor_definition
<1>3. CASE IsWholeNumber(def)
  <2>1. PICK min \in Int, max \in Int : def = whole(min, max)
    BY <1>3 DEF IsWholeNumber
  <2>2. /\ def.min = min * Unit /\ def.max = max * Unit /\ def.step = Unit
    BY <2>1 DEF whole, create_number_entity, _create_sensor_definition
  <2> QED
    BY <2>2 DEF Unit
<1> QED
  BY <1>1, <1>2, <1>3 DEF IsServed, IsNoNumber

(***************************************************************************)
(* The run's property, then: also what is no number is refused.            *)
(***************************************************************************)
LEMMA NodesAgree ==
    ASSUME node \in NodesDefined
    PROVE  ServicesAgree
<1> SUFFICES ASSUME NEW def \in SettableNumbers(node),
                    NEW input \in ServiceInputs(def)
             PROVE  ServiceText(input, def) =
                        IF input.kind = "float" /\ input.v \in Steps(def)
                        THEN EntityText(def, input) ELSE Refused
  BY DEF ServicesAgree
<1>1. CASE input \in {None, Label("a", "none", "lower")}
  <2>1. input.kind # "float"
    BY <1>1 DEF None, Label
  <2> QED
    BY <2>1 DEF ServiceText, coerce_value_to_numeric_type
<1>2. CASE \E v \in Int : input = Float(v)
  <2>1. PICK v \in Int : input = Float(v)
    BY <1>2
  <2>2. input.kind = "float" /\ input.v = v
    BY <2>1 DEF Float
  <2> QED
    BY <2>1, <2>2, ServiceAgreesOnAnyNumber
<1>3. \/ input \in {None, Label("a", "none", "lower")}
      \/ \E v \in Int : input = Float(v)
  BY BoundsAreNumbers DEF ServiceInputs, Unit
<1> QED
  BY <1>1, <1>2, <1>3

\* The service agrees with the entity in every state: no step changes the node.
THEOREM ServiceAgreesWithEntity == Spec => []ServicesAgree
<1>1. Init => node \in NodesDefined
  BY DEF Init
<1>2. node \in NodesDefined /\ [Next]_vars => (node \in NodesDefined)'
  BY DEF Next, vars, Poll, UserSets, SetSent, SetConfirmed, SetFails, TimePasses,
     BoilerChanges
<1>3. node \in NodesDefined => ServicesAgree
  BY NodesAgree
<1> QED
  BY <1>1, <1>2, <1>3, PTL DEF Spec

-----------------------------------------------------------------------------
(***************************************************************************)
(* Reading numbers back.                                                   *)
(***************************************************************************)
LEMMA LeastMark ==
    ASSUME NEW d \in 0..3
    PROVE  Min({d}) = d /\ Min({d, d + 3}) = d
<1>1. Min({d}) = d
  BY DEF Min
<1>2. Min({d, d + 3}) = d
  BY DEF Min
<1> QED
  BY <1>1, <1>2

LEMMA DecimalsAreRead ==
    ASSUME NEW v \in Int, NEW d \in 0..3, IsExact(v, d),
           NEW marks, {m[2] : m \in marks} \in {{d}, {d, d + 3}}
                      \/ (d = 0 /\ marks = {})
    PROVE  _parse_number(Numeral(v \div Place(d), marks)) = Float(v)
<1> DEFINE numeral == Numeral(v \div Place(d), marks)
           rights == {m[2] : m \in numeral.marks}
<1>1. /\ numeral.kind = "numeral" /\ numeral.digits = v \div Place(d)
      /\ numeral.marks = marks
  BY DEF Numeral
<1>2. (IF rights = {} THEN 0 ELSE Min(rights)) = d
  <2>1. CASE rights = {}
    BY <1>1, <2>1
  <2>2. CASE rights = {d}
    BY <2>2, LeastMark
  <2>3. CASE rights = {d, d + 3}
    BY <2>3, LeastMark
  <2> QED
    BY <1>1, <2>1, <2>2, <2>3
<1>3. (v \div Place(d)) * Place(d) = v
  <2>1. CASE d = 0
    BY <2>1 DEF IsExact, Place, Unit
  <2>2. CASE d = 1
    BY <2>2 DEF IsExact, Place
  <2>3. CASE d = 2
    BY <2>3 DEF IsExact, Place
  <2>4. CASE d = 3
    BY <2>4 DEF IsExact, Place
  <2> QED
    BY <2>1, <2>2, <2>3, <2>4
<1>4. Thousandths(numeral) = v
  BY <1>1, <1>2, <1>3 DEF Thousandths
<1> QED
  BY <1>1, <1>4 DEF _parse_number

(***************************************************************************)
(* Every rendering of every number is read as that number, with a point or *)
(* a comma, with marks between thousands or without (_parse_number).       *)
(***************************************************************************)
THEOREM AnyRenderingIsRead ==
    ASSUME NEW q \in Int, NEW text \in Numerals(q)
    PROVE  _parse_number(text) = Float(q)
<1>1. ASSUME NEW d \in 1..3, IsExact(q, d), NEW point, NEW comma,
             text \in MarkedNumerals(q, d, point, comma)
      PROVE  _parse_number(text) = Float(q)
  <2>1. PICK marks \in {{<<point, d>>}, {<<point, d>>, <<comma, d + 3>>}} :
          text = Numeral(q \div Place(d), marks)
    BY <1>1 DEF MarkedNumerals
  <2>2. {m[2] : m \in marks} \in {{d}, {d, d + 3}}
    <3>1. <<point, d>>[2] = d /\ <<comma, d + 3>>[2] = d + 3
      OBVIOUS
    <3>2. CASE marks = {<<point, d>>}
      <4>1. {m[2] : m \in marks} = {d}
        BY <3>1, <3>2
      <4> QED
        BY <4>1
    <3>3. CASE marks = {<<point, d>>, <<comma, d + 3>>}
      <4>1. {m[2] : m \in marks} = {d, d + 3}
        BY <3>1, <3>3
      <4> QED
        BY <4>1
    <3> QED
      BY <2>1, <3>2, <3>3
  <2>3. d \in 0..3
    OBVIOUS
  <2> QED
    BY <1>1, <2>1, <2>2, <2>3, DecimalsAreRead
<1>2. ASSUME IsExact(q, 0), text = Numeral(q \div Unit, {})
      PROVE  _parse_number(text) = Float(q)
  <2>1. Place(0) = Unit
    BY DEF Place
  <2> QED
    BY <1>2, <2>1, DecimalsAreRead
<1>3. \/ \E d \in 1..3 : /\ IsExact(q, d)
                         /\ \/ text \in MarkedNumerals(q, d, "point", "comma")
                            \/ text \in MarkedNumerals(q, d, "comma", "point")
      \/ IsExact(q, 0) /\ text = Numeral(q \div Unit, {})
  <2> DEFINE exact == {d \in 1..3 : IsExact(q, d)}
             Both(d) == MarkedNumerals(q, d, "point", "comma")
                            \cup MarkedNumerals(q, d, "comma", "point")
  <2>1. \/ text \in UNION {Both(d) : d \in exact}
        \/ IsExact(q, 0) /\ text = Numeral(q \div Unit, {})
    <3>1. Numerals(q) = (UNION {Both(d) : d \in exact})
              \cup IF IsExact(q, 0) THEN {Numeral(q \div Unit, {})} ELSE {}
      BY DEF Numerals
    <3> HIDE DEF Both, exact
    <3> QED
      BY <3>1
  <2>2. CASE text \in UNION {Both(d) : d \in exact}
    <3>1. PICK d \in exact : text \in Both(d)
      BY <2>2
    <3> QED
      BY <3>1
  <2> QED
    BY <2>1, <2>2
<1> QED
  BY <1>1, <1>2, <1>3

(***************************************************************************)
(* What an entity sends for a number is read back, by the boiler's rules   *)
(* and by the entities, as the number that it shows for it meanwhile       *)
(* (async_set_native_value and native_value of number.py).                 *)
(***************************************************************************)
THEOREM SentNumberIsReadBack ==
    ASSUME NEW def, def.platform = "number", NEW v \in Int
    PROVE  _parse_number(EntityText(def, Float(v))) = Asked(def, Float(v))
<1> DEFINE r == Rounded(def, v)
<1>1. Float(v).v = v /\ r \in Int
  BY DEF Float, Rounded, Unit
<1>2. CASE def.step = Unit
  <2>1. IsExact(r, 0)
    BY <1>2 DEF Rounded, IsExact, Place, Unit
  <2>2. EntityText(def, Float(v)) = Numeral(r \div Place(0), {})
    BY <1>1, <1>2 DEF EntityText, IntText, Decimals
  <2>3. Asked(def, Float(v)) = Float(r)
    BY <1>1 DEF Asked
  <2> HIDE DEF r
  <2> QED
    BY <1>1, <2>1, <2>2, <2>3, DecimalsAreRead
<1>3. CASE def.step # Unit
  <2> DEFINE exact == {d \in 1..3 : IsExact(v, d)}
  <2>1. 3 \in exact
    BY DEF IsExact, Place
  <2>2. PICK d \in exact : Min(exact) = d
    <3>1. \E d \in exact : \A e \in exact : d <= e
      BY <2>1
    <3> QED
      BY <3>1 DEF Min
  <2>3. EntityText(def, Float(v)) = Numeral(v \div Place(d), {<<"point", d>>})
    <3>1. FloatText(v) = Decimals(v, d)
      BY <2>2 DEF FloatText
    <3>2. EntityText(def, Float(v)) = FloatText(v)
      BY <1>1, <1>3 DEF EntityText
    <3>3. d # 0
      OBVIOUS
    <3> HIDE DEF exact
    <3> QED
      BY <3>1, <3>2, <3>3, Zenon DEF Decimals
  <2>4. {m[2] : m \in {<<"point", d>>}} = {d}
    OBVIOUS
  <2>5. Asked(def, Float(v)) = Float(v)
    BY <1>1, <1>3 DEF Asked, Rounded
  <2>6. d \in 0..3 /\ IsExact(v, d)
    BY <2>2
  <2> QED
    BY <2>3, <2>4, <2>5, <2>6, DecimalsAreRead
<1> QED
  BY <1>2, <1>3

-----------------------------------------------------------------------------
(***************************************************************************)
(* The kinds of definitions, which differ in how they are parsed and shown.*)
(***************************************************************************)
IsNumber(def) == IsWholeNumber(def) \/ def = Steilheit
IsMeter(def) == def = FloatSensor \/ def = create_mass_sensor("iT")
IsMode(def) ==
    \E table \in {HkAktuelleBetriebsart, AnlageBetriebsart} :
        def = create_enum_sensor(table)
IsChoice(def) ==
    \E table \in {HkBetriebsart, ExterneWarmequelleBetriebsart} :
        def = create_select_entity(table)
IsTime(def) == def = _create_sensor_definition("sensor", "hdg_datetime_or_text")
IsPlain(def) ==
    \/ def = create_enum_sensor(NoTable)
    \/ \E parse \in {"text", "allow_empty_string"} :
          def = _create_sensor_definition("sensor", parse)
HasKind(def) == \/ IsNumber(def) \/ IsMeter(def) \/ IsMode(def) \/ IsChoice(def)
                \/ IsTime(def) \/ IsPlain(def)

LEMMA CircuitKinds ==
    /\ \A k \in DOMAIN HkSettings : HasKind(HkSettings[k])
    /\ \A k \in DOMAIN HkParameters : HasKind(HkParameters[k])
    /\ \A k \in DOMAIN HkReadings : HasKind(HkReadings[k])
<1>1. \A k \in DOMAIN HkSettings : HasKind(HkSettings[k])
  BY DEF HkSettings, HasKind, IsNumber, IsWholeNumber, Steilheit, IsMeter, IsChoice,
     IsPlain, create_diagnostic_text_sensor, create_general_sensor, FloatSensor
<1>2. \A k \in DOMAIN HkParameters : HasKind(HkParameters[k])
  BY DEF HkParameters, HkTemperatures, HkStates, HkLimits, HasKind, IsNumber,
     IsWholeNumber, IsMeter, IsPlain, create_temp_sensor, create_kelvin_sensor,
     create_duration_sensor
<1>3. \A k \in DOMAIN HkReadings : HasKind(HkReadings[k])
  BY DEF HkReadings, HasKind, IsMeter, IsPlain, IsMode, create_temp_sensor,
     create_general_sensor, create_diagnostic_enum_sensor, create_enum_sensor, FloatSensor
<1> QED
  BY <1>1, <1>2, <1>3

LEMMA OtherKinds ==
    /\ \A k \in DOMAIN get_netzpumpe_definitions : HasKind(get_netzpumpe_definitions[k])
    /\ \A k \in DOMAIN get_netzpumpe_param_definitions :
          HasKind(get_netzpumpe_param_definitions[k])
    /\ \A k \in DOMAIN DomesticWater : HasKind(DomesticWater[k])
    /\ \A k \in DOMAIN OtherDefinitions : HasKind(OtherDefinitions[k])
<1>1. \A k \in DOMAIN get_netzpumpe_definitions : HasKind(get_netzpumpe_definitions[k])
  BY DEF get_netzpumpe_definitions, HasKind, IsMeter, IsPlain, create_temp_sensor,
     create_diagnostic_enum_sensor, create_enum_sensor
<1>2. /\ \A k \in DOMAIN get_netzpumpe_param_definitions :
            HasKind(get_netzpumpe_param_definitions[k])
      /\ \A k \in DOMAIN DomesticWater : HasKind(DomesticWater[k])
  BY DEF get_netzpumpe_param_definitions, DomesticWater, HasKind, IsNumber, IsWholeNumber
<1>3. \A k \in DOMAIN OtherDefinitions : HasKind(OtherDefinitions[k])
  BY DEF OtherDefinitions, HasKind, IsMode, IsChoice, IsTime, IsPlain, IsMeter,
     create_diagnostic_text_sensor, create_general_sensor
<1> QED
  BY <1>1, <1>2, <1>3

\* A node has one definition of one of the kinds, or it is the one with a text
\* sensor beside the percentage that polls are parsed for.
LEMMA NodeKinds ==
    ASSUME NEW n \in NodesDefined
    PROVE  /\ HasKind(Indexed(n))
           /\ \/ n = Nachlegeschritt
              \/ DOMAIN n = {1} /\ n[1] = Indexed(n)
<1>1. ASSUME NEW table, \A k \in DOMAIN table : HasKind(table[k]), n \in Alone(table)
      PROVE  DOMAIN n = {1} /\ n[1] = Indexed(n) /\ HasKind(Indexed(n))
  <2>1. PICK k \in DOMAIN table : n = <<table[k]>>
    BY <1>1 DEF Alone
  <2>2. Len(n) = 1 /\ DOMAIN n = {1} /\ n[1] = table[k]
    BY <2>1
  <2> QED
    BY <1>1, <2>2 DEF Indexed
<1>2. CASE n = Nachlegeschritt
  <2>1. Indexed(n) = create_percentage_sensor
    BY <1>2 DEF Nachlegeschritt, Indexed
  <2> QED
    BY <1>2, <2>1 DEF create_percentage_sensor, HasKind, IsMeter
<1>3. \/ n \in Alone(HkSettings) \/ n \in Alone(HkParameters)
      \/ n \in Alone(HkReadings) \/ n \in Alone(get_netzpumpe_definitions)
      \/ n \in Alone(get_netzpumpe_param_definitions)
      \/ n \in Alone(DomesticWater) \/ n \in Alone(OtherDefinitions)
      \/ n = Nachlegeschritt
  BY DEF NodesDefined, get_hk_definitions
<1> QED
  BY <1>1, <1>2, <1>3, CircuitKinds, OtherKinds

\* What the kinds have in their fields.
LEMMA KindFields ==
    ASSUME NEW def
    PROVE  /\ IsNumber(def) => /\ def.platform = "number" /\ def.parse_as_type = "float"
                               /\ def.divided = FALSE /\ def.min \in Int /\ def.max \in Int
                               /\ def.step \in {100, Unit} /\ def.table = NoTable
           /\ IsMeter(def) => /\ def.platform = "sensor" /\ def.parse_as_type = "float"
                              /\ def.divided \in BOOLEAN /\ def.table = NoTable
           /\ IsMode(def) => /\ def.platform = "sensor" /\ def.parse_as_type = "enum_text"
                             /\ def.table \in {HkAktuelleBetriebsart, AnlageBetriebsart}
                             /\ def.divided = FALSE
           /\ IsChoice(def) => /\ def.platform = "select" /\ def.parse_as_type = "text"
                               /\ def.table \in {HkBetriebsart,
                                                 ExterneWarmequelleBetriebsart}
                               /\ def.divided = FALSE /\ def.uppercase_value
           /\ IsTime(def) => /\ def.platform = "sensor"
                             /\ def.parse_as_type = "hdg_datetime_or_text"
                             /\ def.table = NoTable /\ def.divided = FALSE
           /\ IsPlain(def) => /\ def.platform = "sensor" /\ def.table = NoTable
                              /\ \/ def.parse_as_type \in {"text", "allow_empty_string"}
                                 \/ def.parse_as_type = "enum_text"
                              /\ def.divided = FALSE
<1>1. ASSUME IsWholeNumber(def)
      PROVE  /\ def.platform = "number" /\ def.parse_as_type = "float"
             /\ def.divided = FALSE /\ def.min \in Int /\ def.max \in Int
             /\ def.step \in {100, Unit} /\ def.table = NoTable
  <2>1. PICK min \in Int, max \in Int : def = whole(min, max)
    BY <1>1 DEF IsWholeNumber
  <2>2. /\ def.platform = "number" /\ def.parse_as_type = "float"
        /\ def.divided = FALSE /\ def.table = NoTable
        /\ def.min = min * Unit /\ def.max = max * Unit /\ def.step = Unit
    BY <2>1 DEF whole, create_number_entity, _create_sensor_definition
  <2> QED
    BY <2>2 DEF Unit
<1>2. ASSUME def = Steilheit
      PROVE  /\ def.platform = "number" /\ def.parse_as_type = "float"
             /\ def.divided = FALSE /\ def.min \in Int /\ def.max \in Int
             /\ def.step \in {100, Unit} /\ def.table = NoTable
  BY <1>2 DEF Steilheit, create_number_entity, _create_sensor_definition
<1>3. ASSUME IsMeter(def)
      PROVE  /\ def.platform = "sensor" /\ def.parse_as_type = "float"
             /\ def.divided \in BOOLEAN /\ def.table = NoTable
  <2>1. CASE def = FloatSensor
    <3>1. def.divided = FALSE
      BY <2>1 DEF FloatSensor, _create_sensor_definition
    <3> QED
      BY <2>1, <3>1 DEF FloatSensor, _create_sensor_definition
  <2>2. CASE def = create_mass_sensor("iT")
    <3>1. def.divided = TRUE
      BY <2>2 DEF create_mass_sensor, FloatSensor, _create_sensor_definition
    <3> QED
      BY <2>2, <3>1 DEF create_mass_sensor, FloatSensor, _create_sensor_definition
  <2> QED
    BY <1>3, <2>1, <2>2 DEF IsMeter
<1>4. ASSUME IsMode(def)
      PROVE  /\ def.platform = "sensor" /\ def.parse_as_type = "enum_text"
             /\ def.table \in {HkAktuelleBetriebsart, AnlageBetriebsart}
             /\ def.divided = FALSE
  BY <1>4 DEF IsMode, create_enum_sensor, _create_sensor_definition
<1>5. ASSUME IsChoice(def)
      PROVE  /\ def.platform = "select" /\ def.parse_as_type = "text"
             /\ def.table \in {HkBetriebsart, ExterneWarmequelleBetriebsart}
             /\ def.divided = FALSE /\ def.uppercase_value
  BY <1>5 DEF IsChoice, create_select_entity, _create_sensor_definition
<1>6. ASSUME IsTime(def) \/ IsPlain(def)
      PROVE  /\ def.platform = "sensor" /\ def.table = NoTable /\ def.divided = FALSE
             /\ IsTime(def) => def.parse_as_type = "hdg_datetime_or_text"
             /\ IsPlain(def) =>
                   def.parse_as_type \in {"text", "allow_empty_string", "enum_text"}
  BY <1>6 DEF IsTime, IsPlain, create_enum_sensor, _create_sensor_definition
<1> QED
  BY <1>1, <1>2, <1>3, <1>4, <1>5, <1>6 DEF IsNumber

-----------------------------------------------------------------------------
(***************************************************************************)
(* What a node's data may hold for a reading, kind by kind.                *)
(***************************************************************************)
LEMMA ValueFields ==
    /\ None.kind = "none" /\ Unavailable.kind = "unavailable"
    /\ OverSevenDays.kind = "over_seven_days"
    /\ \A v : Float(v).kind = "float" /\ Float(v).v = v
    /\ \A t : DateTime(t).kind = "datetime" /\ DateTime(t).at = t
    /\ \A t : Local(t).kind = "local" /\ Local(t).at = t
    /\ \A t : Stamp(t).kind = "stamp" /\ Stamp(t).at = t
    /\ \A w : Mode(w).kind = "mode" /\ Mode(w).word = w
    /\ \A w, cut, case :
          /\ Label(w, cut, case).kind = "label" /\ Label(w, cut, case).word = w
          /\ Label(w, cut, case).cut = cut /\ Label(w, cut, case).case = case
    /\ \A digits, marks : Numeral(digits, marks).kind = "numeral"
  BY DEF None, Unavailable, OverSevenDays, Float, DateTime, Local, Stamp, Mode, Label,
     Numeral

LEMMA NumeralsAreNumerals ==
    ASSUME NEW q \in Int, NEW text \in Numerals(q)
    PROVE  text.kind = "numeral"
<1>1. \A d, point, comma : \A t \in MarkedNumerals(q, d, point, comma) :
          t.kind = "numeral"
  BY ValueFields DEF MarkedNumerals
<1>2. \A d \in 1..3 : \A t \in MarkedNumerals(q, d, "point", "comma")
                                \cup MarkedNumerals(q, d, "comma", "point") :
          t.kind = "numeral"
  BY <1>1
<1>3. Numeral(q \div Unit, {}).kind = "numeral"
  BY ValueFields
<1> QED
  BY <1>2, <1>3 DEF Numerals

\* Python's text of a float is one of the ways to write it, and so is the text
\* that an entity sends.
LEMMA FloatTextIsNumeral ==
    ASSUME NEW v \in Int
    PROVE  FloatText(v) \in Numerals(v)
<1> DEFINE exact == {d \in 1..3 : IsExact(v, d)}
           Both(d) == MarkedNumerals(v, d, "point", "comma")
                          \cup MarkedNumerals(v, d, "comma", "point")
<1>1. 3 \in exact
  BY DEF IsExact, Place
<1>2. PICK d \in exact : Min(exact) = d
  <2>1. \E d \in exact : \A e \in exact : d <= e
    BY <1>1
  <2> QED
    BY <2>1 DEF Min
<1>3. FloatText(v) = Numeral(v \div Place(d), {<<"point", d>>})
  BY <1>2 DEF FloatText, Decimals
<1>4. FloatText(v) \in Both(d)
  BY <1>3 DEF MarkedNumerals
<1>5. (UNION {Both(e) : e \in exact}) \subseteq Numerals(v)
  BY DEF Numerals
<1> HIDE DEF Both, exact
<1> QED
  BY <1>2, <1>4, <1>5

LEMMA EntityTextIsNumeral ==
    ASSUME NEW def, def.platform = "number", NEW v \in Int
    PROVE  /\ Rounded(def, v) \in Int
           /\ Rounded(def, Rounded(def, v)) = Rounded(def, v)
           /\ EntityText(def, Float(v)) \in Numerals(Rounded(def, v))
           /\ Asked(def, Float(v)) = Float(Rounded(def, v))
<1>1. Float(v).v = v /\ Rounded(def, v) \in Int
  BY ValueFields DEF Rounded, Unit
<1>2. Rounded(def, Rounded(def, v)) = Rounded(def, v)
  BY DEF Rounded, Unit
<1>3. Asked(def, Float(v)) = Float(Rounded(def, v))
  BY <1>1 DEF Asked
<1>4. CASE def.step = Unit
  <2> DEFINE r == Rounded(def, v)
  <2>1. IsExact(r, 0)
    BY <1>4 DEF Rounded, IsExact, Place, Unit
  <2>2. EntityText(def, Float(v)) = Numeral(r \div Unit, {})
    BY <1>1, <1>4 DEF EntityText, IntText, Decimals, Place
  <2>3. EntityText(def, Float(v)) \in Numerals(r)
    BY <2>1, <2>2 DEF Numerals
  <2> QED
    BY <1>1, <1>2, <1>3, <2>3
<1>5. CASE def.step # Unit
  <2>1. EntityText(def, Float(v)) = FloatText(v) /\ Rounded(def, v) = v
    BY <1>1, <1>5 DEF EntityText, Rounded
  <2> QED
    BY <1>1, <1>2, <1>3, <2>1, FloatTextIsNumeral
<1> QED
  BY <1>4, <1>5

\* The numbers that may be read or asked for.
LEMMA FloatMeanings ==
    ASSUME NEW def, IsNumber(def) \/ IsMeter(def), NEW reading \in Meanings(def)
    PROVE  /\ reading = Missing \/ \E q \in Int : reading = Float(q)
           /\ reading # Missing =>
                 reading \in {Float(q) : q \in Quantities(def)}
                                \cup {Asked(def, i) : i \in UserInputs(def)}
           /\ \A i \in UserInputs(def) :
                 def.platform = "number" /\ \E v \in Int : i = Float(v)
<1>1. /\ def.parse_as_type = "float" /\ def.table = NoTable
      /\ def.platform \in {"number", "sensor"}
      /\ def.platform = "number" =>
            def.min \in Int /\ def.max \in Int /\ def.step \in {100, Unit}
  BY KindFields
<1>2. \A i \in UserInputs(def) :
          def.platform = "number" /\ \E v \in Int : i = Float(v)
  BY <1>1 DEF UserInputs, Unit
<1>3. \A q \in Quantities(def) : q \in Int
  BY <1>1 DEF Quantities, Unit
<1>4. \A i \in UserInputs(def) : \E q \in Int : Asked(def, i) = Float(q)
  BY <1>2, EntityTextIsNumeral
<1>5. Readings(def) = {Missing} \cup {Float(q) : q \in Quantities(def)}
  BY <1>1 DEF Readings
<1> QED
  BY <1>2, <1>3, <1>4, <1>5 DEF Meanings

\* A poll stores the number itself, whatever its rendering; a SET leaves the text
\* that it sent, from which the same number is read.
LEMMA FloatHeld ==
    ASSUME NEW def, IsNumber(def) \/ IsMeter(def), NEW reading \in Meanings(def),
           NEW d \in Held(def, reading)
    PROVE  \/ reading = Missing /\ d = None
           \/ reading # Missing /\ d = reading
           \/ /\ reading # Missing /\ d.kind = "numeral" /\ _parse_number(d) = reading
              /\ def.platform = "number" /\ d \in SentTexts(def)
<1>1. def.parse_as_type = "float" /\ def.divided \in BOOLEAN
  BY KindFields
<1>2. ASSUME NEW text \in Renderings(reading, def), d = ParsedItem(def, text)
      PROVE  (reading = Missing /\ d = None) \/ (reading # Missing /\ d = reading)
  <2>1. CASE reading = Missing
    <3>1. text = Unavailable
      BY <1>2, <2>1, ValueFields DEF Renderings, Missing
    <3>2. parse_sensor_value(text, def, "Europe/Berlin") = None
      BY <1>1, <3>1, ValueFields DEF parse_sensor_value, Str, _parse_number
    <3> QED
      BY <1>2, <2>1, <3>2, ValueFields DEF ParsedItem
  <2>2. CASE reading # Missing
    <3>1. PICK q \in Int : reading = Float(q)
      BY <2>2, FloatMeanings
    <3> DEFINE p == IF def.divided THEN q * 100 ELSE q
    <3>2. text \in Numerals(p) /\ p \in Int
      BY <1>2, <3>1, ValueFields DEF Renderings
    <3>3. text.kind = "numeral" /\ _parse_number(text) = Float(p)
      BY <3>2, AnyRenderingIsRead, NumeralsAreNumerals
    <3> HIDE DEF p
    <3>4. parse_sensor_value(text, def, "Europe/Berlin") = Float(p)
      BY <1>1, <3>3, ValueFields DEF parse_sensor_value, Str
    <3>5. ParsedItem(def, text) = Float(IF def.divided THEN p \div 100 ELSE p)
      BY <3>4, ValueFields DEF ParsedItem
    <3>6. (IF def.divided THEN p \div 100 ELSE p) = q
      BY DEF p
    <3> QED
      BY <1>2, <2>2, <3>1, <3>5, <3>6
  <2> QED
    BY <2>1, <2>2
<1>3. ASSUME NEW i \in UserInputs(def), Asked(def, i) = reading, d = EntityText(def, i)
      PROVE  /\ reading # Missing /\ d.kind = "numeral" /\ _parse_number(d) = reading
             /\ def.platform = "number" /\ d \in SentTexts(def)
  <2>1. PICK v \in Int : i = Float(v)
    BY FloatMeanings
  <2>2. def.platform = "number"
    BY FloatMeanings
  <2>3. d \in Numerals(Rounded(def, v)) /\ Rounded(def, v) \in Int
    BY <1>3, <2>1, <2>2, EntityTextIsNumeral
  <2>4. reading = Float(Rounded(def, v))
    BY <1>3, <2>1, <2>2, EntityTextIsNumeral
  <2> QED
    BY <1>3, <2>2, <2>3, <2>4, AnyRenderingIsRead, NumeralsAreNumerals, ValueFields
       DEF SentTexts, Missing
<1>4. \/ \E text \in Renderings(reading, def) : d = ParsedItem(def, text)
      \/ \E i \in UserInputs(def) : Asked(def, i) = reading /\ d = EntityText(def, i)
      \/ reading = Missing /\ d = None
  BY DEF Held
<1> QED
  BY <1>2, <1>3, <1>4

-----------------------------------------------------------------------------
(***************************************************************************)
(* Labels.  In none of the tables does a word belong to two modes.         *)
(***************************************************************************)
ModeTables == {HkBetriebsart, HkAktuelleBetriebsart, AnlageBetriebsart,
               ExterneWarmequelleBetriebsart}
TextWord(table, i) == table[i].text.word
KeyWord(table, i) == table[i].key.word

LEMMA EntriesOfTables ==
    ASSUME NEW table \in ModeTables, NEW i \in DOMAIN table
    PROVE  /\ DOMAIN table \subseteq 1..8
           /\ \E word, key, case : \E cut \in {"none", "hyphen"} :
                 /\ table[i].text = Label(word, cut, "title")
                 /\ table[i].key = Label(key, "none", case)
<1>1. \A word, cut, key, case :
          /\ Entry(word, cut, key, case).text = Label(word, cut, "title")
          /\ Entry(word, cut, key, case).key = Label(key, "none", case)
  BY DEF Entry
<1>2. CASE table = HkBetriebsart
  BY <1>1, <1>2 DEF HkBetriebsart
<1>3. CASE table = HkAktuelleBetriebsart
  <2> DEFINE IsEntry(e) == \E word, key, case : \E cut \in {"none", "hyphen"} :
                               e = Entry(word, cut, key, case)
  <2>1. /\ DOMAIN table = 1..8
        /\ table[1] = Entry("abgesenkt", "none", "abgesenkt", "lower")
        /\ table[2] = Entry("aus", "none", "aus", "lower")
        /\ table[3] = Entry("standard", "none", "standard", "lower")
        /\ table[4] = Entry("tagbetrieb", "none", "tag", "lower")
        /\ table[5] = Entry("nachtbetrieb", "none", "nacht", "lower")
        /\ table[6] = Entry("partybetrieb", "none", "party", "lower")
        /\ table[7] = Entry("urlaubsbetrieb", "hyphen", "urlaub", "lower")
        /\ table[8] = Entry("sommerbetrieb", "hyphen", "sommer", "lower")
    BY <1>3 DEF HkAktuelleBetriebsart
  <2>2. \A word, key, case : \A cut \in {"none", "hyphen"} :
            IsEntry(Entry(word, cut, key, case))
    OBVIOUS
  <2> HIDE DEF IsEntry
  <2>3. IsEntry(table[i])
    BY <2>1, <2>2
  <2> QED
    BY <1>1, <2>1, <2>3 DEF IsEntry
<1>4. CASE table = AnlageBetriebsart
  BY <1>1, <1>4 DEF AnlageBetriebsart
<1>5. CASE table = ExterneWarmequelleBetriebsart
  BY <1>1, <1>5 DEF ExterneWarmequelleBetriebsart
<1> QED
  BY <1>2, <1>3, <1>4, <1>5 DEF ModeTables

LEMMA WordsOfTables ==
    ASSUME NEW table \in ModeTables, NEW i \in DOMAIN table, NEW j \in DOMAIN table
    PROVE  /\ TextWord(table, i) \in {TextWord(table, j), KeyWord(table, j)}
                 => KeyWord(table, i) = KeyWord(table, j)
           /\ TextWord(table, i) # Unknown /\ KeyWord(table, i) # Unknown
           /\ table # NoTable
<1>1. \A word, cut, key, case :
          /\ Entry(word, cut, key, case).text.word = word
          /\ Entry(word, cut, key, case).key.word = key
  BY DEF Entry, Label
<1>2. CASE table = HkBetriebsart
  <2>1. /\ DOMAIN table = 1..5
        /\ TextWord(table, 1) = "normal" /\ KeyWord(table, 1) = "normal"
        /\ TextWord(table, 2) = "tagbetrieb" /\ KeyWord(table, 2) = "tag"
        /\ TextWord(table, 3) = "nachtbetrieb" /\ KeyWord(table, 3) = "nacht"
        /\ TextWord(table, 4) = "partybetrieb" /\ KeyWord(table, 4) = "party"
        /\ TextWord(table, 5) = "sommerbetrieb" /\ KeyWord(table, 5) = "sommer"
    BY <1>1, <1>2 DEF HkBetriebsart, TextWord, KeyWord
  <2>2. i \in 1..5 /\ j \in 1..5 /\ table # NoTable
    BY <2>1 DEF NoTable
  <2> QED
    BY <2>1, <2>2 DEF Unknown
<1>3. CASE table = HkAktuelleBetriebsart
  <2>1. /\ DOMAIN table = 1..8
        /\ TextWord(table, 1) = "abgesenkt" /\ KeyWord(table, 1) = "abgesenkt"
        /\ TextWord(table, 2) = "aus" /\ KeyWord(table, 2) = "aus"
        /\ TextWord(table, 3) = "standard" /\ KeyWord(table, 3) = "standard"
        /\ TextWord(table, 4) = "tagbetrieb" /\ KeyWord(table, 4) = "tag"
        /\ TextWord(table, 5) = "nachtbetrieb" /\ KeyWord(table, 5) = "nacht"
        /\ TextWord(table, 6) = "partybetrieb" /\ KeyWord(table, 6) = "party"
        /\ TextWord(table, 7) = "urlaubsbetrieb" /\ KeyWord(table, 7) = "urlaub"
        /\ TextWord(table, 8) = "sommerbetrieb" /\ KeyWord(table, 8) = "sommer"
    BY <1>1, <1>3 DEF HkAktuelleBetriebsart, TextWord, KeyWord
  <2>2. i \in 1..8 /\ j \in 1..8 /\ table # NoTable
    BY <2>1 DEF NoTable
  <2> QED
    BY <2>1, <2>2 DEF Unknown
<1>4. CASE table = AnlageBetriebsart
  <2>1. /\ DOMAIN table = 1..4
        /\ TextWord(table, 1) = "normal" /\ KeyWord(table, 1) = "normal"
        /\ TextWord(table, 2) = "urlaubsbetrieb"
        /\ KeyWord(table, 2) = "urlaubs_betrieb"
        /\ TextWord(table, 3) = "sommerbetrieb" /\ KeyWord(table, 3) = "sommerbetrieb"
        /\ TextWord(table, 4) = "frostschutz" /\ KeyWord(table, 4) = "frostschutz"
    BY <1>1, <1>4 DEF AnlageBetriebsart, TextWord, KeyWord
  <2>2. i \in 1..4 /\ j \in 1..4 /\ table # NoTable
    BY <2>1 DEF NoTable
  <2> QED
    BY <2>1, <2>2 DEF Unknown
<1>5. CASE table = ExterneWarmequelleBetriebsart
  <2>1. /\ DOMAIN table = 1..5
        /\ TextWord(table, 1) = "aus" /\ KeyWord(table, 1) = "aus"
        /\ TextWord(table, 2) = "ein" /\ KeyWord(table, 2) = "ein"
        /\ TextWord(table, 3) = "auto_ein" /\ KeyWord(table, 3) = "auto_ein"
        /\ TextWord(table, 4) = "auto_aus" /\ KeyWord(table, 4) = "auto_aus"
        /\ TextWord(table, 5) = "auto" /\ KeyWord(table, 5) = "auto_ein"
    BY <1>1, <1>5 DEF ExterneWarmequelleBetriebsart, TextWord, KeyWord
  <2>2. i \in 1..5 /\ j \in 1..5 /\ table # NoTable
    BY <2>1 DEF NoTable
  <2> QED
    BY <2>1, <2>2 DEF Unknown
<1> QED
  BY <1>2, <1>3, <1>4, <1>5 DEF ModeTables

LEMMA TablesAreFull ==
    ASSUME NEW table \in ModeTables
    PROVE  1 \in DOMAIN table /\ table # NoTable
<1>1. 1 \in DOMAIN table
  BY DEF ModeTables, HkBetriebsart, HkAktuelleBetriebsart, AnlageBetriebsart,
     ExterneWarmequelleBetriebsart
<1>2. DOMAIN NoTable = {}
  BY DEF NoTable
<1> QED
  BY <1>1, <1>2

LEMMA FoldedLabels ==
    ASSUME NEW w, NEW cut, NEW case
    PROVE  /\ _fold_hdg_enum_text(Label(w, cut, case))
                  = Label(w, IF cut = "break" THEN "hyphen" ELSE cut, "lower")
           /\ _compact_hdg_enum_text(Label(w, cut, case)) = Label(w, "none", "lower")
           /\ lower(Label(w, cut, case)) = Label(w, cut, "lower")
           /\ Label(w, cut, case).word = w
<1> DEFINE text == Label(w, cut, case)
<1>1. text = [kind |-> "label", word |-> w, cut |-> cut, case |-> case]
  BY DEF Label
<1>3. \A d : lower(Label(w, d, case)) = Label(w, d, "lower")
  BY DEF lower, Label
<1>4. [text EXCEPT !.cut = IF @ = "break" THEN "hyphen" ELSE @]
          = Label(w, IF cut = "break" THEN "hyphen" ELSE cut, case)
  BY <1>1 DEF Label
<1>5. \A d : [Label(w, d, "lower") EXCEPT !.cut = "none"] = Label(w, "none", "lower")
  BY DEF Label
<1>6. text.word = w
  BY <1>1
<1> HIDE DEF text
<1>7. _fold_hdg_enum_text(text) = Label(w, IF cut = "break" THEN "hyphen" ELSE cut, "lower")
  BY <1>3, <1>4 DEF _fold_hdg_enum_text
<1> QED
  BY <1>3, <1>5, <1>6, <1>7 DEF text, _compact_hdg_enum_text

LEMMA LeastHit ==
    ASSUME NEW hits, hits \subseteq 1..8, hits # {}
    PROVE  Min(hits) \in hits
<1> DEFINE Less == {r \in Nat \X Nat : r[1] < r[2]}
<1>1. IsWellFoundedOn(Less, Nat)
  <2>1. Less = OpToRel(<, Nat)
    BY DEF OpToRel
  <2> QED
    BY <2>1, NatLessThanWellFounded
<1>2. hits \subseteq Nat
  OBVIOUS
<1>3. PICK i \in hits : \A j \in hits : ~(<<j, i>> \in Less)
  BY <1>1, <1>2, WFMin
<1>4. \E k \in hits : \A j \in hits : k <= j
  BY <1>2, <1>3
<1> QED
  BY <1>4 DEF Min

\* The entries that a label matches are those with its word, or with its word as
\* key: a label of the boiler in any spelling, or a key that is sent or shown.
LEMMA KeyFound ==
    ASSUME NEW table \in ModeTables, NEW w, NEW cut, NEW case,
           NEW j \in DOMAIN table,
           w = TextWord(table, j) \/ (w = KeyWord(table, j) /\ cut = "none")
    PROVE  \E i \in DOMAIN table :
              /\ resolve_hdg_enum_key(Label(w, cut, case), table) = table[i].key
              /\ KeyWord(table, i) = KeyWord(table, j)
<1> DEFINE text == Label(w, cut, case)
           Hit(i) == \/ _fold_hdg_enum_text(table[i].text) = _fold_hdg_enum_text(text)
                     \/ _compact_hdg_enum_text(table[i].text)
                           = _compact_hdg_enum_text(text)
                     \/ _fold_hdg_enum_text(table[i].key) = _fold_hdg_enum_text(text)
           hits == {i \in DOMAIN table : Hit(i)}
<1>1. ASSUME NEW i \in DOMAIN table
      PROVE  /\ Hit(i) => w \in {TextWord(table, i), KeyWord(table, i)}
             /\ w = TextWord(table, i) => Hit(i)
             /\ w = KeyWord(table, i) /\ cut = "none" => Hit(i)
  <2>1. PICK word, key, c, d :
          /\ d \in {"none", "hyphen"}
          /\ table[i].text = Label(word, d, "title") /\ table[i].key = Label(key, "none", c)
    BY EntriesOfTables
  <2>2. TextWord(table, i) = word /\ KeyWord(table, i) = key
    BY <2>1, ValueFields DEF TextWord, KeyWord
  <2>3. /\ _fold_hdg_enum_text(table[i].text).word = word
        /\ _fold_hdg_enum_text(table[i].key).word = key
        /\ _compact_hdg_enum_text(table[i].text).word = word
        /\ _fold_hdg_enum_text(text).word = w
        /\ _compact_hdg_enum_text(text).word = w
    BY <2>1, FoldedLabels, ValueFields
  <2>4. Hit(i) => w \in {word, key}
    BY <2>3
  <2>5. w = word => Hit(i)
    BY <2>1, FoldedLabels
  <2>6. w = key /\ cut = "none" => Hit(i)
    BY <2>1, FoldedLabels
  <2> QED
    BY <2>2, <2>4, <2>5, <2>6
<1>2. hits # {} /\ hits \subseteq DOMAIN table
  BY <1>1
<1>3. Min(hits) \in hits
  BY <1>2, EntriesOfTables, LeastHit
<1>4. resolve_hdg_enum_key(text, table) = table[Min(hits)].key
  BY <1>2 DEF resolve_hdg_enum_key
<1> DEFINE i == Min(hits)
<1>5. w \in {TextWord(table, i), KeyWord(table, i)} /\ i \in DOMAIN table
  BY <1>1, <1>3
<1>6. KeyWord(table, i) = KeyWord(table, j)
  BY <1>5, WordsOfTables
<1> QED
  BY <1>4, <1>5, <1>6

LEMMA UnknownFindsNoKey ==
    ASSUME NEW table \in ModeTables, NEW cut, NEW case
    PROVE  resolve_hdg_enum_key(Label(Unknown, cut, case), table) = None
<1> DEFINE text == Label(Unknown, cut, case)
<1>1. ASSUME NEW i \in DOMAIN table
      PROVE  ~ \/ _fold_hdg_enum_text(table[i].text) = _fold_hdg_enum_text(text)
               \/ _compact_hdg_enum_text(table[i].text) = _compact_hdg_enum_text(text)
               \/ _fold_hdg_enum_text(table[i].key) = _fold_hdg_enum_text(text)
  <2>1. PICK word, key, c, d :
          /\ d \in {"none", "hyphen"}
          /\ table[i].text = Label(word, d, "title") /\ table[i].key = Label(key, "none", c)
    BY EntriesOfTables
  <2>2. word # Unknown /\ key # Unknown
    BY <2>1, WordsOfTables, ValueFields DEF TextWord, KeyWord
  <2>3. /\ _fold_hdg_enum_text(table[i].text).word = word
        /\ _fold_hdg_enum_text(table[i].key).word = key
        /\ _compact_hdg_enum_text(table[i].text).word = word
        /\ _fold_hdg_enum_text(text).word = Unknown
        /\ _compact_hdg_enum_text(text).word = Unknown
    BY <2>1, FoldedLabels, ValueFields
  <2> QED
    BY <2>2, <2>3
<1> QED
  BY <1>1 DEF resolve_hdg_enum_key

\* Every way in which the boiler writes a mode finds a key of the mode.
LEMMA LabelsFindTheirKey ==
    ASSUME NEW table \in ModeTables, NEW j \in DOMAIN table,
           NEW text \in Labels(KeyWord(table, j), table)
    PROVE  /\ text.kind = "label"
           /\ \E i \in DOMAIN table :
                 /\ resolve_hdg_enum_key(text, table) = table[i].key
                 /\ KeyWord(table, i) = KeyWord(table, j)
<1> DEFINE word == KeyWord(table, j)
           words == {table[i].text.word : i \in {i \in DOMAIN table :
                                                   table[i].key.word = word}}
<1>1. \/ \E w \in words : \E cut, case : text = Label(w, cut, case)
      \/ text = Label(word, "none", "upper")
  <2>1. \/ text \in {Label(w, cut, "title") : w \in words, cut \in {"none", "break"}}
        \/ text \in {Label(w, "hyphen", "upper") : w \in words}
        \/ text = Label(word, "none", "upper")
    BY DEF Labels
  <2> QED
    BY <2>1
<1>2. ASSUME NEW w \in words, NEW cut, NEW case, text = Label(w, cut, case)
      PROVE  \E i \in DOMAIN table :
                /\ resolve_hdg_enum_key(text, table) = table[i].key
                /\ KeyWord(table, i) = word
  <2>1. PICK k \in DOMAIN table : KeyWord(table, k) = word /\ w = TextWord(table, k)
    BY DEF KeyWord, TextWord
  <2> QED
    BY <1>2, <2>1, KeyFound
<1>3. ASSUME text = Label(word, "none", "upper")
      PROVE  \E i \in DOMAIN table :
                /\ resolve_hdg_enum_key(text, table) = table[i].key
                /\ KeyWord(table, i) = word
  BY <1>3, KeyFound
<1> QED
  BY <1>1, <1>2, <1>3, ValueFields

\* The modes that may be read or asked for.
LEMMA ModeMeanings ==
    ASSUME NEW def, IsMode(def) \/ IsChoice(def), NEW reading \in Meanings(def)
    PROVE  /\ def.table \in ModeTables
           /\ \/ reading = Missing
              \/ reading = Mode(Unknown)
              \/ \E j \in DOMAIN def.table : reading = Mode(KeyWord(def.table, j))
           /\ reading \in Readings(def)
           /\ \A i \in UserInputs(def) :
                 /\ IsChoice(def) /\ Asked(def, i) = i
                 /\ EntityText(def, i) = Label(i.word, "none", "upper")
                 /\ \E j \in DOMAIN def.table : i = Mode(KeyWord(def.table, j))
<1>1. /\ def.table \in ModeTables
      /\ \/ IsMode(def) /\ def.platform = "sensor" /\ def.parse_as_type = "enum_text"
         \/ IsChoice(def) /\ def.platform = "select" /\ def.parse_as_type = "text"
  BY KindFields DEF ModeTables
<1>2. def.table # NoTable
  BY <1>1, TablesAreFull
<1>3. Readings(def) = {Missing} \cup {Mode(w) : w \in Modes(def.table)}
  BY <1>1, <1>2 DEF Readings
<1>4. \A w \in Modes(def.table) :
          w = Unknown \/ \E j \in DOMAIN def.table : w = KeyWord(def.table, j)
  BY DEF Modes, KeyWord
<1>5. ASSUME NEW i \in UserInputs(def)
      PROVE  /\ IsChoice(def) /\ Asked(def, i) = i
             /\ EntityText(def, i) = Label(i.word, "none", "upper")
             /\ i \in {Mode(w) : w \in Modes(def.table) \ {Unknown}}
  <2>1. /\ IsChoice(def) /\ def.platform = "select"
        /\ i \in {Mode(w) : w \in Modes(def.table) \ {Unknown}}
    BY <1>1 DEF UserInputs
  <2> QED
    BY <2>1, ValueFields DEF Asked, EntityText
<1>6. \A i \in UserInputs(def) : \E j \in DOMAIN def.table : i = Mode(KeyWord(def.table, j))
  BY <1>4, <1>5
<1>7. reading \in Readings(def)
  BY <1>3, <1>5 DEF Meanings
<1> QED
  BY <1>1, <1>3, <1>4, <1>5, <1>6, <1>7

LEMMA ModeRenderings ==
    ASSUME NEW def, IsMode(def) \/ IsChoice(def), NEW reading \in Meanings(def),
           NEW text \in Renderings(reading, def)
    PROVE  \/ reading = Missing /\ text = Unavailable
           \/ reading = Mode(Unknown) /\ text = Label(Unknown, "none", "title")
           \/ \E j \in DOMAIN def.table :
                 /\ reading = Mode(KeyWord(def.table, j))
                 /\ text \in Labels(KeyWord(def.table, j), def.table)
<1>1. def.table \in ModeTables
  BY ModeMeanings
<1>2. CASE reading = Missing
  BY <1>2, ValueFields DEF Missing, Renderings
<1>3. CASE reading = Mode(Unknown)
  <2>1. def.table # NoTable
    BY <1>1, TablesAreFull
  <2> QED
    BY <1>3, <2>1, ValueFields DEF Renderings
<1>4. ASSUME NEW j \in DOMAIN def.table, reading = Mode(KeyWord(def.table, j))
      PROVE  text \in Labels(KeyWord(def.table, j), def.table)
  <2>1. def.table # NoTable /\ KeyWord(def.table, j) # Unknown
    BY <1>1, WordsOfTables
  <2>2. reading.kind = "mode" /\ reading.word = KeyWord(def.table, j)
    BY <1>4, ValueFields
  <2> QED
    BY <2>1, <2>2 DEF Renderings
<1> QED
  BY <1>2, <1>3, <1>4, ModeMeanings

\* A poll stores a key of the mode for a sensor, and the text itself for a choice.
LEMMA ModeHeld ==
    ASSUME NEW def, IsMode(def), NEW reading \in Meanings(def),
           NEW d \in Held(def, reading)
    PROVE  \/ reading = Missing /\ d \in {None, Unavailable}
           \/ reading = Mode(Unknown) /\ d = Label(Unknown, "none", "title")
           \/ \E i \in DOMAIN def.table :
                 reading = Mode(KeyWord(def.table, i)) /\ d = def.table[i].key
<1>1. def.parse_as_type = "enum_text" /\ def.divided = FALSE /\ def.table \in ModeTables
  BY KindFields, ModeMeanings
<1>2. ~IsChoice(def)
  BY KindFields, <1>1
<1>3. ASSUME NEW text \in Renderings(reading, def), d = ParsedItem(def, text)
      PROVE  \/ reading = Missing /\ d \in {None, Unavailable}
             \/ reading = Mode(Unknown) /\ d = Label(Unknown, "none", "title")
             \/ \E i \in DOMAIN def.table :
                   reading = Mode(KeyWord(def.table, i)) /\ d = def.table[i].key
  <2>1. d = parse_sensor_value(text, def, "Europe/Berlin")
    BY <1>1, <1>3 DEF ParsedItem
  <2>2. CASE reading = Missing /\ text = Unavailable
    <3>1. d = Unavailable
      BY <1>1, <2>1, <2>2, ValueFields
         DEF parse_sensor_value, Str, _convert_enum_text_to_key
    <3> QED
      BY <2>2, <3>1
  <2>3. CASE reading = Mode(Unknown) /\ text = Label(Unknown, "none", "title")
    <3>1. resolve_hdg_enum_key(text, def.table) = None /\ text.kind = "label"
      BY <1>1, <2>3, UnknownFindsNoKey, ValueFields
    <3>2. d = text
      BY <1>1, <2>1, <3>1, ValueFields
         DEF parse_sensor_value, Str, _convert_enum_text_to_key
    <3> QED
      BY <2>3, <3>2
  <2>4. ASSUME NEW j \in DOMAIN def.table, reading = Mode(KeyWord(def.table, j)),
               text \in Labels(KeyWord(def.table, j), def.table)
        PROVE  \E i \in DOMAIN def.table :
                  reading = Mode(KeyWord(def.table, i)) /\ d = def.table[i].key
    <3>1. text.kind = "label"
      BY <1>1, <2>4, LabelsFindTheirKey
    <3>2. PICK i \in DOMAIN def.table :
            /\ resolve_hdg_enum_key(text, def.table) = def.table[i].key
            /\ KeyWord(def.table, i) = KeyWord(def.table, j)
      BY <1>1, <2>4, LabelsFindTheirKey
    <3>3. def.table[i].key # None
      BY <1>1, EntriesOfTables, ValueFields
    <3>4. d = def.table[i].key
      BY <1>1, <2>1, <3>1, <3>2, <3>3, ValueFields
         DEF parse_sensor_value, Str, _convert_enum_text_to_key
    <3> QED
      BY <2>4, <3>2, <3>4
  <2> QED
    BY <2>2, <2>3, <2>4, <1>3, ModeRenderings
<1>4. \/ \E text \in Renderings(reading, def) : d = ParsedItem(def, text)
      \/ \E i \in UserInputs(def) : Asked(def, i) = reading /\ d = EntityText(def, i)
      \/ reading = Missing /\ d = None
  BY DEF Held
<1> QED
  BY <1>2, <1>3, <1>4, ModeMeanings

LEMMA ChoiceHeld ==
    ASSUME NEW def, IsChoice(def), NEW reading \in Meanings(def),
           NEW d \in Held(def, reading)
    PROVE  \/ reading = Missing /\ d \in {None, Unavailable}
           \/ d \in Renderings(reading, def)
<1>1. def.parse_as_type = "text" /\ def.divided = FALSE /\ def.table \in ModeTables
  BY KindFields, ModeMeanings
<1>2. ASSUME NEW text \in Renderings(reading, def), d = ParsedItem(def, text)
      PROVE  d = text
  <2>1. text.kind \in {"unavailable", "label"}
    BY <1>1, ModeRenderings, LabelsFindTheirKey, ValueFields
  <2> QED
    BY <1>1, <1>2, <2>1, ValueFields DEF ParsedItem, parse_sensor_value, Str
<1>3. ASSUME NEW i \in UserInputs(def), Asked(def, i) = reading, d = EntityText(def, i)
      PROVE  d \in Renderings(reading, def)
  <2>1. PICK j \in DOMAIN def.table : i = Mode(KeyWord(def.table, j))
    BY ModeMeanings
  <2>2. reading = Mode(KeyWord(def.table, j))
        /\ d = Label(KeyWord(def.table, j), "none", "upper")
    BY <1>3, <2>1, ModeMeanings, ValueFields
  <2>3. def.table # NoTable /\ KeyWord(def.table, j) # Unknown
    BY <1>1, WordsOfTables
  <2>4. reading.kind = "mode" /\ reading.word = KeyWord(def.table, j)
    BY <2>2, ValueFields
  <2>5. Renderings(reading, def) = Labels(KeyWord(def.table, j), def.table)
    BY <2>3, <2>4 DEF Renderings
  <2> QED
    BY <2>2, <2>5 DEF Labels
<1>4. \/ \E text \in Renderings(reading, def) : d = ParsedItem(def, text)
      \/ \E i \in UserInputs(def) : Asked(def, i) = reading /\ d = EntityText(def, i)
      \/ reading = Missing /\ d = None
  BY DEF Held
<1> QED
  BY <1>2, <1>3, <1>4

\* Sensors take no input.
LEMMA SensorsTakeNoInput ==
    ASSUME NEW def, def.platform = "sensor"
    PROVE  UserInputs(def) = {}
  BY DEF UserInputs

\* A poll stores the instant itself, with its zone, or the text that is none.
LEMMA TimeHeld ==
    ASSUME NEW def, IsTime(def), NEW reading \in Meanings(def),
           NEW d \in Held(def, reading)
    PROVE  /\ reading \in Readings(def)
           /\ \/ reading = Missing /\ d = None
              \/ /\ reading # Missing /\ d = reading
                 /\ reading = OverSevenDays \/ \E t \in Int : reading = DateTime(t)
<1>1. /\ def.platform = "sensor" /\ def.parse_as_type = "hdg_datetime_or_text"
      /\ def.table = NoTable /\ def.divided = FALSE
  BY KindFields
<1>2. UserInputs(def) = {}
  BY <1>1, SensorsTakeNoInput
<1>3. reading \in Readings(def)
  BY <1>2 DEF Meanings
<1>4. Readings(def) = {Missing} \cup {DateTime(t) : t \in Instants} \cup {OverSevenDays}
  BY <1>1 DEF Readings
<1>5. \/ reading = Missing \/ reading = OverSevenDays
      \/ \E t \in Int : reading = DateTime(t)
  BY <1>3, <1>4 DEF Instants
<1>6. ASSUME NEW text, text \in Renderings(reading, def), d = ParsedItem(def, text)
      PROVE  (reading = Missing /\ d = None) \/ (reading # Missing /\ d = reading)
  <2>1. text # None =>
            parse_sensor_value(text, def, "Europe/Berlin")
                = _parse_datetime(Str(text), "Europe/Berlin")
    BY <1>1 DEF parse_sensor_value
  <2>2. d = parse_sensor_value(text, def, "Europe/Berlin")
    BY <1>1, <1>6 DEF ParsedItem
  <2>3. CASE reading = Missing
    <3>1. text = Unavailable
      BY <1>6, <2>3, ValueFields DEF Renderings, Missing
    <3>2. _parse_datetime(Str(text), "Europe/Berlin") = None
      BY <3>1, ValueFields DEF _parse_datetime, Str
    <3> QED
      BY <2>1, <2>2, <2>3, <3>1, <3>2, ValueFields
  <2>4. CASE reading = OverSevenDays
    <3>1. text = OverSevenDays
      BY <1>6, <2>4, ValueFields DEF Renderings
    <3>2. _parse_datetime(Str(text), "Europe/Berlin") = OverSevenDays
      BY <3>1, ValueFields DEF _parse_datetime, Str
    <3> QED
      BY <2>1, <2>2, <2>4, <3>1, <3>2, ValueFields DEF Missing
  <2>5. ASSUME NEW t \in Int, reading = DateTime(t)
        PROVE  reading # Missing /\ d = reading
    <3>1. text \in {Local(t + 2), Stamp(t)}
      BY <1>6, <2>5, ValueFields DEF Renderings, Offset
    <3>2. _parse_datetime(Str(text), "Europe/Berlin") = DateTime(t)
      <4>1. CASE text = Local(t + 2)
        BY <4>1, ValueFields DEF _parse_datetime, Str, Offset
      <4>2. CASE text = Stamp(t)
        BY <4>2, ValueFields DEF _parse_datetime, Str
      <4> QED
        BY <3>1, <4>1, <4>2
    <3> QED
      BY <2>1, <2>2, <2>5, <3>1, <3>2, ValueFields DEF Missing
  <2> QED
    BY <1>5, <2>3, <2>4, <2>5
<1>7. \/ \E text \in Renderings(reading, def) : d = ParsedItem(def, text)
      \/ reading = Missing /\ d = None
  BY <1>2 DEF Held
<1> QED
  BY <1>3, <1>5, <1>6, <1>7

LEMMA PlainHeld ==
    ASSUME NEW def, IsPlain(def), NEW reading \in Meanings(def),
           NEW d \in Held(def, reading)
    PROVE  /\ reading \in Readings(def)
           /\ \/ reading = Missing /\ d \in {None, Unavailable}
              \/ \E w : /\ reading = Mode(w) /\ d = Label(w, "none", "title")
                        /\ d \in Renderings(reading, def)
<1>1. /\ def.platform = "sensor" /\ def.table = NoTable /\ def.divided = FALSE
      /\ def.parse_as_type \in {"text", "allow_empty_string", "enum_text"}
  BY KindFields
<1>2. UserInputs(def) = {}
  BY <1>1, SensorsTakeNoInput
<1>3. reading \in Readings(def)
  BY <1>2 DEF Meanings
<1>4. Readings(def) = {Missing} \cup {Mode("a"), Mode("b")}
  BY <1>1 DEF Readings
<1>5. reading = Missing \/ \E w : reading = Mode(w)
  BY <1>3, <1>4
<1>6. ASSUME NEW text \in Renderings(reading, def), d = ParsedItem(def, text),
             text.kind \in {"unavailable", "label"}
      PROVE  d = text
  <2>1. text # None /\ Str(text) = text
    BY <1>6, ValueFields DEF Str
  <2>2. CASE def.parse_as_type # "enum_text"
    BY <1>1, <1>6, <2>1, <2>2 DEF ParsedItem, parse_sensor_value
  <2>3. CASE def.parse_as_type = "enum_text"
    <3>1. resolve_hdg_enum_key(text, NoTable) = None
      <4>1. DOMAIN NoTable = {}
        BY DEF NoTable
      <4> QED
        BY <4>1 DEF resolve_hdg_enum_key
    <3>2. _convert_enum_text_to_key(text, NoTable) = text
      BY <3>1 DEF _convert_enum_text_to_key
    <3> QED
      BY <1>1, <1>6, <2>1, <2>3, <3>2 DEF ParsedItem, parse_sensor_value
  <2> QED
    BY <2>2, <2>3
<1>7. ASSUME NEW text \in Renderings(reading, def)
      PROVE  \/ reading = Missing /\ text = Unavailable
             \/ \E w : reading = Mode(w) /\ text = Label(w, "none", "title")
  <2>1. CASE reading = Missing
    BY <2>1, ValueFields DEF Renderings, Missing
  <2>2. ASSUME NEW w, reading = Mode(w)
        PROVE  text = Label(w, "none", "title")
    <3>1. reading.kind = "mode" /\ reading.word = w
      BY <2>2, ValueFields
    <3> QED
      BY <1>1, <3>1 DEF Renderings
  <2> QED
    BY <1>5, <2>1, <2>2
<1>8. \/ \E text \in Renderings(reading, def) : d = ParsedItem(def, text)
      \/ reading = Missing /\ d = None
  BY <1>2 DEF Held
<1>9. ASSUME NEW text \in Renderings(reading, def), d = ParsedItem(def, text)
      PROVE  \/ reading = Missing /\ d = Unavailable
             \/ \E w : /\ reading = Mode(w) /\ d = Label(w, "none", "title")
                       /\ d \in Renderings(reading, def)
  <2>1. text.kind \in {"unavailable", "label"}
    BY <1>7, ValueFields
  <2> QED
    BY <1>6, <1>7, <1>9, <2>1
<1> QED
  BY <1>3, <1>8, <1>9

-----------------------------------------------------------------------------
(***************************************************************************)
(* What the entities show, kind by kind, in a state of the invariant.      *)
(***************************************************************************)
Shown == IF meant = Missing THEN Missing
         ELSE IF get_optimistic_value # None THEN entered ELSE meant

\* What is missing is not available, and what is not missing is.
LEMMA HeldIsAvailable ==
    ASSUME DataHeld, HasKind(Indexed(node))
    PROVE  available <=> meant # Missing
<1> DEFINE def == Indexed(node)
<1>1. meant \in Meanings(def) /\ data \in Held(def, meant)
  BY DEF DataHeld
<1> HIDE DEF def
<1>2. \A t : OverSevenDays # None /\ OverSevenDays # Unavailable
             /\ DateTime(t) # None /\ DateTime(t) # Unavailable
  BY ValueFields
<1>3. CASE IsNumber(def) \/ IsMeter(def)
  <2>1. meant = Missing \/ \E q \in Int : meant = Float(q)
    BY <1>1, <1>3, FloatMeanings
  <2> QED
    BY <1>1, <1>3, <2>1, FloatHeld, ValueFields DEF available, Missing
<1>4. CASE IsMode(def)
  <2>1. ASSUME NEW i \in DOMAIN def.table
        PROVE  def.table[i].key # None /\ def.table[i].key # Unavailable
    BY <1>1, <1>4, ModeMeanings, EntriesOfTables, ValueFields
  <2>2. \A w : Mode(w) # Missing
    BY ValueFields DEF Missing
  <2>3. \A cut, case : /\ Label(Unknown, cut, case) # None
                       /\ Label(Unknown, cut, case) # Unavailable
    BY ValueFields
  <2> QED
    BY <1>1, <1>4, <2>1, <2>2, <2>3, ModeHeld DEF available
<1>5. CASE IsChoice(def)
  <2>1. \A w : Mode(w) # Missing
    BY ValueFields DEF Missing
  <2>2. ASSUME data \in Renderings(meant, def), meant # Missing
        PROVE  data # None /\ data # Unavailable
    <3>1. data.kind = "label"
      BY <1>1, <1>5, <2>2, ModeRenderings, ModeMeanings, LabelsFindTheirKey,
         ValueFields
    <3> QED
      BY <3>1, ValueFields
  <2>3. ASSUME data \in Renderings(meant, def), meant = Missing
        PROVE  data = Unavailable
    BY <2>3, ValueFields DEF Renderings, Missing
  <2> QED
    BY <1>1, <1>5, <2>2, <2>3, ChoiceHeld DEF available
<1>6. CASE IsTime(def)
  BY <1>1, <1>2, <1>6, TimeHeld DEF available, Missing
<1>7. CASE IsPlain(def)
  <2>1. \A w : /\ Mode(w) # Missing
               /\ Label(w, "none", "title") # None
               /\ Label(w, "none", "title") # Unavailable
    BY ValueFields DEF Missing
  <2> QED
    BY <1>1, <1>7, <2>1, PlainHeld DEF available
<1> QED
  BY <1>3, <1>4, <1>5, <1>6, <1>7 DEF HasKind, def

\* While an input is shown, it is the one under way.
LEMMA InputShown ==
    ASSUME SetUnderWay, get_optimistic_value # None
    PROVE  \E i \in UserInputs(Indexed(node)) :
              /\ get_optimistic_value = EntityText(Indexed(node), i)
              /\ entered = Asked(Indexed(node), i)
<1>1. stage # "idle"
  BY DEF SetUnderWay, get_optimistic_value, NoEntry
<1> QED
  BY <1>1 DEF SetUnderWay, get_optimistic_value

LEMMA MissingPresented ==
    ASSUME NEW def, ~available
    PROVE  Presents(def, native_value(def), Missing)
<1>1. native_value(def) = None
  BY DEF native_value
<1> QED
  BY <1>1 DEF Presents

LEMMA NumberPresented ==
    ASSUME DataHeld, SetUnderWay, NEW def, def = Indexed(node), IsNumber(def),
           available, meant # Missing
    PROVE  Presents(def, native_value(def), Shown)
<1>1. def.platform = "number" /\ def.parse_as_type = "float"
  BY KindFields
<1>2. native_value(def) = NumberShows(def)
  BY <1>1 DEF native_value
<1>3. CASE get_optimistic_value # None
  <2>1. PICK i \in UserInputs(def) :
          get_optimistic_value = EntityText(def, i) /\ entered = Asked(def, i)
    BY <1>3, InputShown
  <2>2. entered \in Meanings(def)
    BY <2>1 DEF Meanings
  <2>3. PICK v \in Int : i = Float(v)
    BY <2>2, FloatMeanings
  <2>4. /\ _parse_number(EntityText(def, i)) = entered
        /\ entered = Float(Rounded(def, v))
        /\ Rounded(def, Rounded(def, v)) = Rounded(def, v)
    BY <1>1, <2>1, <2>3, SentNumberIsReadBack, EntityTextIsNumeral
  <2>5. entered # None /\ entered.v = Rounded(def, v)
    BY <2>4, ValueFields
  <2>6. NumberShows(def) = Float(Rounded(def, entered.v))
    BY <1>3, <2>1, <2>4, <2>5 DEF NumberShows
  <2>7. Shown = entered /\ entered # Missing
    BY <1>3, <2>5 DEF Shown, Missing
  <2> QED
    BY <1>1, <1>2, <2>6, <2>7 DEF Presents
<1>4. CASE get_optimistic_value = None
  <2>1. meant \in Meanings(def) /\ data \in Held(def, meant)
    BY DEF DataHeld
  <2>2. PICK q \in Int : meant = Float(q)
    BY <2>1, FloatMeanings
  <2>3. data = meant \/ (data.kind = "numeral" /\ _parse_number(data) = meant)
    BY <2>1, FloatHeld
  <2>4. _get_value(def) = meant
    <3>1. CASE data = meant
      BY <1>1, <2>2, <3>1, ValueFields DEF _get_value
    <3>2. CASE data.kind = "numeral" /\ _parse_number(data) = meant
      <4>1. data # None /\ Str(data) = data /\ data.kind # "float"
        BY <3>2, ValueFields DEF Str
      <4> QED
        BY <1>1, <3>2, <4>1 DEF _get_value, parse_sensor_value
    <3> QED
      BY <2>3, <3>1, <3>2
  <2>5. NumberShows(def) = Float(Rounded(def, meant.v))
    BY <1>4, <2>2, <2>4, ValueFields DEF NumberShows
  <2>6. Shown = meant
    BY <1>4 DEF Shown
  <2> QED
    BY <1>1, <1>2, <2>5, <2>6 DEF Presents
<1> QED
  BY <1>3, <1>4

\* A sensor shows what is stored, whatever is under way.
LEMMA SensorShowsData ==
    ASSUME SetUnderWay, Indexed(node).platform = "sensor", available, meant # Missing,
           NEW def, def.platform = "sensor"
    PROVE  native_value(def) = _get_value(def) /\ Shown = meant
<1>1. UserInputs(Indexed(node)) = {}
  BY SensorsTakeNoInput
<1>2. get_optimistic_value = None
  BY <1>1, InputShown
<1> QED
  BY <1>2 DEF native_value, Shown

\* Nachlegeschritt: a text sensor shows the number that was parsed for the other.
LEMMA MeterPresented ==
    ASSUME DataHeld, SetUnderWay, IsMeter(Indexed(node)), available, meant # Missing,
           NEW def, def = Indexed(node) \/ def = create_text_sensor("text")
    PROVE  Presents(def, native_value(def), Shown)
<1>1. /\ Indexed(node).platform = "sensor" /\ Indexed(node).parse_as_type = "float"
  BY KindFields
<1>2. IsPlain(create_text_sensor("text"))
  BY DEF IsPlain, create_text_sensor
<1>3. /\ def.platform = "sensor"
      /\ \/ def.parse_as_type = "float"
         \/ def.parse_as_type = "text" /\ def.divided = FALSE
  BY <1>1, <1>2, KindFields DEF create_text_sensor, _create_sensor_definition
<1>4. native_value(def) = _get_value(def) /\ Shown = meant
  BY <1>1, <1>3, SensorShowsData
<1>5. meant \in Meanings(Indexed(node)) /\ data \in Held(Indexed(node), meant)
  BY DEF DataHeld
<1>6. PICK q \in Int : meant = Float(q)
  BY <1>5, FloatMeanings
<1>7. data = meant
  BY <1>1, <1>5, FloatHeld
<1>8. meant.kind = "float" /\ meant.v = q /\ data # None
  BY <1>6, <1>7, ValueFields
<1>9. CASE def.parse_as_type = "float"
  BY <1>3, <1>4, <1>7, <1>8, <1>9 DEF _get_value, Presents
<1>10. CASE def.parse_as_type = "text" /\ def.divided = FALSE
  <2>1. _get_value(def) = FloatText(q)
    BY <1>7, <1>8, <1>10 DEF _get_value, parse_sensor_value, Str
  <2>2. FloatText(q) \in Renderings(meant, def)
    BY <1>8, <1>10, FloatTextIsNumeral DEF Renderings
  <2> QED
    BY <1>3, <1>4, <1>8, <1>10, <2>1, <2>2 DEF Presents
<1> QED
  BY <1>3, <1>9, <1>10

LEMMA ModePresented ==
    ASSUME DataHeld, SetUnderWay, NEW def, def = Indexed(node), IsMode(def),
           available, meant # Missing
    PROVE  Presents(def, native_value(def), Shown)
<1>1. def.platform = "sensor" /\ def.parse_as_type = "enum_text"
  BY KindFields
<1>2. native_value(def) = _get_value(def) /\ Shown = meant
  BY <1>1, SensorShowsData
<1>3. meant \in Meanings(def) /\ data \in Held(def, meant)
  BY DEF DataHeld
<1>4. def.table \in ModeTables /\ def.table # NoTable
  BY <1>3, ModeMeanings, TablesAreFull
<1>5. ASSUME meant = Mode(Unknown), data = Label(Unknown, "none", "title")
      PROVE  Presents(def, native_value(def), Shown)
  <2>1. resolve_hdg_enum_key(data, def.table) = None
    BY <1>4, <1>5, UnknownFindsNoKey
  <2>2. data.kind = "label" /\ data # None /\ Str(data) = data
    BY <1>5, ValueFields DEF Str
  <2>3. _get_value(def) = data
    BY <1>1, <2>1, <2>2
       DEF _get_value, parse_sensor_value, _convert_enum_text_to_key
  <2>4. meant.kind = "mode" /\ meant.word = Unknown
    BY <1>5, ValueFields
  <2>5. data \in Renderings(meant, def)
    BY <1>4, <1>5, <2>4 DEF Renderings
  <2> QED
    BY <1>1, <1>2, <1>4, <2>3, <2>4, <2>5 DEF Presents
<1>6. ASSUME NEW j \in DOMAIN def.table, meant = Mode(KeyWord(def.table, j)),
             data = def.table[j].key
      PROVE  Presents(def, native_value(def), Shown)
  <2>1. PICK case : data = Label(KeyWord(def.table, j), "none", case)
    BY <1>4, <1>6, EntriesOfTables, ValueFields DEF KeyWord
  <2>2. PICK i \in DOMAIN def.table :
          /\ resolve_hdg_enum_key(data, def.table) = def.table[i].key
          /\ KeyWord(def.table, i) = KeyWord(def.table, j)
    BY <1>4, <2>1, KeyFound
  <2>3. data.kind = "label" /\ data # None /\ Str(data) = data
    BY <2>1, ValueFields DEF Str
  <2>4. def.table[i].key # None
    BY <1>4, EntriesOfTables, ValueFields
  <2>5. _get_value(def) = def.table[i].key
    BY <1>1, <2>2, <2>3, <2>4
       DEF _get_value, parse_sensor_value, _convert_enum_text_to_key
  <2>6. meant.kind = "mode" /\ meant.word = KeyWord(def.table, j)
    BY <1>6, ValueFields
  <2>7. def.table[i].key \in Keys(def.table) /\ def.table[i].key.word = meant.word
    BY <2>2, <2>6 DEF Keys, KeyWord
  <2> QED
    BY <1>1, <1>2, <1>4, <2>5, <2>6, <2>7 DEF Presents
<1> QED
  BY <1>3, <1>5, <1>6, ModeHeld

LEMMA ChoicePresented ==
    ASSUME DataHeld, SetUnderWay, NEW def, def = Indexed(node), IsChoice(def),
           available, meant # Missing
    PROVE  Presents(def, native_value(def), Shown)
<1>1. def.platform = "select" /\ def.parse_as_type = "text" /\ def.uppercase_value
  BY KindFields
<1>2. native_value(def) = current_option(def)
  BY <1>1 DEF native_value
<1>3. ASSUME NEW w, Shown # Missing, Shown.word = w,
             current_option(def) = Label(w, "none", "lower")
      PROVE  Presents(def, native_value(def), Shown)
  BY <1>1, <1>2, <1>3 DEF Presents
<1>4. CASE get_optimistic_value # None
  <2>1. PICK i \in UserInputs(def) :
          get_optimistic_value = EntityText(def, i) /\ entered = Asked(def, i)
    BY <1>4, InputShown
  <2>2. entered \in Meanings(def)
    BY <2>1 DEF Meanings
  <2>3. PICK j \in DOMAIN def.table : i = Mode(KeyWord(def.table, j))
    BY <2>2, ModeMeanings
  <2>4. /\ get_optimistic_value = Label(i.word, "none", "upper")
        /\ entered = i /\ Shown = entered
    BY <1>4, <2>1, <2>2, ModeMeanings DEF Shown
  <2>5. Shown # Missing /\ Shown.word = i.word
    BY <2>3, <2>4, ValueFields DEF Missing
  <2>6. current_option(def) = Label(i.word, "none", "lower")
    BY <1>1, <1>4, <2>4, FoldedLabels DEF current_option
  <2> QED
    BY <1>3, <2>5, <2>6
<1>5. CASE get_optimistic_value = None
  <2>1. meant \in Meanings(def) /\ data \in Held(def, meant)
    BY DEF DataHeld
  <2>2. data \in Renderings(meant, def) /\ def.table \in ModeTables
    BY <2>1, ChoiceHeld, ModeMeanings
  <2>3. data.kind = "label"
    BY <2>1, <2>2, ModeRenderings, LabelsFindTheirKey, ValueFields
  <2>4. data # None /\ Str(data) = data
    BY <2>3, ValueFields DEF Str
  <2>5. _get_value(def) = data
    BY <1>1, <2>3, <2>4 DEF _get_value, parse_sensor_value
  <2>6. Shown = meant
    BY <1>5 DEF Shown
  <2>7. ASSUME meant = Mode(Unknown), data = Label(Unknown, "none", "title")
        PROVE  Presents(def, native_value(def), Shown)
    <3>1. resolve_hdg_enum_key(data, def.table) = None
      BY <2>2, <2>7, UnknownFindsNoKey
    <3>2. current_option(def) = Label(Unknown, "none", "lower")
      BY <1>1, <1>5, <2>5, <2>7, <3>1, FoldedLabels DEF current_option
    <3>3. Shown.word = Unknown
      BY <2>6, <2>7, ValueFields
    <3> QED
      BY <1>3, <2>6, <3>2, <3>3
  <2>8. ASSUME NEW j \in DOMAIN def.table, meant = Mode(KeyWord(def.table, j)),
               data \in Labels(KeyWord(def.table, j), def.table)
        PROVE  Presents(def, native_value(def), Shown)
    <3>1. PICK i \in DOMAIN def.table :
            /\ resolve_hdg_enum_key(data, def.table) = def.table[i].key
            /\ KeyWord(def.table, i) = KeyWord(def.table, j)
      BY <2>2, <2>8, LabelsFindTheirKey
    <3>2. PICK case : def.table[i].key = Label(KeyWord(def.table, j), "none", case)
      BY <2>2, <3>1, EntriesOfTables, ValueFields DEF KeyWord
    <3>3. def.table[i].key # None
      BY <3>2, ValueFields
    <3>4. current_option(def) = lower(def.table[i].key)
      BY <1>1, <1>5, <2>5, <3>1, <3>3 DEF current_option
    <3>5. current_option(def) = Label(KeyWord(def.table, j), "none", "lower")
      BY <3>2, <3>4, FoldedLabels
    <3>6. Shown.word = KeyWord(def.table, j)
      BY <2>6, <2>8, ValueFields
    <3> QED
      BY <1>3, <2>6, <3>5, <3>6
  <2> QED
    BY <2>1, <2>2, <2>7, <2>8, ModeRenderings
<1> QED
  BY <1>4, <1>5

LEMMA TimePresented ==
    ASSUME DataHeld, SetUnderWay, NEW def, def = Indexed(node), IsTime(def),
           available, meant # Missing
    PROVE  Presents(def, native_value(def), Shown)
<1>1. def.platform = "sensor" /\ def.parse_as_type = "hdg_datetime_or_text"
      /\ def.table = NoTable
  BY KindFields
<1>2. native_value(def) = _get_value(def) /\ Shown = meant
  BY <1>1, SensorShowsData
<1>3. meant \in Meanings(def) /\ data \in Held(def, meant)
  BY DEF DataHeld
<1>4. data = meant /\ (meant = OverSevenDays \/ \E t \in Int : meant = DateTime(t))
  BY <1>3, TimeHeld
<1>5. data.kind # "float" /\ data # None /\ meant.kind # "mode"
  BY <1>4, ValueFields
<1>6. _get_value(def) = _parse_datetime(Str(data), SourceTimezone)
  BY <1>1, <1>5 DEF _get_value, parse_sensor_value
<1>7. _parse_datetime(Str(data), SourceTimezone) = meant
  <2>1. CASE meant = OverSevenDays
    BY <1>4, <2>1, ValueFields DEF Str, _parse_datetime
  <2>2. ASSUME NEW t \in Int, meant = DateTime(t)
        PROVE  _parse_datetime(Str(data), SourceTimezone) = meant
    <3>1. Str(data) = Stamp(t)
      BY <1>4, <2>2, ValueFields DEF Str
    <3> QED
      BY <2>2, <3>1, ValueFields DEF _parse_datetime
  <2> QED
    BY <1>4, <2>1, <2>2
<1> QED
  BY <1>1, <1>2, <1>5, <1>6, <1>7 DEF Presents

LEMMA PlainPresented ==
    ASSUME DataHeld, SetUnderWay, NEW def, def = Indexed(node), IsPlain(def),
           available, meant # Missing
    PROVE  Presents(def, native_value(def), Shown)
<1>1. /\ def.platform = "sensor" /\ def.table = NoTable
      /\ def.parse_as_type \in {"text", "allow_empty_string", "enum_text"}
  BY KindFields
<1>2. native_value(def) = _get_value(def) /\ Shown = meant
  BY <1>1, SensorShowsData
<1>3. meant \in Meanings(def) /\ data \in Held(def, meant)
  BY DEF DataHeld
<1>4. PICK w : /\ meant = Mode(w) /\ data = Label(w, "none", "title")
               /\ data \in Renderings(meant, def)
  BY <1>3, PlainHeld
<1>5. data.kind = "label" /\ data # None /\ Str(data) = data
  BY <1>4, ValueFields DEF Str
<1>6. resolve_hdg_enum_key(data, NoTable) = None
  <2>1. DOMAIN NoTable = {}
    BY DEF NoTable
  <2> QED
    BY <2>1 DEF resolve_hdg_enum_key
<1>7. _get_value(def) = data
  BY <1>1, <1>5, <1>6
     DEF _get_value, parse_sensor_value, _convert_enum_text_to_key
<1> QED
  BY <1>1, <1>2, <1>4, <1>7 DEF Presents

LEMMA InvariantShowsTruth ==
    ASSUME ValuesInv
    PROVE  DisplayTrue
<1> SUFFICES ASSUME NEW i \in DOMAIN node
             PROVE  Presents(node[i], native_value(node[i]), Shown)
  BY DEF DisplayTrue, Shown
<1>1. /\ HasKind(Indexed(node)) /\ DataHeld /\ SetUnderWay
      /\ \/ node = Nachlegeschritt
         \/ DOMAIN node = {1} /\ node[1] = Indexed(node)
  BY NodeKinds DEF ValuesInv
<1>2. CASE meant = Missing
  <2>1. ~available /\ Shown = Missing
    BY <1>1, <1>2, HeldIsAvailable DEF Shown
  <2> QED
    BY <2>1, MissingPresented
<1>3. CASE meant # Missing /\ node = Nachlegeschritt
  <2>1. available
    BY <1>1, <1>3, HeldIsAvailable
  <2>2. /\ Indexed(node) = FloatSensor
        /\ node[i] \in {FloatSensor, create_text_sensor("text")}
    BY <1>3 DEF Nachlegeschritt, Indexed, create_percentage_sensor
  <2>3. IsMeter(Indexed(node))
    BY <2>2 DEF IsMeter
  <2> QED
    BY <1>1, <1>3, <2>1, <2>2, <2>3, MeterPresented
<1>4. CASE meant # Missing /\ node[i] = Indexed(node)
  <2>1. available
    BY <1>1, <1>4, HeldIsAvailable
  <2> QED
    BY <1>1, <1>4, <2>1, NumberPresented, MeterPresented, ModePresented,
       ChoicePresented, TimePresented, PlainPresented DEF HasKind
<1> QED
  BY <1>1, <1>2, <1>3, <1>4

\* The data of the kinds is in the sets that ValuesTypeOK names.
LEMMA HeldIsTyped ==
    ASSUME NEW def, HasKind(def), NEW reading \in Meanings(def),
           NEW d \in Held(def, reading)
    PROVE  d \in {None} \cup ParsedValues(def) \cup SentTexts(def)
<1>1. CASE IsNumber(def) \/ IsMeter(def)
  <2>1. def.parse_as_type = "float"
    BY <1>1, KindFields
  <2>2. reading # Missing => reading \in ParsedValues(def)
    BY <1>1, <2>1, FloatMeanings DEF ParsedValues
  <2> QED
    BY <1>1, <2>2, FloatHeld
<1>2. CASE IsMode(def)
  <2>1. def.parse_as_type = "enum_text" /\ def.table # NoTable
    BY <1>2, KindFields, ModeMeanings, TablesAreFull
  <2>2. ParsedValues(def)
            = Keys(def.table) \cup {Label(Unknown, "none", "title"), Unavailable}
    BY <2>1 DEF ParsedValues
  <2> QED
    BY <1>2, <2>2, ModeHeld DEF Keys
<1>3. CASE IsChoice(def)
  <2>1. def.parse_as_type = "text"
    BY <1>3, KindFields
  <2>2. ParsedValues(def) = UNION {Renderings(r, def) : r \in Readings(def)}
    BY <2>1 DEF ParsedValues
  <2>3. reading \in Readings(def) /\ Missing \in Readings(def)
    BY <1>3, ModeMeanings DEF Readings
  <2>4. Unavailable \in Renderings(Missing, def)
    BY ValueFields DEF Renderings, Missing
  <2> QED
    BY <1>3, <2>2, <2>3, <2>4, ChoiceHeld
<1>4. CASE IsTime(def)
  <2>1. def.parse_as_type = "hdg_datetime_or_text"
    BY <1>4, KindFields
  <2>2. ParsedValues(def) = Readings(def)
    BY <2>1 DEF ParsedValues
  <2> QED
    BY <1>4, <2>2, TimeHeld
<1>5. CASE IsPlain(def)
  <2>1. /\ def.table = NoTable
        /\ def.parse_as_type \in {"text", "allow_empty_string", "enum_text"}
    BY <1>5, KindFields
  <2>2. ParsedValues(def) = UNION {Renderings(r, def) : r \in Readings(def)}
    BY <2>1 DEF ParsedValues
  <2>3. reading \in Readings(def) /\ Missing \in Readings(def)
    BY <1>5, PlainHeld DEF Readings
  <2>4. Unavailable \in Renderings(Missing, def)
    BY ValueFields DEF Renderings, Missing
  <2> QED
    BY <1>5, <2>2, <2>3, <2>4, PlainHeld
<1> QED
  BY <1>1, <1>2, <1>3, <1>4, <1>5 DEF HasKind

\* The text of a SET is one of the ways in which the boiler would write its value.
LEMMA SentTextIsRendering ==
    ASSUME NEW def, HasKind(def), NEW i \in UserInputs(def)
    PROVE  EntityText(def, i) \in Renderings(Asked(def, i), def)
<1>1. Asked(def, i) \in Meanings(def)
  BY DEF Meanings
<1>2. CASE IsNumber(def) \/ IsMeter(def)
  <2>1. def.platform = "number"
    BY <1>1, <1>2, FloatMeanings
  <2>2. PICK v \in Int : i = Float(v)
    BY <1>1, <1>2, FloatMeanings
  <2>3. IsNumber(def)
    BY <1>2, <2>1, KindFields
  <2>4. def.divided = FALSE
    BY <2>3, KindFields
  <2>5. /\ EntityText(def, i) \in Numerals(Rounded(def, v))
        /\ Asked(def, i) = Float(Rounded(def, v))
    BY <2>1, <2>2, EntityTextIsNumeral
  <2>6. Renderings(Asked(def, i), def) = Numerals(Rounded(def, v))
    BY <2>4, <2>5, ValueFields DEF Renderings
  <2> QED
    BY <2>5, <2>6
<1>3. CASE IsMode(def) \/ IsChoice(def)
  <2>1. def.table \in ModeTables
    BY <1>1, <1>3, ModeMeanings
  <2>2. PICK j \in DOMAIN def.table : i = Mode(KeyWord(def.table, j))
    BY <1>1, <1>3, ModeMeanings
  <2>3. def.table # NoTable /\ KeyWord(def.table, j) # Unknown
    BY <2>1, WordsOfTables
  <2>4. /\ Asked(def, i) = i /\ i.kind = "mode" /\ i.word = KeyWord(def.table, j)
        /\ EntityText(def, i) = Label(KeyWord(def.table, j), "none", "upper")
    BY <1>1, <1>3, <2>2, ModeMeanings, ValueFields
  <2>5. Renderings(i, def) = Labels(KeyWord(def.table, j), def.table)
    BY <2>3, <2>4 DEF Renderings
  <2> QED
    BY <2>4, <2>5 DEF Labels
<1>4. CASE IsTime(def) \/ IsPlain(def)
  <2>1. def.platform = "sensor"
    BY <1>4, KindFields
  <2> QED
    BY <2>1, SensorsTakeNoInput
<1> QED
  BY <1>2, <1>3, <1>4 DEF HasKind

LEMMA InvariantIsTyped ==
    ASSUME ValuesInv
    PROVE  ValuesTypeOK
<1> DEFINE def == Indexed(node)
<1>1. HasKind(def) /\ node \in NodesDefined
  BY NodeKinds DEF ValuesInv
<1>2. /\ {boiler, meant, oldMeant} \subseteq Meanings(def)
      /\ data \in Held(def, meant) /\ old \in Held(def, oldMeant)
  BY DEF ValuesInv, DataHeld
<1>3. /\ stage \in {"idle", "entered", "sent"}
      /\ changes \in 0..MaxChanges /\ inputs \in 0..MaxInputs
      /\ IF stage = "idle" THEN optimistic = NoEntry
         ELSE \E i \in UserInputs(def), age \in Ages \ {"none"} :
                 /\ optimistic = [text |-> EntityText(def, i), age |-> age]
                 /\ entered = Asked(def, i)
  BY DEF ValuesInv, SetUnderWay
<1> HIDE DEF def
<1>4. /\ data \in {None} \cup ParsedValues(def) \cup SentTexts(def)
      /\ old \in {None} \cup ParsedValues(def) \cup SentTexts(def)
  BY <1>1, <1>2, HeldIsTyped
<1>5. boiler \in Readings(def) \cup {Asked(def, i) : i \in UserInputs(def)}
  BY <1>2 DEF Meanings
<1>6. optimistic.age \in Ages
  BY <1>3 DEF NoEntry, Ages
<1>7. CASE stage = "idle"
  BY <1>1, <1>3, <1>4, <1>5, <1>6, <1>7 DEF ValuesTypeOK, def
<1>8. CASE stage # "idle"
  <2>1. PICK i \in UserInputs(def), age \in Ages \ {"none"} :
          /\ optimistic = [text |-> EntityText(def, i), age |-> age]
          /\ entered = Asked(def, i)
    BY <1>3, <1>8
  <2>2. optimistic.text = EntityText(def, i)
    BY <2>1
  <2>3. optimistic.text \in SentTexts(def) \cap Renderings(entered, def)
    BY <1>1, <2>1, <2>2, SentTextIsRendering DEF SentTexts
  <2> QED
    BY <1>1, <1>3, <1>4, <1>5, <1>6, <1>8, <2>3 DEF ValuesTypeOK, def
<1> QED
  BY <1>7, <1>8

-----------------------------------------------------------------------------
(***************************************************************************)
(* The invariant holds in every state.                                     *)
(***************************************************************************)

\* What is stored of an answer is a rendering of the boiler's reading.
LEMMA StoredIsRendering ==
    ASSUME NEW items \in PolledItems, NEW k \in DOMAIN items,
           _process_single_item(items[k])
    PROVE  items[k].text \in Renderings(boiler, Indexed(node))
<1> DEFINE texts == Renderings(boiler, Indexed(node))
           again == Item("T", CHOOSE t \in texts : TRUE)
           Answers(t) == {<<Item("T", t)>>, <<Item("none", t), again>>}
                         \cup {<<j, Item("none", t)>> : j \in Junk}
<1>1. PICK t \in texts : items \in Answers(t)
  <2>1. PolledItems = UNION {Answers(t) : t \in texts}
    BY DEF PolledItems
  <2> HIDE DEF Answers, texts
  <2> QED
    BY <2>1
<1>2. \A suffix, text : /\ Item(suffix, text).text = text
                        /\ Item(suffix, text).suffix = suffix
  BY DEF Item
<1>3. items[k].text # None /\ items[k].suffix \in {"none", "T"}
  BY DEF _process_single_item, IsKnown
<1>4. CASE items = <<Item("T", t)>>
  BY <1>2, <1>4
<1>5. CASE items = <<Item("none", t), again>>
  <2>1. (CHOOSE u \in texts : TRUE) \in texts
    OBVIOUS
  <2> QED
    BY <1>2, <1>5, <2>1
<1>6. ASSUME NEW j \in Junk, items = <<j, Item("none", t)>>
      PROVE  items[k].text \in texts
  <2>1. k \in {1, 2} /\ items[1] = j /\ items[2] = Item("none", t)
    BY <1>6
  <2>2. j.text = None \/ j.suffix \notin {"none", "T"}
    BY <1>2 DEF Junk
  <2> QED
    BY <1>2, <1>3, <2>1, <2>2
<1> QED
  BY <1>1, <1>4, <1>5, <1>6

LEMMA PollStores ==
    ASSUME NEW items \in PolledItems, process_api_items(items)
    PROVE  \/ /\ meant' = boiler
              /\ \E text \in Renderings(boiler, Indexed(node)) :
                    data' = ParsedItem(Indexed(node), text)
           \/ data' = data /\ meant' = meant
  BY StoredIsRendering DEF process_api_items, PolledValue

LEMMA ValuesStart == Init => ValuesInv
<1> SUFFICES ASSUME Init PROVE ValuesInv
  OBVIOUS
<1>1. boiler \in Meanings(Indexed(node)) /\ Missing \in Meanings(Indexed(node))
  BY DEF Init, Meanings, Readings
<1>2. None \in Held(Indexed(node), Missing)
  BY DEF Held
<1> QED
  BY <1>1, <1>2, ValuesAssumption DEF Init, ValuesInv, DataHeld, SetUnderWay

LEMMA ValuesStep ==
    ASSUME ValuesInv, [Next]_vars
    PROVE  ValuesInv'
<1> DEFINE def == Indexed(node)
<1>1. node' = node
  BY DEF Next, vars, Poll, UserSets, SetSent, SetConfirmed, SetFails, TimePasses,
     BoilerChanges
<1>2. node \in NodesDefined /\ DataHeld /\ SetUnderWay
      /\ stage \in {"idle", "entered", "sent"}
      /\ changes \in 0..MaxChanges /\ inputs \in 0..MaxInputs
  BY DEF ValuesInv
<1>3. None \in Held(def, Missing) /\ Missing \in Meanings(def)
  BY DEF Held, Meanings, Readings
<1>4. CASE Poll
  <2>1. \/ meant' = boiler /\ data' \in Held(def, boiler)
        \/ data' = data /\ meant' = meant
    BY <1>4, PollStores DEF Poll, Held
  <2>2. /\ boiler' = boiler /\ old' = old /\ oldMeant' = oldMeant
        /\ optimistic' = optimistic /\ stage' = stage /\ entered' = entered
        /\ changes' = changes /\ inputs' = inputs
    BY <1>4 DEF Poll
  <2>3. DataHeld'
    BY <1>1, <1>2, <2>1, <2>2 DEF DataHeld
  <2> QED
    BY <1>1, <1>2, <2>2, <2>3 DEF ValuesInv, SetUnderWay
<1>5. CASE UserSets
  <2>1. DataHeld'
    BY <1>1, <1>2, <1>5 DEF UserSets, DataHeld
  <2>2. SetUnderWay'
    <3>1. PICK i \in UserInputs(def) :
            /\ optimistic' = [text |-> EntityText(def, i), age |-> "recent"]
            /\ entered' = Asked(def, i)
      BY <1>5 DEF UserSets
    <3> QED
      BY <1>1, <1>5, <3>1 DEF UserSets, SetUnderWay, Ages
  <2> QED
    BY <1>1, <1>2, <1>5, <2>1, <2>2, ValuesAssumption DEF UserSets, ValuesInv
<1>6. CASE SetSent
  <2>1. DataHeld' /\ SetUnderWay'
    BY <1>1, <1>2, <1>6 DEF SetSent, DataHeld, SetUnderWay
  <2> QED
    BY <1>1, <1>2, <1>6, <2>1 DEF SetSent, ValuesInv
<1>7. CASE SetConfirmed
  <2>1. PICK i \in UserInputs(def), age \in Ages \ {"none"} :
          /\ optimistic = [text |-> EntityText(def, i), age |-> age]
          /\ entered = Asked(def, i)
    BY <1>2, <1>7 DEF SetConfirmed, SetUnderWay
  <2>2. optimistic.text = EntityText(def, i)
    BY <2>1
  <2>3. entered \in Meanings(def) /\ optimistic.text \in Held(def, entered)
    BY <2>1, <2>2 DEF Meanings, Held
  <2>4. DataHeld'
    BY <1>1, <1>3, <1>7, <2>3 DEF SetConfirmed, SetEnds, DataHeld
  <2>5. SetUnderWay'
    BY <1>7 DEF SetConfirmed, SetEnds, SetUnderWay
  <2> QED
    BY <1>1, <1>2, <1>7, <2>4, <2>5 DEF SetConfirmed, ValuesInv
<1>8. CASE SetFails
  <2>1. PICK i \in UserInputs(def), age \in Ages \ {"none"} :
          /\ optimistic = [text |-> EntityText(def, i), age |-> age]
          /\ entered = Asked(def, i)
    BY <1>2, <1>8 DEF SetFails, SetUnderWay
  <2>2. entered \in Meanings(def)
    BY <2>1 DEF Meanings
  <2>3. DataHeld'
    BY <1>1, <1>2, <1>3, <1>8, <2>2 DEF SetFails, SetEnds, DataHeld
  <2>4. SetUnderWay'
    BY <1>8 DEF SetFails, SetEnds, SetUnderWay
  <2> QED
    BY <1>1, <1>2, <1>8, <2>3, <2>4 DEF SetFails, ValuesInv
<1>9. CASE TimePasses
  <2>1. PICK i \in UserInputs(def), age \in Ages \ {"none"} :
          /\ optimistic = [text |-> EntityText(def, i), age |-> age]
          /\ entered = Asked(def, i)
    BY <1>2, <1>9 DEF TimePasses, SetUnderWay
  <2>2. \E later \in Ages \ {"none"} :
           optimistic' = [text |-> EntityText(def, i), age |-> later]
    BY <1>9, <2>1 DEF TimePasses, Ages
  <2>3. SetUnderWay'
    BY <1>1, <1>9, <2>1, <2>2 DEF TimePasses, SetUnderWay
  <2>4. DataHeld'
    BY <1>1, <1>2, <1>9 DEF TimePasses, DataHeld
  <2> QED
    BY <1>1, <1>2, <1>9, <2>3, <2>4 DEF TimePasses, ValuesInv
<1>10. CASE BoilerChanges
  <2>1. DataHeld'
    BY <1>1, <1>2, <1>10 DEF BoilerChanges, DataHeld, Meanings
  <2>2. SetUnderWay'
    BY <1>1, <1>2, <1>10 DEF BoilerChanges, SetUnderWay
  <2> QED
    BY <1>1, <1>2, <1>10, <2>1, <2>2, ValuesAssumption DEF BoilerChanges, ValuesInv
<1>11. CASE UNCHANGED vars
  BY <1>2, <1>11 DEF vars, ValuesInv, DataHeld, SetUnderWay
<1> QED
  BY <1>4, <1>5, <1>6, <1>7, <1>8, <1>9, <1>10, <1>11 DEF Next

(***************************************************************************)
(* What the data of a node holds, what a rollback would restore and what a *)
(* SET under way will leave stand, in every state, for the reading that    *)
(* they were made from or the value that was asked for                     *)
(* (process_api_items, _execute_set_request, async_set_node_value).        *)
(***************************************************************************)
THEOREM DataStandsForItsReading == Spec => []ValuesInv
  BY ValuesStart, ValuesStep, PTL DEF Spec

\* Data is what parsing gives or what a SET sent, and what is sent is readable.
THEOREM ValuesTyped == Spec => []ValuesTypeOK
  BY DataStandsForItsReading, InvariantIsTyped, PTL

(***************************************************************************)
(* Every entity shows what its data stands for, or the value under way, in *)
(* both time zones, after any number of changes and inputs (native_value,  *)
(* current_option).                                                        *)
(***************************************************************************)
THEOREM EntitiesShowTheTruth == Spec => []DisplayTrue
  BY DataStandsForItsReading, InvariantShowsTruth, PTL
=============================================================================
