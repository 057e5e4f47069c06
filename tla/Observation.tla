---------------------------- MODULE Observation ----------------------------
(***************************************************************************)
(* CurrentConditions: what becomes of a station's answer on its way from   *)
(* JSON to the screen.  An int is narrower here: IntMax stands for INT_MAX *)
(* and, as in the code, for a value that is missing.  Of texts only the    *)
(* station's URI has parts: the sequence of what is between its slashes.   *)
(***************************************************************************)
EXTENDS Json, SequencesExt

CONSTANT IntMax

ASSUME IntMaxAssumption == IntMax \in Nat /\ IntMax >= 200000

(* What the builds make of a product that overflows. *)
Wrap(n) == ((n + IntMax + 1) % (2 * IntMax + 2)) - IntMax - 1

(* The members of _currentConditions, as Write puts them and Read takes    *)
(* them.                                                                   *)
Names == <<"temperature", "relativeHumidity", "barometricPressure",
           "dewpoint", "windSpeed", "windChill", "heatIndex">>

WriteOrder == <<"station", "timestamp">> \o Names

(* The dewpoint and the wind speed are taken in the other's place. *)
ReadOrder_Swapped ==
    <<"station", "timestamp", "temperature", "relativeHumidity",
      "barometricPressure", "windSpeed", "dewpoint", "windChill",
      "heatIndex">>

ReadOrder == WriteOrder

Members == {WriteOrder[i] : i \in DOMAIN WriteOrder}

(* FromJson of a CurrentCondition: a value that is no number is missing,   *)
(* and only the texts decide whether the object is accepted.               *)
Condition(j) ==
    [value |-> IF Has(j, "value", "number") THEN AsInt(Get(j, "value"))
               ELSE IntMax,
     unit |-> IF Has(j, "unitCode", "string") THEN Val(j, "unitCode") ELSE "",
     ok |-> Has(j, "unitCode", "string") /\ Has(j, "qualityControl", "string")]

(* A float has 24 bits.  As long as 9 * value is within this number, what   *)
(* the three float steps below give after the truncation is the exact      *)
(* result; beyond it they round, which is not modelled, and the properties *)
(* do not ask for such a value.                                            *)
FloatExact == 8388608

(* 9 * value, then / 5 + 32.5 as float; another unit changes nothing, and  *)
(* what the function returns for it is ignored.                            *)
CelsiusToFahrenheit(c) ==
    IF c.unit \in {"unit:degC", "wmoUnit:degC"}
    THEN Quotient(2 * Wrap(9 * c.value) + 325, 10)
    ELSE c.value

(* The speed in mph; not for one that is missing or in another unit.  A    *)
(* double that does not fit an int has no defined value as one: the result *)
(* beyond IntMax stands for it, and the properties do not ask for it.      *)
MetersPerSecondToMph(c) ==
    IF c.unit = "unit:m_s-1"
    THEN Quotient(c.value * 223694 + 50000, 100000)
    ELSE Quotient(c.value * 621371 + 500000, 1000000)

WindUnits == {"unit:m_s-1", "unit:km_h-1", "wmoUnit:km_h-1"}

(* What FromJson makes of the member of that name. *)
Assigned(name, c, before) ==
    CASE name \in {"temperature", "windChill", "heatIndex"} ->
            IF c.value # IntMax THEN CelsiusToFahrenheit(c) ELSE before
      [] name = "dewpoint" -> CelsiusToFahrenheit(c)
      [] name = "windSpeed" ->
            IF c.value # IntMax /\ c.unit \in WindUnits
            THEN MetersPerSecondToMph(c) ELSE before
      [] OTHER -> c.value

(* The names that the nested ifs get to: each needs the ones before it. *)
Reached(props) ==
    {i \in DOMAIN Names :
        \A k \in 1..i : /\ Has(props, Names[k], "object")
                        /\ Condition(Get(props, Names[k])).ok}

(* The members that are set to IntMax at the start. *)
Reset_Temperature == {"temperature"}

Reset == {"temperature", "windSpeed", "windChill", "heatIndex"}

(* The part after the last '/', unless there is none after it. *)
StationOf(uri) ==
    IF Len(uri) > 1 /\ Last(uri) # "" THEN <<Last(uri)>> ELSE uri

(* FromJson, into an object that still has the members of another answer.  *)
FromJson(old, j) ==
    LET cleared == [m \in Members |-> IF m \in Reset THEN IntMax ELSE old[m]]
        props == Get(j, "properties")
        reached == Reached(props)
    IN  IF ~Has(j, "properties", "object") \/ ~Has(props, "station", "string")
        THEN [obj |-> cleared, rc |-> FALSE]
        ELSE [obj |->
                [m \in Members |->
                    IF m = "station" THEN StationOf(Val(props, "station"))
                    ELSE IF \E i \in reached : Names[i] = m
                         THEN Assigned(m, Condition(Get(props, m)), cleared[m])
                         ELSE cleared[m]],
              rc |-> reached = DOMAIN Names]

(* An answer without a temperature is taken. *)
GetCurrentConditions_NoCheck(old, j, now) ==
    LET parsed == FromJson(old, j)
    IN  [parsed EXCEPT !.obj.timestamp = now]

(* Utils::GetCurrentConditions, with the answer it got. *)
GetCurrentConditions(old, j, now) ==
    LET parsed == FromJson(old, j)
    IN  [obj |-> [parsed.obj EXCEPT !.timestamp = now],
         rc |-> parsed.rc /\ parsed.obj.temperature # IntMax]

(* A cell of the table: a number, or "---". *)
Number(n) == <<n>>

Dashes == <<>>

(* PrintCurrentConditions of mcweather. *)
Row(o) ==
    [m \in Members |->
        IF m \in {"windSpeed", "windChill", "heatIndex"} /\ o[m] = IntMax
        THEN Dashes ELSE Number(o[m])]

(* PrintCurrentConditions of mcweathercgi. *)
CgiRow(o) ==
    LET OrDashes(n) == IF n = IntMax THEN Dashes ELSE Number(n)
    IN  [m \in Members |->
            CASE m = "windSpeed" -> OrDashes(o.windSpeed)
              [] m = "windChill" -> OrDashes(o.windChill)
              [] m = "heatIndex" -> OrDashes(o.heatIndex)
              [] OTHER -> Number(o[m])]

=============================================================================
