------------------------------ MODULE Forecast ------------------------------
(***************************************************************************)
(* PeriodForecast and PeriodForecasts.  Time is in hours.  The text of a   *)
(* time is whether it has the form of one, its instant and the offset it   *)
(* is written with.  A detailed forecast is the sequence of its words'     *)
(* lengths.                                                                *)
(***************************************************************************)
EXTENDS Json, SequencesExt

CONSTANTS
    Standard,      \* the offset of the daemon's and the client's time zone
    Daylight,      \* its offset in summer
    SummerEnds,    \* the instant at which Standard comes after Daylight
    Columns        \* of the terminal

ASSUME ZoneAssumption ==
    /\ Standard \in Int /\ Daylight \in {Standard, Standard + 1}
    /\ SummerEnds \in Int

ASSUME ColumnsAssumption == Columns \in Nat /\ Columns >= 8

(* The members as Write puts them and Read takes them. *)
PeriodOrder == <<"startTime", "endTime", "name", "isDaytime", "temperature",
                 "temperatureUnit", "windSpeed", "windDirection",
                 "shortForecast", "detailedForecast">>

PeriodReadOrder == PeriodOrder

(* PeriodForecast::Clear *)
ClearedPeriod ==
    [startTime |-> 0, endTime |-> 0, name |-> "", isDaytime |-> FALSE,
     temperature |-> 255, temperatureUnit |-> " ", windSpeed |-> "",
     windDirection |-> "", shortForecast |-> "", detailedForecast |-> <<>>]

(* The sort of node that is taken for a member. *)
SortOf(m) ==
    CASE m = "isDaytime" -> "boolean"
      [] m = "temperature" -> "number"
      [] OTHER -> "string"

(* The offset is added where it is to be taken away. *)
ParseTimeString_Sign(t, libc, isdst) ==
    IF ~t.well THEN 0
    ELSE IF libc = "bsd" THEN t.at + 2 * t.zone
    ELSE t.at + t.zone - (IF isdst THEN Daylight ELSE Standard)

(* BSD's strptime brings the fields into the local zone.  That of glibc    *)
(* leaves them as they are written, and tm_isdst as it was on the stack,   *)
(* and mktime takes them for local time.  That is one int which is never   *)
(* set: if it is negative, mktime itself chooses one of the two offsets.   *)
(* A boolean that is free in each call stands for all of them.             *)
ParseTimeString(t, libc, isdst) ==
    IF ~t.well THEN 0
    ELSE IF libc = "bsd" THEN t.at
    ELSE t.at + t.zone - (IF isdst THEN Daylight ELSE Standard)

(* The members that are times. *)
Times == {"startTime", "endTime"}

(* The PeriodForecast made from a node: each member on its own. *)
PeriodOf(j, libc, stack) ==
    [m \in DOMAIN ClearedPeriod |->
        CASE ~Has(j, m, SortOf(m)) -> ClearedPeriod[m]
          [] Has(j, m, SortOf(m)) /\ m \in Times ->
                ParseTimeString(Val(j, m), libc, stack[m])
          [] Has(j, m, SortOf(m)) /\ m = "temperature" -> AsInt(Get(j, m))
          [] Has(j, m, SortOf(m)) /\ m = "temperatureUnit" ->
                IF Val(j, m) = "" THEN " " ELSE Val(j, m)
          [] OTHER -> Val(j, m)]

(* /properties/periods, or nothing. *)
PeriodNodes(j) ==
    IF Has(j, "properties", "object")
       /\ Has(Get(j, "properties"), "periods", "array")
    THEN Val(Get(j, "properties"), "periods") ELSE <<>>

(* PeriodForecasts::FromJson; the stack may be another for each period.    *)
PeriodsOf(j, libc, stacks) ==
    LET nodes == PeriodNodes(j)
    IN  [obj |-> [i \in DOMAIN nodes |-> PeriodOf(nodes[i], libc, stacks[i])],
         rc |-> nodes # <<>>]

----------------------------------------------------------------------------
(* What the clients print of a period. *)

(* localtime_r *)
LocalHour(t) == t + (IF t < SummerEnds THEN Daylight ELSE Standard)

(* What is on the line already is left out of the sum. *)
PutWord_ByItself(out, len) ==
    IF len > Columns - 4
    THEN [lines |-> Append(out.lines, <<len>>), at |-> len + 4]
    ELSE [lines |-> [out.lines EXCEPT ![Len(out.lines)] = Append(@, len)],
          at |-> out.at + len + 1]

(* One pass of the loop: the word goes on the line, or begins a new one.   *)
PutWord(out, len) ==
    IF len + out.at > Columns - 4
    THEN [lines |-> Append(out.lines, <<len>>), at |-> len + 4]
    ELSE [lines |-> [out.lines EXCEPT ![Len(out.lines)] = Append(@, len)],
          at |-> out.at + len + 1]

(* FormattedPeriodForecast: the stream gives an empty word at its end.     *)
Formatted(words) ==
    LET given == Append(words, 0)
        out[n \in 0..Len(given)] ==
            IF n = 0 THEN [lines |-> << <<>> >>, at |-> 2]
            ELSE PutWord(out[n - 1], given[n])
    IN  out[Len(given)].lines

(* PrintDailyForecasts *)
DailyLine(p) ==
    [name |-> p.name, temperature |-> p.temperature,
     unit |-> p.temperatureUnit, short |-> p.shortForecast,
     detailed |-> Formatted(p.detailedForecast)]

(* PrintHourlyForecasts *)
HourlyLine(p) ==
    [hour |-> LocalHour(p.startTime), temperature |-> p.temperature,
     unit |-> p.temperatureUnit, short |-> p.shortForecast]

(* PrintDailyForecasts of mcweathercgi. *)
CgiLine(p) ==
    [night |-> ~p.isDaytime, name |-> p.name, temperature |-> p.temperature,
     unit |-> p.temperatureUnit, short |-> p.shortForecast,
     detailed |-> p.detailedForecast]

=============================================================================
