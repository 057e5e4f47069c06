------------------------------ MODULE Records ------------------------------
(***************************************************************************)
(* What becomes of the weather service's answers: parsed into an object,   *)
(* kept by the Cache, written to its file member by member, read again,    *)
(* also when the file ends too early, and printed by the clients.          *)
(*                                                                         *)
(* One kind of answer is followed in a behaviour; there are "conditions",  *)
(* "periods" (the daily and the hourly ones), "point" and "stations".  A   *)
(* reading's key in the map, which is its station, is left out of the      *)
(* file.  A client gets what is read from the file: the messages between   *)
(* the two are written and read by the same functions.                     *)
(***************************************************************************)
EXTENDS Observation, Forecast, PointInfo

CONSTANTS
    Answers,       \* the answers of each kind
    Garbage,       \* what is in an int that nobody has set
    MaxPeriods,    \* in an answer
    MaxFetches     \* bound on the answers in a behaviour

ASSUME BoundsAssumption == MaxPeriods \in Nat /\ MaxFetches \in Nat

(* The nodes of an answer have the values that their sorts stand for: a    *)
(* number is an integer here, an array a sequence, the text of a time an   *)
(* instant and an offset, and a detailed forecast its words' lengths.      *)
ASSUME AnswersAssumption ==
    /\ \A j \in Answers["conditions"], k \in DOMAIN Names :
          LET node == Get(Get(j, "properties"), Names[k])
          IN  /\ Has(j, "properties", "object")
              /\ Has(Get(j, "properties"), Names[k], "object")
              /\ Has(node, "value", "number")
              => Val(node, "value") \in Int
    /\ \A j \in Answers["periods"] :
          LET nodes == PeriodNodes(j)
          IN  /\ Len(nodes) \in 0..MaxPeriods
              /\ DOMAIN nodes = 1..Len(nodes)
              /\ \A i \in DOMAIN nodes :
                    /\ \A m \in Times : Has(nodes[i], m, "string") =>
                          /\ Val(nodes[i], m).well \in BOOLEAN
                          /\ Val(nodes[i], m).at \in Int
                          /\ Val(nodes[i], m).zone \in Int
                    /\ Has(nodes[i], "detailedForecast", "string") =>
                          Val(nodes[i], "detailedForecast") \in Seq(Nat)
    /\ \A j \in Answers["stations"] : Len(Features(j)) \in Nat

VARIABLES
    kind,          \* of the answers
    libc,          \* whose strptime the daemon uses
    scratch,       \* the CurrentConditions of UpdateCurrentConditions
    kept,          \* the objects in the fetcher's Cache
    file,          \* the values in the file
    now,           \* the answers so far, and the time
    from,          \* history: the answer that was kept last
    last,          \* history: the objects it gave
    at,            \* history: its time
    whole          \* history: the file was written to its end

vars == <<kind, libc, scratch, kept, file, now, from, last, at, whole>>

Kinds == {"conditions", "periods", "point", "stations"}

(* A CurrentConditions that was only declared. *)
NewConditions(int) ==
    [m \in Members |-> IF m = "station" THEN <<>> ELSE int]

Fresh == {NewConditions(Garbage), NewConditions(IntMax)}

(* tm_isdst on the stack of ParseTimeString, for each of its calls. *)
Stacks == [1..MaxPeriods -> [Times -> BOOLEAN]]

One(result) == [objs |-> <<result.obj>>, rc |-> result.rc]

List(result) == [objs |-> result.obj, rc |-> result.rc]

(* The objects an answer may give, and whether they are kept.  A station's *)
(* is parsed into the object that an earlier answer of the same update was *)
(* parsed into, or into a new one.                                         *)
Outcomes(j) ==
    CASE kind = "conditions" ->
            {One(GetCurrentConditions(old, j, now')) :
                old \in {scratch} \cup Fresh}
      [] kind = "periods" -> {List(PeriodsOf(j, libc, s)) : s \in Stacks}
      [] kind = "point" -> {One(PointOf(j))}
      [] OTHER -> {List(StationsOf(j))}

StationOrder == <<"id", "name">>

(* The order in which the kind's Write puts the members. *)
OrderOf(k) ==
    CASE k = "conditions" -> WriteOrder
      [] k = "periods" -> PeriodOrder
      [] k = "point" -> PointOrder
      [] OTHER -> StationOrder

(* The order in which its Read takes them. *)
ReadOrderOf(k) ==
    CASE k = "conditions" -> ReadOrder
      [] k = "periods" -> PeriodReadOrder
      [] OTHER -> OrderOf(k)

(* StreamIO::Write: a container's size comes before its elements. *)
Encoded(k, objs) ==
    (IF k = "point" THEN <<>> ELSE <<Len(objs)>>)
    \o FlattenSeq([i \in DOMAIN objs |->
                      [n \in DOMAIN OrderOf(k) |->
                          objs[i][OrderOf(k)[n]]]])

(* StreamIO::Read of a container keeps the elements it has read wholly. *)
Elements(order, values) ==
    LET width == Len(order)
        count == IF values = <<>> THEN 0 ELSE (Len(values) - 1) \div width
        Position(m) == CHOOSE n \in 1..width : order[n] = m
    IN  [i \in 1..count |->
            [m \in {order[n] : n \in 1..width} |->
                values[1 + (i - 1) * width + Position(m)]]]

(* What a Cache object has of the file. *)
Loaded(k, values) ==
    IF k = "point" THEN <<ReadPoint(values)>>
    ELSE Elements(ReadOrderOf(k), values)

TypeOK ==
    /\ kind \in Kinds
    /\ libc \in {"bsd", "glibc"}
    /\ DOMAIN scratch = Members
    /\ now \in 0..MaxFetches /\ at \in 0..now
    /\ \A i \in DOMAIN kept :
          DOMAIN kept[i] = {OrderOf(kind)[n] : n \in DOMAIN OrderOf(kind)}
    /\ whole \in BOOLEAN
    /\ kind = "conditions" =>
          /\ Len(kept) <= 1
          /\ \A i \in DOMAIN kept : kept[i].temperature # IntMax

Init ==
    /\ kind \in Kinds
    /\ libc \in {"bsd", "glibc"}
    /\ kind # "periods" => libc = "bsd"
    /\ scratch = NewConditions(Garbage)
    /\ kept = Loaded(kind, <<>>)
    /\ file = <<>>
    /\ now = 0
    /\ from = <<>> /\ last = kept /\ at = 0 /\ whole = TRUE

(* An answer arrives, and is kept and saved if it was accepted. *)
Fetch(j) ==
    /\ now < MaxFetches
    /\ now' = now + 1
    /\ \E outcome \in Outcomes(j) :
          /\ scratch' = IF kind = "conditions" THEN outcome.objs[1]
                        ELSE scratch
          /\ IF outcome.rc
             THEN /\ kept' = outcome.objs
                  /\ file' = Encoded(kind, kept')
                  /\ from' = j /\ last' = kept' /\ at' = now'
                  /\ whole' = TRUE
             ELSE UNCHANGED <<kept, file, from, last, at, whole>>
    /\ UNCHANGED <<kind, libc>>

(* The save of the last answer did not get to its end. *)
Tear ==
    /\ whole /\ file # <<>>
    /\ \E n \in 0..(Len(file) - 1) : file' = SubSeq(file, 1, n)
    /\ whole' = FALSE
    /\ UNCHANGED <<kind, libc, scratch, kept, now, from, last, at>>

(* The fetcher's Cache is made again. *)
Restart ==
    /\ kept' = Loaded(kind, file)
    /\ scratch' = IF kind = "conditions" THEN NewConditions(Garbage)
                  ELSE scratch
    /\ UNCHANGED <<kind, libc, file, now, from, last, at, whole>>

Next ==
    \/ \E j \in Answers[kind] : Fetch(j)
    \/ Tear
    \/ Restart

Spec == Init /\ [][Next]_vars

----------------------------------------------------------------------------
(* Properties. *)

(* What every client is given now. *)
Given == Loaded(kind, file)

(* A file that was written to its end is read as what was written, and one *)
(* that ends too early as a first part of the list, or as no point at all: *)
(* Read takes the members in the order of Write.  (That what is not a      *)
(* whole element is dropped is the library's part of it.)                  *)
ReadsBack ==
    /\ whole => Given = last
    /\ kind = "point" => Given \in {<<ClearedPoint>>, last}
    /\ kind # "point" => IsPrefix(Given, last)

(* The addresses that the fetcher asks are those of one answer that had    *)
(* all of them, or none: also after a restart with a file that was torn.   *)
PointIsWhole ==
    kind = "point" =>
        \/ kept = <<ClearedPoint>>
        \/ LET props == Get(from, "properties")
           IN  /\ kept = last
               /\ \A m \in DOMAIN ClearedPoint :
                     /\ Has(props, m, PointSort(m))
                     /\ kept[1][m] = Val(props, m)

Within(a, b, distance) == a - b \in -distance..distance

InTenths(j) == IF Is(j, "float") THEN j[2] ELSE 10 * j[2]

(* A number that is far from the ends of an int, and of what a float has   *)
(* exactly.                                                                *)
IsModest(j) ==
    /\ 10 * AsInt(j) \in -IntMax..IntMax
    /\ 9 * AsInt(j) \in -FloatExact..FloatExact

(* A number in the cell is the quantity of that node, in its unit.  A      *)
(* speed is not negative.                                                  *)
Shows(name, cell, node) ==
    LET unit == Condition(node).unit
        d == InTenths(Get(node, "value"))
        n == cell[1]
    IN  CASE name \in {"relativeHumidity", "barometricPressure"} ->
                Within(10 * n, d, 9)
          [] name = "windSpeed" ->
                d >= 0 =>
                   IF unit = "unit:m_s-1"
                   THEN Within(1000 * n, (223694 * d) \div 1000, 2600)
                   ELSE Within(1000 * n, (621371 * d) \div 10000, 1200)
          [] OTHER ->
                IF unit \in {"unit:degC", "wmoUnit:degC"}
                THEN Within(50 * n, 9 * d + 1600, 155)
                ELSE Within(10 * n, d, 9)

(* Each cell of a client's table is about the row's own station: a number  *)
(* in it is the one of that station's last answer, converted by no more    *)
(* than 3.1 degrees or 2.6 mph off, and "---" stands where that answer had *)
(* none, or a speed in a unit that is not known, whatever was parsed       *)
(* before.  Not so for a dewpoint, a humidity or a pressure that is        *)
(* missing: they are printed as if they were numbers.                      *)
ShownIsObserved ==
    kind = "conditions" =>
        \A i \in DOMAIN Given : \A row \in {Row(Given[i]), CgiRow(Given[i])} :
            LET props == Get(from, "properties")
            IN  /\ row.station = <<StationOf(Val(props, "station"))>>
                /\ row.timestamp = <<at>>
                /\ \A k \in DOMAIN Names :
                      LET node == Get(props, Names[k])
                          cell == row[Names[k]]
                      IN  IF Has(node, "value", "number")
                          THEN IsModest(Get(node, "value")) =>
                               \/ /\ cell # Dashes
                                  /\ Shows(Names[k], cell, node)
                               \/ /\ cell = Dashes /\ Names[k] = "windSpeed"
                                  /\ Condition(node).unit \notin WindUnits
                          ELSE \/ cell = Dashes
                               \/ Names[k] \in {"relativeHumidity", "dewpoint",
                                                "barometricPressure"}

(* The node has a time of that name. *)
Timed(node, m) == Has(node, m, "string") /\ Val(node, m).well

(* With BSD's strptime the hour that is printed is that of the answer's    *)
(* instant in the client's zone, and the periods' times rise as the        *)
(* answer's do, hourly ones too.                                           *)
InstantsShown ==
    \A i \in DOMAIN Given :
        LET nodes == PeriodNodes(from)
            Instant(k, m) == Val(nodes[k], m).at
        IN  /\ Timed(nodes[i], "startTime") =>
                  HourlyLine(Given[i]).hour
                  = LocalHour(Instant(i, "startTime"))
            /\ \A k \in (i + 1)..Len(Given) : \A m \in Times :
                  /\ Timed(nodes[i], m) /\ Timed(nodes[k], m)
                  /\ Instant(i, m) < Instant(k, m)
                  => Given[i][m] < Given[k][m]
            /\ /\ Timed(nodes[i], "startTime") /\ Timed(nodes[i], "endTime")
               /\ Instant(i, "startTime") < Instant(i, "endTime")
               => Given[i].startTime < Given[i].endTime

(* With glibc's strptime it is the hour on the clock of the place, or the  *)
(* one next to it, as the garbage in tm_isdst has it.  Whole hours that    *)
(* rise on that clock are not turned round, but those of an hourly answer  *)
(* may coincide; only those two hours apart are sure to rise.  This is     *)
(* less than TestPeriodForecast.cc asserts (lines 101 to 106); that the    *)
(* code can indeed fail it is HoursMayCoincide in RecordsProofs.           *)
ClocksShown ==
    \A i \in DOMAIN Given :
        LET nodes == PeriodNodes(from)
            Clock(k, m) == Val(nodes[k], m).at + Val(nodes[k], m).zone
            Rise(early, late, t, u) ==
                /\ early < late => t <= u
                /\ early + 1 < late => t < u
        IN  /\ Timed(nodes[i], "startTime") =>
                  Within(HourlyLine(Given[i]).hour, Clock(i, "startTime"), 1)
            /\ \A k \in (i + 1)..Len(Given) : \A m \in Times :
                  Timed(nodes[i], m) /\ Timed(nodes[k], m) =>
                     Rise(Clock(i, m), Clock(k, m), Given[i][m], Given[k][m])
            /\ Timed(nodes[i], "startTime") /\ Timed(nodes[i], "endTime") =>
                  Rise(Clock(i, "startTime"), Clock(i, "endTime"),
                       Given[i].startTime, Given[i].endTime)

(* What is printed of a period is that of its own node: the hour and the   *)
(* order as above, and 255 for a temperature that is not there.            *)
PeriodsShown ==
    kind = "periods" =>
        /\ libc = "bsd" => InstantsShown
        /\ libc = "glibc" => ClocksShown
        /\ \A i \in DOMAIN Given :
              LET node == PeriodNodes(from)[i]
              IN  /\ DailyLine(Given[i]).temperature =
                        IF Has(node, "temperature", "number")
                        THEN AsInt(Get(node, "temperature")) ELSE 255
                  /\ CgiLine(Given[i]).night <=>
                        ~ (/\ Has(node, "isDaytime", "boolean")
                           /\ Val(node, "isDaytime"))

(* The columns that a line takes: two blanks, and one between the words. *)
WidthOf(line) ==
    LET width[n \in 0..Len(line)] ==
            IF n = 0 THEN 1 ELSE width[n - 1] + line[n] + 1
    IN  width[Len(line)]

(* The lines of a forecast have its words in their order, and stay within  *)
(* the terminal but for a word that is wider than it.                      *)
LinesFit ==
    kind = "periods" => \A i \in DOMAIN Given :
        LET words == Given[i].detailedForecast
            lines == DailyLine(Given[i]).detailed
        IN  /\ FlattenSeq(lines) = Append(words, 0)
            /\ \A k \in DOMAIN lines :
                  Len(lines[k]) <= 1 \/ WidthOf(lines[k]) <= Columns - 4

=============================================================================
