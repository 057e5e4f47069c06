----------------------------- MODULE PointInfo -----------------------------
(* PointInfo, and the observation stations that its third URI lists.       *)
EXTENDS Json, SequencesExt

(* The members, in the order of FromJson's nested ifs and of the tuple.    *)
PointOrder == <<"forecast", "forecastHourly", "observationStations",
                "gridX", "gridY", "forecastZone">>

(* Clear; NoGrid stands for INT_MAX. *)
NoGrid == -1

ClearedPoint ==
    [forecast |-> "", forecastHourly |-> "", observationStations |-> "",
     gridX |-> NoGrid, gridY |-> NoGrid, forecastZone |-> ""]

PointSort(m) == IF m \in {"gridX", "gridY"} THEN "integer" ELSE "string"

(* One ill member is passed over. *)
PointOf_Lenient(j) ==
    LET props == Get(j, "properties")
    IN  IF ~Has(j, "properties", "object")
        THEN [obj |-> ClearedPoint, rc |-> FALSE]
        ELSE [obj |-> [m \in DOMAIN ClearedPoint |->
                        IF Has(props, m, PointSort(m)) THEN Val(props, m)
                        ELSE ClearedPoint[m]],
              rc |-> TRUE]

(* FromJson: each member needs the ones before it. *)
PointOf(j) ==
    LET props == Get(j, "properties")
        Reaches(n) == \A k \in 1..n :
            Has(props, PointOrder[k], PointSort(PointOrder[k]))
        taken == {PointOrder[n] : n \in {i \in DOMAIN PointOrder : Reaches(i)}}
    IN  IF ~Has(j, "properties", "object")
        THEN [obj |-> ClearedPoint, rc |-> FALSE]
        ELSE [obj |-> [m \in DOMAIN ClearedPoint |->
                        IF m \in taken THEN Val(props, m)
                        ELSE ClearedPoint[m]],
              rc |-> taken = DOMAIN ClearedPoint]

(* Read: the members get the tuple's values only when all were read.       *)
ReadPoint(fields) ==
    IF Len(fields) < Len(PointOrder) THEN ClearedPoint
    ELSE [m \in DOMAIN ClearedPoint |->
            fields[CHOOSE i \in DOMAIN PointOrder : PointOrder[i] = m]]

(* A feature that has what is needed. *)
Named(f) ==
    /\ Has(f, "properties", "object")
    /\ Has(Get(f, "properties"), "stationIdentifier", "string")

(* The station of such a feature; its name may be missing. *)
Station(f) ==
    LET props == Get(f, "properties")
    IN  [id |-> Val(props, "stationIdentifier"),
         name |-> IF Has(props, "name", "string") THEN Val(props, "name")
                  ELSE ""]

(* The features of an answer, or none. *)
Features(j) == IF Has(j, "features", "array") THEN Val(j, "features") ELSE <<>>

(* Utils::GetObservationStations: a feature that does not have what is     *)
(* needed is skipped.                                                      *)
StationsOf(j) ==
    LET features == Features(j)
        stations[n \in 0..Len(features)] ==
            IF n = 0 THEN <<>>
            ELSE IF Named(features[n])
            THEN Append(stations[n - 1], Station(features[n]))
            ELSE stations[n - 1]
    IN  [obj |-> stations[Len(features)],
         rc |-> stations[Len(features)] # <<>>]

=============================================================================
