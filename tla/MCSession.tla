----------------------------- MODULE MCSession -----------------------------
(* Session with the plans the two clients come with, and a client that     *)
(* sends a command this Responder does not know.                           *)
EXTENDS Session

MCRequests == {"currentConditions", "dailyForecasts", "observationStations",
               "hourlyForecasts", "nwsRadarUrl"}

(* mcweather: any of -o -c -d -h -r, always in this order. *)
Options == <<"observationStations", "currentConditions", "dailyForecasts",
             "hourlyForecasts", "nwsRadarUrl">>
Mcweather == {SelectSeq(Options, LAMBDA r : r \in chosen) :
                 chosen \in SUBSET MCRequests}

(* mcweathercgi: always these three. *)
Mcweathercgi == <<"currentConditions", "dailyForecasts", "nwsRadarUrl">>

(* A client that knows a command more. *)
Newer == <<"currentConditions", "unknown", "dailyForecasts">>

MCPlans == Mcweather \cup {Mcweathercgi, Newer}
=============================================================================
