-------------------------- MODULE WeatherFetcher --------------------------
(***************************************************************************)
(* The cycle of WeatherFetcher::Run: the four cache files that are only    *)
(* refreshed when they are too old, in the order in which Run updates      *)
(* them, and the wait in between.                                          *)
(*                                                                         *)
(* A file's age is all the fetcher looks at: a file that a failed flush or *)
(* a crash has torn has a new modification time, and so is current.  A     *)
(* file is absent, torn or good, and its age is counted in ticks up to     *)
(* OldAge, which stands for any greater age and for the age of a file that *)
(* is not there (its LastWriteTime is 0).  What a save can do to a file is *)
(* what CacheFile shows it to do.  The current conditions have no age      *)
(* limit and their update touches nothing that is modelled here.           *)
(***************************************************************************)
EXTENDS Naturals

CONSTANTS
    Period,        \* the 900 seconds of wait_for
    ForecastLimit, \* 15 * 60 seconds
    WeekLimit,     \* 7 * 24 * 60 * 60 seconds
    MaxDelay,      \* bound on the ticks the updates of one cycle take
    MaxFaults      \* bound on failures of the service, of saves, and crashes

ASSUME LimitsAssumption ==
    /\ Period \in Nat \ {0}
    /\ ForecastLimit \in Nat /\ WeekLimit \in Nat
    /\ ForecastLimit <= WeekLimit
    /\ MaxDelay \in Nat /\ MaxFaults \in Nat

Files == {"point", "periodForecasts", "hourlyForecasts",
          "observationStations"}

Limit(f) ==
    IF f \in {"point", "observationStations"} THEN WeekLimit ELSE ForecastLimit

(* How long after the last failure every file is good again: a torn point  *)
(* file is current for WeekLimit, noticed in the cycle after that, and the *)
(* files that depend on it follow in the same cycle.                       *)
HealBound == WeekLimit + Period + 2 * MaxDelay

OldAge == HealBound + 1

VARIABLES
    pc,           \* the update Run is at, or the wait
    age,          \* each file's age
    content,      \* what each file holds
    pointKnown,   \* the fetcher's own Cache has point information in memory
    left,         \* ticks until wait_for times out
    slack,        \* ticks this cycle's updates have taken
    faults,       \* failures and crashes so far
    calm          \* history: ticks since the last of them

vars == <<pc, age, content, pointKnown, left, slack, faults, calm>>

TypeOK ==
    /\ pc \in Files \cup {"currentConditions", "wait"}
    /\ age \in [Files -> 0..OldAge]
    /\ content \in [Files -> {"absent", "torn", "good"}]
    /\ pointKnown \in BOOLEAN
    /\ left \in 0..Period
    /\ slack \in 0..MaxDelay
    /\ faults \in 0..MaxFaults
    /\ calm \in 0..OldAge
    /\ \A f \in Files : content[f] = "absent" => age[f] = OldAge

(* A first start, with an empty cache directory. *)
Init ==
    /\ pc = "point"
    /\ age = [f \in Files |-> OldAge]
    /\ content = [f \in Files |-> "absent"]
    /\ pointKnown = FALSE
    /\ left = 0
    /\ slack = 0
    /\ faults = 0
    /\ calm = 0

----------------------------------------------------------------------------
(* Faulty variant of TooOld: a file whose time cannot be read is taken for *)
(* current.                                                                *)
TooOld_OnlyIfThere(f) == age[f] > Limit(f) /\ content[f] # "absent"

(* AgeOf...() > limit *)
TooOld(f) == age[f] > Limit(f)

(* What is asked of the weather service needs the URIs of the point        *)
(* information: GetPointInfo fails without the file, and gives an empty    *)
(* object if the file was there but torn when the process started.         *)
CanAsk(f) == f = "point" \/ (content["point"] # "absent" /\ pointKnown)

Fault ==
    /\ faults < MaxFaults
    /\ faults' = faults + 1
    /\ calm' = 0

(* Where Run goes after an update: the wait begins anew with every cycle. *)
Goto(next) ==
    /\ pc' = next
    /\ left' = IF next = "wait" THEN Period ELSE left

(* The new contents in memory: of interest only for the point information. *)
Remember(f) == pointKnown' = (pointKnown \/ f = "point")

Stored(f) ==
    /\ content' = [content EXCEPT ![f] = "good"]
    /\ age' = [age EXCEPT ![f] = 0]
    /\ Remember(f)
    /\ UNCHANGED <<faults, calm>>

(* The file was truncated but not written as a whole. *)
StoredTorn(f) ==
    /\ Fault
    /\ content' = [content EXCEPT ![f] = "torn"]
    /\ age' = [age EXCEPT ![f] = 0]
    /\ Remember(f)

(* Faulty variant of NotStored: the file is counted as written. *)
NotStored_Touches(f) ==
    /\ Fault
    /\ Remember(f)
    /\ age' = [age EXCEPT ![f] = 0]
    /\ UNCHANGED content

(* The file did not open. *)
NotStored(f) ==
    /\ Fault
    /\ Remember(f)
    /\ UNCHANGED <<content, age>>

(* No answer, or one that cannot be used. *)
NotFetched ==
    /\ Fault
    /\ UNCHANGED <<content, age, pointKnown>>

Keep == UNCHANGED <<content, age, pointKnown, faults, calm>>

----------------------------------------------------------------------------

(* The shape the four update functions share: ok and notOk are where Run   *)
(* goes when the function returns true and false.  A torn file may have    *)
(* been noticed (Write failed) or not (the flush at close did).            *)
Update(f, ok, notOk) ==
    /\ pc = f
    /\ UNCHANGED slack
    /\ \/ ~TooOld(f) /\ Keep /\ Goto(ok)
       \/ TooOld(f) /\ ~CanAsk(f) /\ Keep /\ Goto(notOk)
       \/ TooOld(f) /\ CanAsk(f) /\ NotFetched /\ Goto(notOk)
       \/ TooOld(f) /\ CanAsk(f) /\ Stored(f) /\ Goto(ok)
       \/ TooOld(f) /\ CanAsk(f) /\ NotStored(f) /\ Goto(notOk)
       \/ TooOld(f) /\ CanAsk(f) /\ StoredTorn(f)
          /\ \E next \in {ok, notOk} : Goto(next)

(* Without point information nothing else is tried in this cycle. *)
UpdatePointInfo == Update("point", "periodForecasts", "wait")

UpdatePeriodForecasts ==
    Update("periodForecasts", "hourlyForecasts", "hourlyForecasts")

UpdateHourlyForecasts ==
    Update("hourlyForecasts", "observationStations", "observationStations")

UpdateObservationStations ==
    Update("observationStations", "currentConditions", "wait")

UpdateCurrentConditions ==
    /\ pc = "currentConditions"
    /\ Goto("wait")
    /\ Keep
    /\ UNCHANGED slack

(* The wait times out, and the next cycle begins. *)
WaitOver ==
    /\ pc = "wait" /\ left = 0
    /\ pc' = "point"
    /\ slack' = 0
    /\ UNCHANGED <<age, content, pointKnown, left, faults, calm>>

(* Time passes: in the wait, or in an update that takes its time. *)
Tick ==
    /\ IF pc = "wait"
       THEN left > 0 /\ left' = left - 1 /\ UNCHANGED slack
       ELSE slack < MaxDelay /\ slack' = slack + 1 /\ UNCHANGED left
    /\ age' = [f \in Files |-> IF age[f] < OldAge THEN age[f] + 1 ELSE OldAge]
    /\ calm' = IF calm < OldAge THEN calm + 1 ELSE OldAge
    /\ UNCHANGED <<pc, content, pointKnown, faults>>

(* The process dies, maybe with a file open for writing, and is started    *)
(* again: the new Cache knows the point only if its file is good.          *)
CrashRestart ==
    /\ Fault
    /\ \/ UNCHANGED <<content, age>>
       \/ /\ pc \in Files /\ TooOld(pc) /\ CanAsk(pc)
          /\ content' = [content EXCEPT ![pc] = "torn"]
          /\ age' = [age EXCEPT ![pc] = 0]
    /\ pointKnown' = (content'["point"] = "good")
    /\ pc' = "point"
    /\ left' = 0
    /\ slack' = 0

----------------------------------------------------------------------------

Next ==
    \/ UpdatePointInfo
    \/ UpdatePeriodForecasts
    \/ UpdateHourlyForecasts
    \/ UpdateObservationStations
    \/ UpdateCurrentConditions
    \/ WaitOver
    \/ Tick
    \/ CrashRestart

Spec == Init /\ [][Next]_vars

----------------------------------------------------------------------------
(* Properties. *)

(* When nothing has failed for more than HealBound, every file is good and *)
(* none is older than its limit, one more period and the delays: a refresh *)
(* is missed once when a file's age just equals the limit, never twice,    *)
(* and whatever failures or crashes left behind has been replaced.         *)
FreshWhenCalm ==
    calm > HealBound =>
        \A f \in Files :
            /\ content[f] = "good"
            /\ age[f] <= Limit(f) + Period + 2 * MaxDelay

=============================================================================
