----------------------- MODULE WeatherFetcherProofs -----------------------
(***************************************************************************)
(* Proof that the fetcher's files are fresh once nothing has failed for    *)
(* HealBound, whatever the period, the limits and the delays.              *)
(***************************************************************************)
EXTENDS WeatherFetcher, TLAPS

(* The files whose update this cycle has behind it. *)
Checked ==
    IF pc = "point" THEN {}
    ELSE IF pc = "periodForecasts" THEN {"point"}
    ELSE IF pc = "hourlyForecasts" THEN {"point", "periodForecasts"}
    ELSE IF pc = "observationStations" THEN Files \ {"observationStations"}
    ELSE Files

(* The most time that can have passed since a file's last update began. *)
CycleTime == IF pc = "wait" THEN slack + Period - left ELSE slack

Since(f) == IF f \in Checked THEN CycleTime ELSE Period + MaxDelay + slack

(* What was left torn or was never there is as old as the last failure. *)
NotGoodIsOld ==
    \A f \in Files : content[f] # "good" => age[f] >= calm

(* Whoever can read the point file has its URIs in memory. *)
GoodPointIsKnown == content["point"] = "good" => pointKnown

(* A file was good and within its limit when it was last updated, or that  *)
(* was less than WeekLimit after a failure: so long a torn point file is   *)
(* taken for current, and keeps the others from being asked for.           *)
GoodSinceUpdate ==
    \A f \in Files :
        \/ content[f] = "good" /\ age[f] <= Limit(f) + Since(f)
        \/ calm <= WeekLimit + Since(f)

IInv == TypeOK /\ NotGoodIsOld /\ GoodPointIsKnown /\ GoodSinceUpdate

----------------------------------------------------------------------------
(* The bounds are numbers, and no limit is above WeekLimit. *)
LEMMA Bounds ==
    /\ Period \in Nat /\ MaxDelay \in Nat /\ MaxFaults \in Nat
    /\ WeekLimit \in Nat
    /\ \A f \in Files : Limit(f) \in Nat /\ Limit(f) <= WeekLimit
    /\ OldAge \in Nat /\ HealBound \in Nat
    /\ HealBound = WeekLimit + Period + 2 * MaxDelay
    /\ OldAge = HealBound + 1
BY LimitsAssumption DEF Limit, OldAge, HealBound

(* The parts of the state as the proofs need them. *)
LEMMA Parts ==
    ASSUME TypeOK
    PROVE  /\ age \in [Files -> 0..OldAge]
           /\ content \in [Files -> {"absent", "torn", "good"}]
           /\ \A f \in Files : age[f] \in Nat /\ age[f] <= OldAge
           /\ left \in 0..Period /\ slack \in 0..MaxDelay
           /\ calm \in Nat /\ calm <= OldAge
BY Bounds DEF TypeOK

(* An update of any file keeps the types. *)
LEMMA UpdateIsTyped ==
    ASSUME TypeOK, NEW f \in Files,
           NEW ok \in Files \cup {"currentConditions", "wait"},
           NEW notOk \in Files \cup {"currentConditions", "wait"},
           Update(f, ok, notOk)
    PROVE  TypeOK'
<1> USE Bounds
<1>1. Keep \/ NotFetched \/ Stored(f) \/ NotStored(f) \/ StoredTorn(f)
  BY DEF Update
<1>2. pc' \in Files \cup {"currentConditions", "wait"} /\ left' \in 0..Period
  BY DEF Update, Goto, TypeOK
<1>3. slack' \in 0..MaxDelay
  BY DEF Update, TypeOK
<1>4. faults' \in 0..MaxFaults /\ calm' \in 0..OldAge
  BY <1>1 DEF Keep, NotFetched, Stored, NotStored, StoredTorn, Fault, TypeOK
<1>5. pointKnown' \in BOOLEAN
  <2>1. pointKnown \in BOOLEAN
    BY DEF TypeOK
  <2>2. CASE UNCHANGED pointKnown
    BY <2>1, <2>2
  <2>3. CASE Remember(f)
    BY <2>3, Zenon DEF Remember
  <2>. QED
    BY <1>1, <2>2, <2>3
       DEF Keep, NotFetched, Stored, NotStored, StoredTorn
<1>6. /\ age' \in [Files -> 0..OldAge]
      /\ content' \in [Files -> {"absent", "torn", "good"}]
      /\ \A g \in Files : content'[g] = "absent" => age'[g] = OldAge
  BY <1>1 DEF Keep, NotFetched, Stored, NotStored, StoredTorn, TypeOK
<1>. QED
  BY <1>2, <1>3, <1>4, <1>5, <1>6 DEF TypeOK

(* Each of the four updates is one of Update. *)
LEMMA Updates ==
    ASSUME UpdatePointInfo \/ UpdatePeriodForecasts \/ UpdateHourlyForecasts
              \/ UpdateObservationStations
    PROVE  \E f \in Files :
              \E ok, notOk \in Files \cup {"currentConditions", "wait"} :
                 Update(f, ok, notOk)
BY DEF UpdatePointInfo, UpdatePeriodForecasts, UpdateHourlyForecasts,
       UpdateObservationStations, Files

(* Types hold at the start. *)
LEMMA InitTyped == Init => TypeOK
<1> SUFFICES ASSUME Init PROVE TypeOK
  OBVIOUS
<1>1. /\ age \in [Files -> 0..OldAge]
      /\ content \in [Files -> {"absent", "torn", "good"}]
      /\ \A f \in Files : age[f] = OldAge
  BY Bounds DEF Init
<1>2. /\ left \in 0..Period /\ slack \in 0..MaxDelay
      /\ faults \in 0..MaxFaults /\ calm \in 0..OldAge
  BY Bounds DEF Init
<1>3. pc \in Files /\ pointKnown = FALSE
  BY DEF Init, Files
<1>. QED
  BY <1>1, <1>2, <1>3 DEF TypeOK

(* And after each step. *)
LEMMA StepTyped == TypeOK /\ [Next]_vars => TypeOK'
<1> SUFFICES ASSUME TypeOK, [Next]_vars PROVE TypeOK'
  OBVIOUS
<1> USE Bounds
<1>1. CASE UpdatePointInfo \/ UpdatePeriodForecasts \/ UpdateHourlyForecasts
              \/ UpdateObservationStations
  BY <1>1, Updates, UpdateIsTyped
<1>2. CASE UpdateCurrentConditions
  BY <1>2 DEF UpdateCurrentConditions, Goto, Keep, TypeOK
<1>3. CASE WaitOver
  BY <1>3 DEF WaitOver, TypeOK, Files
<1>4. CASE Tick
  BY <1>4 DEF Tick, TypeOK
<1>5. CASE CrashRestart
  <2>1. pointKnown' \in BOOLEAN
    BY <1>5, Zenon DEF CrashRestart
  <2>2. /\ age' \in [Files -> 0..OldAge]
        /\ content' \in [Files -> {"absent", "torn", "good"}]
        /\ \A g \in Files : content'[g] = "absent" => age'[g] = OldAge
    BY <1>5 DEF CrashRestart, TypeOK
  <2>3. /\ pc' = "point" /\ left' = 0 /\ slack' = 0 /\ calm' = 0
        /\ faults' \in 0..MaxFaults
    BY <1>5 DEF CrashRestart, Fault, TypeOK
  <2>. QED
    BY <2>1, <2>2, <2>3 DEF TypeOK, Files
<1>6. CASE UNCHANGED vars
  BY <1>6 DEF vars, TypeOK
<1>. QED
  BY <1>1, <1>2, <1>3, <1>4, <1>5, <1>6 DEF Next

----------------------------------------------------------------------------
(* Files that are not good, and the point information. *)

(* A file that is not good was left so at a failure, and grows old since.  *)
LEMMA StepNotGood ==
    TypeOK /\ NotGoodIsOld /\ [Next]_vars => NotGoodIsOld'
<1> SUFFICES ASSUME TypeOK, TypeOK', NotGoodIsOld, [Next]_vars
             PROVE  NotGoodIsOld'
  BY StepTyped
<1>t. /\ \A f \in Files : age[f] \in Nat /\ age[f] <= OldAge
      /\ calm \in Nat /\ calm <= OldAge /\ OldAge \in Nat
      /\ age \in [Files -> 0..OldAge]
      /\ content \in [Files -> {"absent", "torn", "good"}]
  BY Parts, Bounds
<1>0. CASE calm' = 0
  <2>1. \A f \in Files : age'[f] \in Nat
    BY Bounds DEF TypeOK
  <2>. QED
    BY <1>0, <2>1 DEF NotGoodIsOld
<1>1. CASE UNCHANGED <<content, age, calm>>
  BY <1>1 DEF NotGoodIsOld
<1>2. ASSUME NEW f \in Files, Stored(f) PROVE NotGoodIsOld'
  BY <1>2, <1>t DEF Stored, NotGoodIsOld
<1>3. CASE UpdatePointInfo \/ UpdatePeriodForecasts \/ UpdateHourlyForecasts
              \/ UpdateObservationStations
  <2>1. PICK f \in Files :
           Keep \/ NotFetched \/ Stored(f) \/ NotStored(f) \/ StoredTorn(f)
    BY <1>3, Updates DEF Update
  <2>. QED
    BY <1>0, <1>1, <1>2, <2>1
       DEF Keep, NotFetched, NotStored, StoredTorn, Fault
<1>4. CASE Tick
  BY <1>4, <1>t DEF Tick, NotGoodIsOld
<1>. QED
  BY <1>0, <1>1, <1>3, <1>4
     DEF Next, UpdateCurrentConditions, Keep, WaitOver, CrashRestart, Fault,
         vars

(* Storing the point file puts it in memory, and a new process reads it.   *)
LEMMA StepKnown ==
    TypeOK /\ GoodPointIsKnown /\ [Next]_vars => GoodPointIsKnown'
<1> SUFFICES ASSUME TypeOK, GoodPointIsKnown, [Next]_vars
             PROVE  GoodPointIsKnown'
  OBVIOUS
<1>1. CASE UNCHANGED <<content, pointKnown>>
  BY <1>1 DEF GoodPointIsKnown
<1>2. CASE UpdatePointInfo \/ UpdatePeriodForecasts \/ UpdateHourlyForecasts
              \/ UpdateObservationStations
  <2>1. PICK f \in Files :
           Keep \/ NotFetched \/ Stored(f) \/ NotStored(f) \/ StoredTorn(f)
    BY <1>2, Updates DEF Update
  <2>2. CASE Keep \/ NotFetched
    BY <1>1, <2>2 DEF Keep, NotFetched
  <2>3. CASE Stored(f) \/ NotStored(f) \/ StoredTorn(f)
    <3>1. pointKnown \/ f = "point" => pointKnown'
      BY <2>3, Zenon DEF Stored, NotStored, StoredTorn, Remember
    <3>2. f # "point" => content'["point"] = content["point"]
      <4>1. /\ "point" \in Files
            /\ content \in [Files -> {"absent", "torn", "good"}]
        BY DEF TypeOK, Files
      <4>. QED
        BY <2>3, <4>1 DEF Stored, NotStored, StoredTorn
    <3>. QED
      BY <3>1, <3>2 DEF GoodPointIsKnown
  <2>. QED
    BY <2>1, <2>2, <2>3
<1>3. CASE CrashRestart
  BY <1>3, Zenon DEF CrashRestart, GoodPointIsKnown
<1>. QED
  BY <1>1, <1>2, <1>3
     DEF Next, UpdateCurrentConditions, Keep, WaitOver, Tick, vars

----------------------------------------------------------------------------
(* Freshness. *)

(* The time since an update has a bound that holds after a step too. *)
LEMMA SinceBound ==
    TypeOK => \A f \in Files :
                 Since(f) \in Nat /\ Since(f) <= Period + 2 * MaxDelay
<1> SUFFICES ASSUME TypeOK, NEW f \in Files
             PROVE  Since(f) \in Nat /\ Since(f) <= Period + 2 * MaxDelay
  OBVIOUS
<1>1. slack \in 0..MaxDelay /\ left \in 0..Period
  BY Parts
<1>2. CycleTime \in Nat /\ CycleTime <= Period + MaxDelay
  BY <1>1, Bounds DEF CycleTime
<1>. QED
  BY <1>1, <1>2, Bounds DEF Since

(* A failure is a new beginning. *)
LEMMA FailureIsFresh == TypeOK /\ calm = 0 => GoodSinceUpdate
<1> SUFFICES ASSUME TypeOK, calm = 0, NEW f \in Files
             PROVE  calm <= WeekLimit + Since(f)
  BY DEF GoodSinceUpdate
<1>1. Since(f) \in Nat
  BY SinceBound
<1>. QED
  BY <1>1, Bounds

(* The same after a step. *)
LEMMA FailureIsFreshNext == (TypeOK /\ calm = 0 => GoodSinceUpdate)'
BY FailureIsFresh, PTL

(* An update without a failure leaves the file good and within its limit,  *)
(* or finds it no older than a torn file may be, or finds no URIs, and     *)
(* then the point file was lost so long ago.                               *)
LEMMA UpdateIsFresh ==
    ASSUME IInv, TypeOK', NEW f \in Files, NEW ok, NEW notOk,
           Update(f, ok, notOk), calm' # 0,
           f = "point" \/ "point" \in Checked
    PROVE  \/ content'[f] = "good" /\ age'[f] <= Limit(f) + slack
           \/ calm' <= WeekLimit + slack
<1> USE Bounds DEF IInv
<1>t. /\ \A g \in Files : age[g] \in Nat /\ age[g] <= OldAge
      /\ slack \in 0..MaxDelay /\ calm \in Nat
      /\ age \in [Files -> 0..OldAge]
      /\ content \in [Files -> {"absent", "torn", "good"}]
      /\ Limit(f) \in Nat /\ Limit(f) <= WeekLimit
  BY Parts
<1>1. CASE Stored(f)
  BY <1>1, <1>t DEF Stored
<1>2. CASE ~TooOld(f) /\ Keep
  <2>1. age[f] <= Limit(f) /\ UNCHANGED <<content, age, calm>>
    BY <1>2, <1>t DEF TooOld, Keep
  <2>2. content[f] # "good" => calm <= age[f]
    BY <1>t DEF NotGoodIsOld
  <2>. QED
    BY <1>t, <2>1, <2>2
<1>3. CASE ~CanAsk(f) /\ Keep
  <2>1. f # "point" /\ content["point"] # "good"
    BY <1>3 DEF CanAsk, GoodPointIsKnown
  <2>2. "point" \in Checked /\ "point" \in Files
    BY <2>1 DEF Files
  <2>3. Since("point") = slack
    <3>1. pc = f
      BY DEF Update
    <3>. QED
      BY <2>2, <3>1 DEF Since, CycleTime, Files
  <2>4. calm <= WeekLimit + slack
    BY <2>1, <2>2, <2>3 DEF GoodSinceUpdate
  <2>. QED
    BY <1>3, <2>4 DEF Keep
<1>. QED
  BY <1>1, <1>2, <1>3 DEF Update, NotFetched, NotStored, StoredTorn, Fault

(* Where an update leaves the cycle, when it did not fail: the file it is  *)
(* about is behind it, and the wait has all of its time ahead.             *)
LEMMA UpdateMovesOn ==
    ASSUME TypeOK, calm' # 0,
           UpdatePointInfo \/ UpdatePeriodForecasts \/ UpdateHourlyForecasts
              \/ UpdateObservationStations
    PROVE  \E f \in Files :
              /\ f = "point" \/ "point" \in Checked
              /\ \E ok, notOk \in Files \cup {"currentConditions", "wait"} :
                    Update(f, ok, notOk)
              /\ \A g \in Files \ {f} :
                    /\ content'[g] = content[g] /\ age'[g] = age[g]
                    /\ Since(g)' = Since(g)
              /\ Since(f)' = slack
<1> USE Bounds
<1>t. /\ slack \in 0..MaxDelay
      /\ age \in [Files -> 0..OldAge]
      /\ content \in [Files -> {"absent", "torn", "good"}]
  BY Parts
<1>o. ASSUME NEW f \in Files,
             Keep \/ NotFetched \/ Stored(f) \/ NotStored(f) \/ StoredTorn(f)
      PROVE  \A g \in Files \ {f} :
                content'[g] = content[g] /\ age'[g] = age[g]
  BY <1>o, <1>t DEF Keep, NotFetched, Stored, NotStored, StoredTorn
<1>w. Period + slack - Period = slack /\ slack + Period - Period = slack
  BY <1>t
<1>1. CASE UpdatePointInfo
  <2>1. /\ Update("point", "periodForecasts", "wait") /\ "point" \in Files
        /\ pc = "point" /\ slack' = slack
    BY <1>1 DEF UpdatePointInfo, Update, Files
  <2>2. pc' = "periodForecasts"
    BY <2>1 DEF Update, Goto, CanAsk, NotFetched, NotStored, StoredTorn, Fault
  <2>3. Since("point")' = slack
    BY <2>1, <2>2 DEF Since, CycleTime, Checked
  <2>4. \A g \in Files \ {"point"} : Since(g)' = Since(g)
    BY <2>1, <2>2 DEF Since, Checked
  <2>5. \A g \in Files \ {"point"} :
           content'[g] = content[g] /\ age'[g] = age[g]
    BY <1>o, <2>1 DEF Update
  <2>6. \E ok, notOk \in Files \cup {"currentConditions", "wait"} :
           Update("point", ok, notOk)
    BY <2>1 DEF Files
  <2>. QED
    BY <2>1, <2>3, <2>4, <2>5, <2>6
<1>2. CASE UpdatePeriodForecasts
  <2>1. /\ Update("periodForecasts", "hourlyForecasts", "hourlyForecasts")
        /\ "periodForecasts" \in Files /\ pc = "periodForecasts"
        /\ slack' = slack /\ pc' = "hourlyForecasts"
    BY <1>2 DEF UpdatePeriodForecasts, Update, Files, Goto
  <2>2. Since("periodForecasts")' = slack /\ "point" \in Checked
    BY <2>1 DEF Since, CycleTime, Checked
  <2>3. \A g \in Files \ {"periodForecasts"} : Since(g)' = Since(g)
    BY <2>1 DEF Since, CycleTime, Checked
  <2>4. \A g \in Files \ {"periodForecasts"} :
           content'[g] = content[g] /\ age'[g] = age[g]
    BY <1>o, <2>1 DEF Update
  <2>5. \E ok, notOk \in Files \cup {"currentConditions", "wait"} :
           Update("periodForecasts", ok, notOk)
    BY <2>1 DEF Files
  <2>. QED
    BY <2>1, <2>2, <2>3, <2>4, <2>5
<1>3. CASE UpdateHourlyForecasts
  <2>1. /\ Update("hourlyForecasts", "observationStations",
                  "observationStations")
        /\ "hourlyForecasts" \in Files /\ pc = "hourlyForecasts"
        /\ slack' = slack /\ pc' = "observationStations"
    BY <1>3 DEF UpdateHourlyForecasts, Update, Files, Goto
  <2>2. Since("hourlyForecasts")' = slack /\ "point" \in Checked
    BY <2>1 DEF Since, CycleTime, Checked, Files
  <2>3. \A g \in Files \ {"hourlyForecasts"} : Since(g)' = Since(g)
    BY <2>1 DEF Since, CycleTime, Checked, Files
  <2>4. \A g \in Files \ {"hourlyForecasts"} :
           content'[g] = content[g] /\ age'[g] = age[g]
    BY <1>o, <2>1 DEF Update
  <2>5. \E ok, notOk \in Files \cup {"currentConditions", "wait"} :
           Update("hourlyForecasts", ok, notOk)
    BY <2>1 DEF Files
  <2>. QED
    BY <2>1, <2>2, <2>3, <2>4, <2>5
<1>4. CASE UpdateObservationStations
  <2>1. /\ Update("observationStations", "currentConditions", "wait")
        /\ "observationStations" \in Files /\ pc = "observationStations"
        /\ slack' = slack
        /\ \/ pc' = "currentConditions"
           \/ pc' = "wait" /\ left' = Period
    BY <1>4 DEF UpdateObservationStations, Update, Files, Goto
  <2>2. CycleTime' = slack /\ CycleTime = slack
    BY <1>w, <2>1, Zenon DEF CycleTime
  <2>3. Checked' = Files /\ Checked = Files \ {"observationStations"}
    BY <2>1 DEF Checked
  <2>4. Since("observationStations")' = slack /\ "point" \in Checked
    BY <2>1, <2>2, <2>3 DEF Since, Files
  <2>5. \A g \in Files \ {"observationStations"} : Since(g)' = Since(g)
    BY <2>2, <2>3 DEF Since
  <2>6. \A g \in Files \ {"observationStations"} :
           content'[g] = content[g] /\ age'[g] = age[g]
    BY <1>o, <2>1 DEF Update
  <2>7. \E ok, notOk \in Files \cup {"currentConditions", "wait"} :
           Update("observationStations", ok, notOk)
    BY <2>1 DEF Files
  <2>. QED
    BY <2>1, <2>4, <2>5, <2>6, <2>7
<1>. QED
  BY <1>1, <1>2, <1>3, <1>4

(* Each step keeps the files fresh: an update begins a file's time anew,   *)
(* a tick lets ages and times grow alike, and the wait is over when its    *)
(* time is.                                                                *)
LEMMA StepFresh == IInv /\ [Next]_vars => GoodSinceUpdate'
<1> SUFFICES ASSUME IInv, TypeOK', [Next]_vars, calm' # 0
             PROVE  GoodSinceUpdate'
  BY StepTyped, FailureIsFreshNext DEF IInv
<1> USE Bounds DEF IInv
<1>t. /\ \A g \in Files : age[g] \in Nat /\ age[g] <= OldAge
      /\ slack \in 0..MaxDelay /\ left \in 0..Period
      /\ calm \in Nat /\ calm <= OldAge
      /\ age \in [Files -> 0..OldAge]
  BY Parts
<1>s. \A g \in Files : Since(g) \in Nat
  BY SinceBound
<1>g. \A g \in Files :
         \/ content[g] = "good" /\ age[g] <= Limit(g) + Since(g)
         \/ calm <= WeekLimit + Since(g)
  BY DEF GoodSinceUpdate
<1>1. ASSUME UNCHANGED <<content, age, calm>>,
             \A g \in Files : Since(g)' = Since(g)
      PROVE  GoodSinceUpdate'
  BY <1>1, <1>g DEF GoodSinceUpdate
<1>2. CASE UpdatePointInfo \/ UpdatePeriodForecasts \/ UpdateHourlyForecasts
              \/ UpdateObservationStations
  <2>1. PICK f \in Files :
           /\ f = "point" \/ "point" \in Checked
           /\ \E ok, notOk \in Files \cup {"currentConditions", "wait"} :
                 Update(f, ok, notOk)
           /\ \A g \in Files \ {f} :
                 /\ content'[g] = content[g] /\ age'[g] = age[g]
                 /\ Since(g)' = Since(g)
           /\ Since(f)' = slack
    BY <1>2, UpdateMovesOn
  <2>2. \/ content'[f] = "good" /\ age'[f] <= Limit(f) + slack
        \/ calm' <= WeekLimit + slack
    BY <2>1, UpdateIsFresh
  <2>3. calm' = calm
    BY <2>1 DEF Update, Keep, NotFetched, Stored, NotStored, StoredTorn,
                Fault
  <2> SUFFICES ASSUME NEW g \in Files
               PROVE  \/ /\ content'[g] = "good"
                         /\ age'[g] <= Limit(g) + Since(g)'
                      \/ calm' <= WeekLimit + Since(g)'
    BY DEF GoodSinceUpdate
  <2>4. CASE g = f
    BY <2>1, <2>2, <2>4, Zenon
  <2>5. CASE g # f
    BY <1>g, <2>1, <2>3, <2>5, Zenon
  <2>. QED
    BY <2>4, <2>5
<1>3. CASE UpdateCurrentConditions
  <2>1. /\ UNCHANGED <<content, age, calm, slack>> /\ left' = Period
        /\ pc = "currentConditions" /\ pc' = "wait"
    BY <1>3 DEF UpdateCurrentConditions, Goto, Keep
  <2>2. CycleTime' = slack /\ CycleTime = slack
    <3>1. slack + Period - Period = slack
      BY <1>t
    <3>. QED
      BY <2>1, <3>1, Zenon DEF CycleTime
  <2>3. Checked' = Files /\ Checked = Files
    BY <2>1 DEF Checked
  <2>. QED
    BY <1>1, <2>1, <2>2, <2>3 DEF Since
<1>4. CASE WaitOver
  <2>1. /\ UNCHANGED <<content, age, calm>> /\ pc = "wait" /\ left = 0
        /\ pc' = "point" /\ slack' = 0
    BY <1>4 DEF WaitOver
  <2>2. \A g \in Files : Since(g)' = Period + MaxDelay
    BY <2>1 DEF Since, Checked
  <2>3. \A g \in Files : Since(g) <= Period + MaxDelay
    BY <1>t, <2>1 DEF Since, Checked, CycleTime
  <2>4. \A g \in Files :
           \/ content[g] = "good" /\ age[g] <= Limit(g) + (Period + MaxDelay)
           \/ calm <= WeekLimit + (Period + MaxDelay)
    BY <1>t, <1>s, <1>g, <2>3
  <2>. QED
    BY <2>1, <2>2, <2>4, Zenon DEF GoodSinceUpdate
<1>5. CASE Tick
  <2>1. /\ \A g \in Files : age'[g] \in Nat /\ age'[g] <= age[g] + 1
        /\ calm' \in Nat /\ calm' <= calm + 1
        /\ pc' = pc /\ content' = content
    BY <1>5, <1>t DEF Tick
  <2>2. \A g \in Files : Since(g)' = Since(g) + 1
    <3>1. CASE pc = "wait"
      <4>1. left \in Nat /\ left' = left - 1 /\ slack' = slack
        BY <1>5, <1>t, <3>1 DEF Tick
      <4>2. slack + Period - (left - 1) = (slack + Period - left) + 1
        BY <1>t
      <4>3. CycleTime' = CycleTime + 1
        BY <2>1, <3>1, <4>1, <4>2, Zenon DEF CycleTime
      <4>4. Checked' = Files /\ Checked = Files
        BY <2>1, <3>1 DEF Checked
      <4>. QED
        BY <4>3, <4>4 DEF Since
    <3>2. CASE pc # "wait"
      <4>1. slack' = slack + 1 /\ Checked' = Checked
        BY <1>5, <2>1, <3>2 DEF Tick, Checked
      <4>2. CycleTime' = CycleTime + 1
        BY <2>1, <3>2, <4>1 DEF CycleTime
      <4>3. Period + MaxDelay + (slack + 1) = (Period + MaxDelay + slack) + 1
        BY <1>t
      <4>. QED
        BY <4>1, <4>2, <4>3, Zenon DEF Since
    <3>. QED
      BY <3>1, <3>2
  <2>3. \A g \in Files :
           \/ content[g] = "good" /\ age'[g] <= Limit(g) + (Since(g) + 1)
           \/ calm' <= WeekLimit + (Since(g) + 1)
    BY <1>t, <1>s, <1>g, <2>1
  <2>. QED
    BY <2>1, <2>2, <2>3, Zenon DEF GoodSinceUpdate
<1>6. CASE UNCHANGED vars
  BY <1>1, <1>6 DEF vars, Since, CycleTime, Checked
<1>. QED
  BY <1>2, <1>3, <1>4, <1>5, <1>6 DEF Next, CrashRestart, Fault

(* The invariant holds at the start, and each step keeps it. *)
THEOREM Invariance == Spec => []IInv
<1>1. Init => IInv
  <2>1. Init => NotGoodIsOld /\ GoodPointIsKnown
    <3>1. Init => NotGoodIsOld
      BY Bounds DEF Init, NotGoodIsOld
    <3>2. Init => GoodPointIsKnown
      BY DEF Init, GoodPointIsKnown, Files
    <3>. QED
      BY <3>1, <3>2
  <2>2. Init => calm = 0
    BY DEF Init
  <2>. QED
    BY <2>1, <2>2, InitTyped, FailureIsFresh DEF IInv
<1>2. IInv /\ [Next]_vars => IInv'
  BY StepTyped, StepNotGood, StepKnown, StepFresh DEF IInv
<1>. QED
  BY <1>1, <1>2, PTL DEF Spec

(* Type correctness of the fetcher's cycle, with no age for a file that is *)
(* not there.                                                              *)
THEOREM TypeCorrect == Spec => []TypeOK
<1>1. IInv => TypeOK
  BY DEF IInv
<1>. QED
  BY Invariance, <1>1, PTL

(* Once nothing has failed for HealBound, all files are good and none is   *)
(* more than a period and two cycles' delays over its limit.               *)
THEOREM FreshAgain == Spec => []FreshWhenCalm
<1>1. IInv => FreshWhenCalm
  <2> SUFFICES ASSUME IInv, calm > HealBound, NEW f \in Files
               PROVE  /\ content[f] = "good"
                      /\ age[f] <= Limit(f) + Period + 2 * MaxDelay
    BY DEF FreshWhenCalm
  <2>1. Since(f) \in Nat /\ Since(f) <= Period + 2 * MaxDelay
    BY SinceBound DEF IInv
  <2>2. calm \in Nat /\ age[f] \in Nat
    BY Parts DEF IInv
  <2>3. ~(calm <= WeekLimit + Since(f))
    BY <2>1, <2>2, Bounds
  <2>. QED
    BY <2>1, <2>2, <2>3, Bounds DEF IInv, GoodSinceUpdate
<1>. QED
  BY Invariance, <1>1, PTL

=============================================================================
