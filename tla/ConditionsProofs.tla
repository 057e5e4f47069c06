------------------------- MODULE ConditionsProofs -------------------------
(***************************************************************************)
(* Proofs about the readings: that a true UpdateCurrentConditions means a  *)
(* saved file, that a cycle takes the first two answers, and that a client *)
(* gets recent readings once nothing has failed for long enough, whatever  *)
(* the stations, the limits and the changes of the clock.                  *)
(***************************************************************************)
EXTENDS Conditions, TLAPS

(* No reading is from further ahead than the clock was set back by. *)
AgesFollowClock ==
    \A s \in Stations :
        /\ mem[s] # None => mem[s] >= -back
        /\ file[s] # None => file[s] >= -back

(* A cycle that has not begun has asked nobody. *)
NobodyAsked == pc = "begin" => up = {} /\ taken = {}

(* TypeOK in two parts: the list of stations and the positions in it, and  *)
(* the rest.                                                               *)
ListTyped ==
    /\ names \in Seq(Stations)
    /\ up \subseteq DOMAIN names
    /\ pos \in 1..(Len(names) + 1)
    /\ taken \subseteq up
    /\ \A i, j \in up : i < j /\ names[i] = names[j] => j <= Len(Configured)

RestTyped ==
    /\ pc \in {"begin", "ask", "wait"}
    /\ rc \in BOOLEAN
    /\ mem \in Readings
    /\ file \in Readings
    /\ lost \in BOOLEAN
    /\ unchanged \in BOOLEAN
    /\ left \in 0..Period
    /\ slack \in 0..MaxDelay
    /\ back \in 0..MaxBack
    /\ faults \in 0..MaxFaults
    /\ calm \in 0..CalmBound

(* The part of the invariant that all others rest on. *)
BaseInv == TypeOK /\ AgesFollowClock /\ NobodyAsked

(* The positions that have answered are those before the next one, and     *)
(* there are never two before one of them.                                 *)
TakenInv ==
    /\ pc = "ask" => taken = {i \in up : i < pos}
    /\ \A i \in taken : ~ \E j, k \in up : j < k /\ k < i

(* The readings of a cycle are in memory and no older than the cycle. *)
CycleAge == IF pc = "wait" THEN MaxDelay + Period - left ELSE slack

HaveReadings ==
    \A i \in taken : mem[names[i]] # None /\ mem[names[i]] <= CycleAge

AnswersInv == TakenInv /\ HaveReadings /\ FirstTwoAnswers

(* The most time since the last save, if nothing has failed since. *)
SaveAge ==
    IF pc = "wait" THEN MaxDelay + Period - left
    ELSE IF taken # {} THEN slack
    ELSE MaxDelay + Period + slack

(* The file has a reading of at most this age, and dropped the old ones    *)
(* when it was written.                                                    *)
SavedWithin(age) ==
    /\ \E s \in Stations : file[s] # None /\ file[s] \in 0..age
    /\ \A s \in Stations : file[s] # None => file[s] <= KeepLimit + age

(* A reading in memory that is as old as it says was fetched after the     *)
(* last fault only together with a save.                                   *)
SavedOnceFetched ==
    \A s \in Stations :
        mem[s] # None /\ mem[s] < OldAge =>
            \/ calm <= mem[s] + back
            \/ /\ mem[s] >= 0 /\ file[s] = mem[s]
               /\ \A t \in Stations :
                     file[t] # None => file[t] <= KeepLimit + mem[s]

(* Nobody answers only in a cycle that had a fault. *)
SilenceIsFault == pc = "ask" /\ up = {} => calm <= slack

SavedInTime == calm <= SaveAge + back \/ SavedWithin(SaveAge)

RecentInv == SavedInTime /\ SavedOnceFetched /\ SilenceIsFault

----------------------------------------------------------------------------
(* What the parts of an action do to the readings. *)

(* A part of a torn file holds only readings that were written. *)
LEMMA PartsAreReadings ==
    ASSUME NEW readings \in Readings, NEW part \in Parts(readings)
    PROVE  /\ part \in Readings
           /\ \A s \in Stations : part[s] \in {readings[s], None}
BY DEF Parts, Readings

(* Clearing takes readings out and changes none. *)
LEMMA WithoutOldIsReadings ==
    ASSUME NEW readings \in Readings
    PROVE  /\ WithoutOld(readings) \in Readings
           /\ \A s \in Stations :
                 WithoutOld(readings)[s] =
                    IF readings[s] # None /\ readings[s] > KeepLimit
                    THEN None ELSE readings[s]
BY DEF WithoutOld, Readings

(* The bounds are numbers. *)
LEMMA Bounds ==
    /\ HealBound \in Nat /\ OldAge \in Nat /\ CalmBound \in Nat
    /\ OldAge = KeepLimit + Period + 2 * MaxDelay + MaxBack + 1
    /\ Period \in Nat /\ KeepLimit \in Nat /\ MaxDelay \in Nat
    /\ MaxBack \in Nat /\ MaxFaults \in Nat /\ MaxDelay <= KeepLimit
    /\ None \notin Int
BY LimitsAssumption, StationsAssumption, DelayAssumption
   DEF HealBound, OldAge, CalmBound

(* The time since a cycle began is never more than this. *)
LEMMA WaitBound ==
    ASSUME NEW ticks \in 0..Period
    PROVE  /\ MaxDelay + Period - ticks \in Nat
           /\ MaxDelay + Period - ticks <= Period + MaxDelay
           /\ MaxDelay + Period - ticks <= HealBound
BY Bounds DEF HealBound

(* SetConditions leaves in memory what was there, less what is too old,    *)
(* with the new reading; the file is as it was, what memory holds, or a    *)
(* part of it.                                                             *)
LEMMA SetConditionsEffect ==
    ASSUME TypeOK, NEW s \in Stations, SetConditions(s)
    PROVE  /\ mem' \in Readings /\ file' \in Readings
           /\ mem'[s] = 0
           /\ \A t \in Stations : t # s => mem'[t] \in {mem[t], None}
           /\ \A t \in Stations :
                 t # s /\ mem[t] # None /\ mem[t] <= KeepLimit =>
                    mem'[t] = mem[t]
           /\ \A t \in Stations : file'[t] \in {file[t], mem'[t], None}
<1>. USE Bounds
<1>1. mem \in Readings /\ file \in Readings
  BY DEF TypeOK
<1>2. CASE mem[s] = 0 /\ UNCHANGED <<mem, file>>
  BY <1>1, <1>2
<1>3. CASE /\ mem' = WithoutOld([mem EXCEPT ![s] = 0])
           /\ Saved \/ NotOpened \/ SavedTorn
  <2>1. [mem EXCEPT ![s] = 0] \in Readings
    BY <1>1 DEF Readings
  <2>2. /\ mem' \in Readings
        /\ \A t \in Stations :
              mem'[t] = IF /\ [mem EXCEPT ![s] = 0][t] # None
                           /\ [mem EXCEPT ![s] = 0][t] > KeepLimit
                        THEN None ELSE [mem EXCEPT ![s] = 0][t]
    BY <2>1, <1>3, WithoutOldIsReadings
  <2>3. /\ file' \in Readings
        /\ \A t \in Stations : file'[t] \in {file[t], mem'[t], None}
    <3>1. CASE file' = mem' \/ UNCHANGED file
      BY <3>1, <1>1, <2>2
    <3>2. CASE file' \in Parts(mem')
      BY <3>2, <2>2, PartsAreReadings
    <3>. QED
      BY <3>1, <3>2, <1>3 DEF Saved, NotOpened, SavedTorn
  <2>. QED
    BY <1>1, <2>2, <2>3 DEF Readings
<1>. QED
  BY <1>2, <1>3 DEF SetConditions

(* What else SetConditions changes. *)
LEMMA SetConditionsFlags ==
    ASSUME TypeOK, NEW s \in Stations, SetConditions(s)
    PROVE  /\ rc' \in BOOLEAN /\ lost' \in BOOLEAN /\ unchanged' \in BOOLEAN
           /\ \/ faults' = faults /\ calm' = calm
              \/ faults < MaxFaults /\ faults' = faults + 1 /\ calm' = 0
<1>1. rc \in BOOLEAN /\ lost \in BOOLEAN /\ unchanged \in BOOLEAN
  BY DEF TypeOK
<1>2. unchanged' \in BOOLEAN
  BY Zenon DEF SetConditions
<1>3. rc' \in BOOLEAN /\ lost' \in BOOLEAN
  BY <1>1, Zenon DEF SetConditions, Saved, NotOpened, SavedTorn
<1>4. \/ faults' = faults /\ calm' = calm
      \/ faults < MaxFaults /\ faults' = faults + 1 /\ calm' = 0
  BY Zenon DEF SetConditions, Saved, NotOpened, SavedTorn, Fault, NoFault
<1>. QED
  BY <1>2, <1>3, <1>4

(* A tick adds one to every age that is still told apart. *)
LEMMA OlderIsReadings ==
    ASSUME NEW readings \in Readings
    PROVE  /\ Older(readings) \in Readings
           /\ \A s \in Stations :
                 Older(readings)[s] =
                    IF readings[s] # None /\ readings[s] < OldAge
                    THEN readings[s] + 1 ELSE readings[s]
BY Bounds DEF Older, Readings

(* Setting the clock back takes the same from every age. *)
LEMMA YoungerIsReadings ==
    ASSUME NEW readings \in Readings, NEW ticks \in Nat,
           \A s \in Stations :
              readings[s] # None => readings[s] >= ticks - MaxBack
    PROVE  /\ Younger(readings, ticks) \in Readings
           /\ \A s \in Stations :
                 Younger(readings, ticks)[s] =
                    IF readings[s] # None THEN readings[s] - ticks ELSE None
BY Bounds DEF Younger, Readings

----------------------------------------------------------------------------
(* Types. *)

(* A cycle begins with a list of stations in which a position that is      *)
(* asked again is a configured one.                                        *)
LEMMA BeginIsTyped ==
    ASSUME BaseInv, BeginUpdate
    PROVE  /\ names' \in Seq(Stations)
           /\ up' \subseteq DOMAIN names'
           /\ \A i, j \in up' :
                 i < j /\ names'[i] = names'[j] => j <= Len(Configured)
<1>1. PICK stations \in {Nearby, <<>>} :
        names' = Configured \o stations /\ up' \in SUBSET Asked(names')
  BY DEF BeginUpdate
<1>2. names' \in Seq(Stations)
  <2>1. CASE stations = <<>>
    BY <1>1, <2>1, StationsAssumption
  <2>2. CASE stations = Nearby
    BY <1>1, <2>2, StationsAssumption
  <2>. QED
    BY <2>1, <2>2
<1>3. up' \subseteq DOMAIN names'
  BY <1>1 DEF Asked
<1>4. \A j \in up' :
         \/ j <= Len(Configured)
         \/ \A i \in 1..(j - 1) : names'[i] # names'[j]
  BY <1>1 DEF Asked
<1>5. \A j \in up' : j \in 1..Len(names')
  BY <1>2, <1>3
<1>6. ASSUME NEW i \in up', NEW j \in up', i < j, names'[i] = names'[j]
      PROVE  j <= Len(Configured)
  <2>1. i \in 1..(j - 1)
    BY <1>5, <1>6
  <2>. QED
    BY <1>4, <1>6, <2>1, Zenon
<1>. QED
  BY <1>2, <1>3, <1>6, Zenon

(* The cycle begins with nothing. *)
LEMMA InitBase == Init => BaseInv
<1> SUFFICES ASSUME Init PROVE BaseInv
  OBVIOUS
<1>1. mem \in Readings /\ file \in Readings /\ AgesFollowClock
  BY Bounds DEF Init, Readings, AgesFollowClock
<1>2. names \in Seq(Stations) /\ pos \in 1..(Len(names) + 1)
  BY DEF Init
<1>3. /\ left \in 0..Period /\ slack \in 0..MaxDelay /\ back \in 0..MaxBack
      /\ faults \in 0..MaxFaults /\ calm \in 0..CalmBound
  BY Bounds DEF Init
<1>4. /\ up = {} /\ taken = {} /\ pc = "begin" /\ rc = FALSE
      /\ lost = FALSE /\ unchanged = FALSE
  BY DEF Init
<1>. QED
  BY <1>1, <1>2, <1>3, <1>4 DEF BaseInv, TypeOK, NobodyAsked

(* Each step keeps the types, and no age falls below what the clock was    *)
(* set back by.                                                            *)
LEMMA StepBase == BaseInv /\ [Next]_vars => BaseInv'
<1> SUFFICES ASSUME BaseInv, [Next]_vars PROVE BaseInv'
  OBVIOUS
<1> USE Bounds
<1>t. /\ TypeOK /\ mem \in Readings /\ file \in Readings
      /\ names \in Seq(Stations) /\ rc \in BOOLEAN /\ lost \in BOOLEAN
      /\ unchanged \in BOOLEAN /\ back \in 0..MaxBack
  BY DEF BaseInv, TypeOK
<1>1. CASE BeginUpdate
  <2>1. /\ names' \in Seq(Stations) /\ up' \subseteq DOMAIN names'
        /\ \A i, j \in up' :
              i < j /\ names'[i] = names'[j] => j <= Len(Configured)
    BY <1>1, BeginIsTyped
  <2>2. faults' \in 0..MaxFaults /\ calm' \in 0..CalmBound
    BY <1>1 DEF BeginUpdate, Fault, NoFault, BaseInv, TypeOK
  <2>3. /\ pos' = 1 /\ taken' = {} /\ rc' = FALSE /\ pc' = "ask"
        /\ UNCHANGED <<mem, file, lost, unchanged, left, slack, back>>
    BY <1>1 DEF BeginUpdate
  <2>4. ListTyped'
    BY <2>1, <2>3 DEF ListTyped
  <2>5. RestTyped'
    BY <2>2, <2>3 DEF BaseInv, TypeOK, RestTyped
  <2>6. AgesFollowClock' /\ NobodyAsked'
    BY <2>3 DEF BaseInv, AgesFollowClock, NobodyAsked
  <2>7. TypeOK'
    BY <2>4, <2>5 DEF TypeOK, ListTyped, RestTyped
  <2>. QED
    BY <2>6, <2>7 DEF BaseInv
<1>2. CASE SkipUpdate
  BY <1>2 DEF SkipUpdate, Fault, BaseInv, TypeOK, AgesFollowClock,
              NobodyAsked
<1>3. CASE Answer
  <2>1. pos \in 1..Len(names) /\ names[pos] \in Stations
    BY <1>3, <1>t DEF Answer, BaseInv, TypeOK
  <2>2. SetConditions(names[pos])
    BY <1>3 DEF Answer
  <2>3. /\ rc' \in BOOLEAN /\ lost' \in BOOLEAN /\ unchanged' \in BOOLEAN
        /\ \/ faults' = faults /\ calm' = calm
           \/ faults < MaxFaults /\ faults' = faults + 1 /\ calm' = 0
    BY <1>t, <2>1, <2>2, SetConditionsFlags
  <2>4. /\ mem' \in Readings /\ file' \in Readings
        /\ mem'[names[pos]] = 0
        /\ \A t \in Stations : t # names[pos] => mem'[t] \in {mem[t], None}
        /\ \A t \in Stations : file'[t] \in {file[t], mem'[t], None}
    BY <1>t, <2>1, <2>2, SetConditionsEffect
  <2>5. AgesFollowClock'
    BY <1>3, <2>1, <2>4 DEF Answer, BaseInv, AgesFollowClock, TypeOK
  <2>6. /\ taken' = taken \cup {pos} /\ pos' = pos + 1 /\ pc = "ask"
        /\ pos \in up
        /\ UNCHANGED <<pc, names, up, left, slack, back>>
    BY <1>3 DEF Answer
  <2>7. faults' \in 0..MaxFaults /\ calm' \in 0..CalmBound
    BY <2>3 DEF BaseInv, TypeOK
  <2>8. ListTyped'
    BY <2>1, <2>6 DEF BaseInv, TypeOK, ListTyped
  <2>9. RestTyped'
    BY <2>3, <2>4, <2>6, <2>7 DEF BaseInv, TypeOK, RestTyped
  <2>10. TypeOK'
    BY <2>8, <2>9 DEF TypeOK, ListTyped, RestTyped
  <2>. QED
    BY <2>5, <2>6, <2>10 DEF BaseInv, NobodyAsked
<1>4. CASE NoAnswer
  BY <1>4 DEF NoAnswer, NoFault, BaseInv, TypeOK, AgesFollowClock,
              NobodyAsked
<1>5. CASE EndUpdate
  BY <1>5 DEF EndUpdate, NoFault, BaseInv, TypeOK, AgesFollowClock,
              NobodyAsked
<1>6. CASE WaitOver
  BY <1>6 DEF WaitOver, NoFault, BaseInv, TypeOK, AgesFollowClock,
              NobodyAsked
<1>7. CASE Tick
  <2>1. /\ mem' \in Readings /\ file' \in Readings
        /\ \A s \in Stations :
              /\ mem'[s] = IF mem[s] # None /\ mem[s] < OldAge
                           THEN mem[s] + 1 ELSE mem[s]
              /\ file'[s] = IF file[s] # None /\ file[s] < OldAge
                            THEN file[s] + 1 ELSE file[s]
    BY <1>7, <1>t, OlderIsReadings DEF Tick
  <2>2. AgesFollowClock'
    BY <1>7, <1>t, <2>1, SMTT(30)
       DEF Tick, BaseInv, AgesFollowClock, TypeOK, Readings
  <2>3. left' \in 0..Period /\ slack' \in 0..MaxDelay /\ calm' \in 0..CalmBound
    BY <1>7 DEF Tick, BaseInv, TypeOK
  <2>4. UNCHANGED <<pc, names, up, pos, taken, rc, lost, unchanged, back,
                    faults>>
    BY <1>7 DEF Tick
  <2>. QED
    BY <2>1, <2>2, <2>3, <2>4 DEF BaseInv, TypeOK, NobodyAsked
<1>8. CASE ClockSetBack
  <2>1. PICK ticks \in 1..(MaxBack - back) :
          /\ back' = back + ticks
          /\ mem' = Younger(mem, ticks)
          /\ file' = Younger(file, ticks)
    BY <1>8 DEF ClockSetBack
  <2>2. back \in 0..MaxBack /\ ticks \in Nat
    BY DEF BaseInv, TypeOK
  <2>3. \A s \in Stations :
           /\ mem[s] # None => mem[s] >= ticks - MaxBack
           /\ file[s] # None => file[s] >= ticks - MaxBack
    BY <1>t, <2>2 DEF BaseInv, AgesFollowClock, Readings
  <2>4. /\ mem' \in Readings /\ file' \in Readings
        /\ \A s \in Stations :
              /\ mem'[s] = IF mem[s] # None THEN mem[s] - ticks ELSE None
              /\ file'[s] = IF file[s] # None THEN file[s] - ticks ELSE None
    BY <1>t, <2>1, <2>2, <2>3, YoungerIsReadings
  <2>5. AgesFollowClock'
    BY <1>t, <2>1, <2>2, <2>4 DEF BaseInv, AgesFollowClock, Readings
  <2>6. /\ faults' \in 0..MaxFaults /\ calm' = 0 /\ back' \in 0..MaxBack
        /\ UNCHANGED <<pc, names, up, pos, taken, rc, lost, unchanged, left,
                       slack>>
    BY <1>8, <2>1, <2>2 DEF ClockSetBack, Fault, BaseInv, TypeOK
  <2>. QED
    BY <2>4, <2>5, <2>6 DEF BaseInv, TypeOK, NobodyAsked
<1>9. CASE CrashRestart
  <2>1. /\ file' \in Readings
        /\ \A s \in Stations : file'[s] \in {file[s], mem[s], None}
    BY <1>9, <1>t, PartsAreReadings DEF CrashRestart
  <2>2. AgesFollowClock'
    BY <1>9, <1>t, <2>1 DEF CrashRestart, BaseInv, AgesFollowClock, Readings
  <2>3. /\ names' = <<>> /\ up' = {} /\ pos' = 1 /\ taken' = {}
        /\ pc' = "begin" /\ rc' = FALSE /\ lost' = FALSE
        /\ unchanged' = FALSE /\ left' = 0 /\ slack' = 0 /\ back' = back
        /\ mem' = file'
    BY <1>9 DEF CrashRestart
  <2>4. faults' \in 0..MaxFaults /\ calm' = 0
    BY <1>9 DEF CrashRestart, Fault, BaseInv, TypeOK
  <2>5. ListTyped'
    BY <2>3 DEF ListTyped
  <2>6. RestTyped'
    <3>1. left' \in 0..Period /\ slack' \in 0..MaxDelay
          /\ back' \in 0..MaxBack /\ calm' \in 0..CalmBound
      BY <1>t, <2>3, <2>4
    <3>2. mem' \in Readings /\ file' \in Readings
      BY <2>1, <2>3
    <3>. QED
      BY <2>3, <2>4, <3>1, <3>2, Zenon DEF RestTyped
  <2>7. TypeOK'
    BY <2>5, <2>6 DEF TypeOK, ListTyped, RestTyped
  <2>. QED
    BY <2>2, <2>3, <2>7 DEF BaseInv, NobodyAsked
<1>10. CASE UNCHANGED vars
  BY <1>10 DEF vars, BaseInv, TypeOK, AgesFollowClock, NobodyAsked
<1>. QED
  BY <1>1, <1>2, <1>3, <1>4, <1>5, <1>6, <1>7, <1>8, <1>9, <1>10 DEF Next

(* The types hold always. *)
THEOREM Typed == Spec => []BaseInv
BY InitBase, StepBase, PTL DEF Spec

(* Type correctness: in particular, no position is asked a second time for *)
(* a station that is both configured and near, unless it was configured    *)
(* twice.                                                                  *)
THEOREM TypeCorrect == Spec => []TypeOK
<1>1. BaseInv => TypeOK
  BY DEF BaseInv
<1>. QED
  BY Typed, <1>1, PTL

----------------------------------------------------------------------------
(* True means saved. *)

(* A true result comes from a save of all that is in memory, and ageing    *)
(* changes both alike.                                                     *)
LEMMA StepTrue == TrueMeansSaved /\ [Next]_vars => TrueMeansSaved'
<1> SUFFICES ASSUME TrueMeansSaved, [Next]_vars PROVE TrueMeansSaved'
  OBVIOUS
<1> USE DEF TrueMeansSaved
<1>1. CASE BeginUpdate
  BY <1>1 DEF BeginUpdate
<1>2. CASE SkipUpdate
  BY <1>2 DEF SkipUpdate
<1>3. CASE Answer
  <2>1. unchanged' \/ ~rc' \/ lost' \/ file' = mem'
    BY <1>3, Zenon
       DEF Answer, SetConditions, Saved, NotOpened, SavedTorn
  <2>. QED
    BY <2>1, Zenon
<1>4. CASE NoAnswer
  BY <1>4 DEF NoAnswer
<1>5. CASE EndUpdate
  BY <1>5 DEF EndUpdate
<1>6. CASE WaitOver
  BY <1>6 DEF WaitOver
<1>7. CASE Tick
  BY <1>7, Zenon DEF Tick
<1>8. CASE ClockSetBack
  BY <1>8, Zenon DEF ClockSetBack
<1>9. CASE CrashRestart
  BY <1>9 DEF CrashRestart
<1>10. CASE UNCHANGED vars
  BY <1>10 DEF vars
<1>. QED
  BY <1>1, <1>2, <1>3, <1>4, <1>5, <1>6, <1>7, <1>8, <1>9, <1>10 DEF Next

(* When UpdateCurrentConditions has returned true, and nothing was hidden  *)
(* from it, a client reads what the fetcher has in memory.                 *)
THEOREM TrueIsSaved == Spec => []TrueMeansSaved
<1>1. Init => TrueMeansSaved
  BY DEF Init, TrueMeansSaved
<1>. QED
  BY <1>1, StepTrue, PTL DEF Spec

----------------------------------------------------------------------------
(* The first two answers. *)

(* While stations are asked, each that answers is taken: asking ends with  *)
(* the second, so no third one comes to be after two others.               *)
LEMMA StepTaken == BaseInv /\ TakenInv /\ [Next]_vars => TakenInv'
<1> SUFFICES ASSUME BaseInv, TakenInv, [Next]_vars PROVE TakenInv'
  OBVIOUS
<1>t. names \in Seq(Stations) /\ up \subseteq 1..Len(names) /\ pos \in Nat
  BY DEF BaseInv, TypeOK
<1>1. CASE BeginUpdate
  <2>1. /\ up' \subseteq DOMAIN names' /\ names' \in Seq(Stations)
    BY <1>1, BeginIsTyped
  <2>2. \A i \in up' : ~(i < 1)
    BY <2>1
  <2>. QED
    BY <1>1, <2>2 DEF BeginUpdate, TakenInv
<1>2. CASE SkipUpdate
  BY <1>2 DEF SkipUpdate, TakenInv
<1>3. CASE Answer
  <2>1. /\ pc = "ask" /\ pos \in up /\ taken' = taken \cup {pos}
        /\ pos' = pos + 1 /\ ~Enough /\ UNCHANGED <<pc, names, up>>
    BY <1>3 DEF Answer
  <2>2. taken = {i \in up : i < pos}
    BY <2>1 DEF TakenInv
  <2>3. taken' = {i \in up' : i < pos'}
    <3>1. \A i \in up : i \in Int /\ (i < pos + 1 <=> i < pos \/ i = pos)
      BY <1>t
    <3>. QED
      BY <2>1, <2>2, <3>1, Zenon
  <2>4. ~ \E j, k \in up : j < k /\ k < pos
    BY <1>t, <2>1, <2>2 DEF Enough
  <2>. QED
    BY <2>1, <2>3, <2>4 DEF TakenInv
<1>4. CASE NoAnswer
  <2>1. \A i \in up : i < pos + 1 <=> i < pos
    BY <1>4, <1>t DEF NoAnswer
  <2>. QED
    BY <1>4, <2>1 DEF NoAnswer, TakenInv
<1>5. CASE EndUpdate
  BY <1>5 DEF EndUpdate, TakenInv
<1>6. CASE WaitOver
  BY <1>6 DEF WaitOver, TakenInv
<1>7. CASE Tick
  BY <1>7 DEF Tick, TakenInv
<1>8. CASE ClockSetBack
  BY <1>8 DEF ClockSetBack, TakenInv
<1>9. CASE CrashRestart
  BY <1>9 DEF CrashRestart, TakenInv
<1>10. CASE UNCHANGED vars
  BY <1>10 DEF vars, TakenInv
<1>. QED
  BY <1>1, <1>2, <1>3, <1>4, <1>5, <1>6, <1>7, <1>8, <1>9, <1>10 DEF Next

(* The readings of a cycle are never old enough to be cleared by it, since *)
(* a cycle's requests take less than an hour.                              *)
LEMMA StepHave == BaseInv /\ HaveReadings /\ [Next]_vars => HaveReadings'
<1> SUFFICES ASSUME BaseInv, HaveReadings, [Next]_vars PROVE HaveReadings'
  OBVIOUS
<1> USE Bounds
<1>t. /\ TypeOK /\ mem \in Readings /\ names \in Seq(Stations)
      /\ taken \subseteq 1..Len(names) /\ up \subseteq 1..Len(names)
      /\ left \in 0..Period /\ slack \in 0..MaxDelay
  BY DEF BaseInv, TypeOK
<1>s. \A i \in taken : names[i] \in Stations
  BY <1>t
<1>1. CASE BeginUpdate
  BY <1>1 DEF BeginUpdate, HaveReadings
<1>2. CASE SkipUpdate
  BY <1>2 DEF SkipUpdate, HaveReadings, BaseInv, NobodyAsked
<1>3. CASE Answer
  <2>1. /\ pc = "ask" /\ pos \in up /\ taken' = taken \cup {pos}
        /\ SetConditions(names[pos]) /\ UNCHANGED <<pc, names, left, slack>>
    BY <1>3 DEF Answer
  <2>2. names[pos] \in Stations
    BY <1>t, <2>1
  <2>3. /\ mem'[names[pos]] = 0
        /\ \A t \in Stations :
              t # names[pos] /\ mem[t] # None /\ mem[t] <= KeepLimit =>
                 mem'[t] = mem[t]
    BY <1>t, <2>1, <2>2, SetConditionsEffect
  <2>4. CycleAge = slack /\ CycleAge' = slack
    BY <2>1 DEF CycleAge
  <2>5. \A i \in taken : mem[names[i]] # None /\ mem[names[i]] <= slack
    BY <2>4 DEF HaveReadings
  <2>6. ASSUME NEW i \in taken'
        PROVE  mem'[names[i]] # None /\ mem'[names[i]] <= slack
    <3>1. CASE names[i] = names[pos]
      BY <1>t, <2>3, <3>1
    <3>2. CASE names[i] # names[pos]
      <4>1. i \in taken /\ names[i] \in Stations
        BY <2>1, <3>2, <1>s
      <4>2. mem[names[i]] \in Int /\ mem[names[i]] <= KeepLimit
        BY <1>t, <2>5, <4>1 DEF Readings
      <4>. QED
        BY <2>3, <2>5, <3>2, <4>1, <4>2
    <3>. QED
      BY <3>1, <3>2
  <2>. QED
    BY <2>1, <2>4, <2>6 DEF HaveReadings
<1>4. CASE NoAnswer
  BY <1>4 DEF NoAnswer, HaveReadings, CycleAge
<1>5. CASE EndUpdate
  <2>1. \A i \in taken : mem[names[i]] # None /\ mem[names[i]] <= slack
    BY <1>5 DEF EndUpdate, HaveReadings, CycleAge
  <2>2. CycleAge' = MaxDelay /\ UNCHANGED <<taken, mem, names>>
    BY <1>5 DEF EndUpdate, CycleAge
  <2>3. \A i \in taken : mem[names[i]] \in Int
    BY <1>t, <1>s, <2>1 DEF Readings
  <2>. QED
    BY <1>t, <2>1, <2>2, <2>3 DEF HaveReadings
<1>6. CASE WaitOver
  BY <1>6 DEF WaitOver, HaveReadings
<1>7. CASE Tick
  <2>1. \A s \in Stations :
           mem'[s] = IF mem[s] # None /\ mem[s] < OldAge
                     THEN mem[s] + 1 ELSE mem[s]
    BY <1>7, <1>t, OlderIsReadings DEF Tick
  <2>2. CycleAge' = CycleAge + 1 /\ CycleAge \in Int
    BY <1>7, <1>t DEF Tick, CycleAge
  <2>3. UNCHANGED <<taken, names>>
    BY <1>7 DEF Tick
  <2>4. \A i \in taken : mem[names[i]] \in Int
    BY <1>t, <1>s DEF Readings, HaveReadings
  <2>. QED
    BY <1>s, <2>1, <2>2, <2>3, <2>4 DEF HaveReadings
<1>8. CASE ClockSetBack
  <2>1. PICK ticks \in 1..(MaxBack - back) : mem' = Younger(mem, ticks)
    BY <1>8 DEF ClockSetBack
  <2>2. \A s \in Stations :
           mem'[s] = IF mem[s] # None THEN mem[s] - ticks ELSE None
    BY <2>1 DEF Younger
  <2>3. UNCHANGED <<taken, names>> /\ CycleAge' = CycleAge
    BY <1>8 DEF ClockSetBack, CycleAge
  <2>4. \A i \in taken : mem[names[i]] \in Int
    BY <1>t, <1>s DEF Readings, HaveReadings
  <2>5. CycleAge \in Int /\ ticks \in Nat
    BY <1>t DEF CycleAge, BaseInv, TypeOK
  <2>. QED
    BY <1>s, <2>2, <2>3, <2>4, <2>5 DEF HaveReadings
<1>9. CASE CrashRestart
  BY <1>9 DEF CrashRestart, HaveReadings
<1>10. CASE UNCHANGED vars
  BY <1>10 DEF vars, HaveReadings, CycleAge
<1>. QED
  BY <1>1, <1>2, <1>3, <1>4, <1>5, <1>6, <1>7, <1>8, <1>9, <1>10 DEF Next

(* When the cycle ends, all that are first or second have been asked. *)
LEMMA StepFirstTwo ==
    BaseInv /\ TakenInv /\ HaveReadings' /\ FirstTwoAnswers /\ [Next]_vars
        => FirstTwoAnswers'
<1> SUFFICES ASSUME BaseInv, TakenInv, HaveReadings', FirstTwoAnswers,
                    BaseInv', [Next]_vars, pc' = "wait"
             PROVE  FirstTwoAnswers'
  BY StepBase DEF FirstTwoAnswers
<1> USE Bounds
<1>t. /\ names \in Seq(Stations) /\ up \subseteq 1..Len(names)
      /\ taken \subseteq up /\ pos \in Nat
  BY DEF BaseInv, TypeOK
<1>m. \A i \in taken' :
         mem'[names'[i]] # None /\ mem'[names'[i]] <= Period + MaxDelay
  <2>1. /\ left' \in 0..Period /\ mem' \in Readings
        /\ names' \in Seq(Stations) /\ taken' \subseteq 1..Len(names')
    BY DEF BaseInv, TypeOK
  <2>2. CycleAge' \in Nat /\ CycleAge' <= Period + MaxDelay
    <3>1. CycleAge' = MaxDelay + Period - left'
      BY DEF CycleAge
    <3>2. left' \in 0..Period
      BY <2>1
    <3>3. /\ MaxDelay + Period - left' \in Nat
          /\ MaxDelay + Period - left' <= Period + MaxDelay
      BY <3>2, WaitBound, Zenon
    <3>. QED
      BY <3>1, <3>3, Zenon
  <2>3. \A i \in taken' : mem'[names'[i]] \in Int
    BY <2>1 DEF Readings, HaveReadings
  <2>. QED
    BY <2>2, <2>3 DEF HaveReadings
<1>f. taken' = {i \in up' : ~ \E j, k \in up' : j < k /\ k < i}
  <2>1. CASE SkipUpdate
    BY <2>1 DEF SkipUpdate, BaseInv, NobodyAsked
  <2>2. CASE EndUpdate
    <3>1. /\ pc = "ask" /\ UNCHANGED <<up, taken>>
          /\ Enough \/ pos > Len(names)
      BY <2>2 DEF EndUpdate
    <3>2. taken = {i \in up : i < pos}
      BY <3>1 DEF TakenInv
    <3>3. ASSUME NEW i \in up, ~ \E j, k \in up : j < k /\ k < i
          PROVE  i \in taken
      <4>1. CASE pos > Len(names)
        BY <1>t, <3>2, <4>1
      <4>2. CASE Enough
        <5>1. PICK j, k \in taken : j # k
          BY <4>2 DEF Enough
        <5>2. j < pos /\ k < pos /\ j \in Nat /\ k \in Nat /\ i \in Nat
          BY <1>t, <3>2
        <5>. QED
          BY <1>t, <3>2, <3>3, <5>1, <5>2
      <4>. QED
        BY <3>1, <4>1, <4>2
    <3>4. \A i \in taken : ~ \E j, k \in up : j < k /\ k < i
      BY DEF TakenInv
    <3>. QED
      BY <1>t, <3>1, <3>3, <3>4
  <2>3. CASE pc = "wait" /\ UNCHANGED <<up, taken>>
    BY <2>3 DEF FirstTwoAnswers
  <2>. QED
    <3>1. CASE Answer
      BY <3>1 DEF Answer
    <3>2. CASE Tick \/ ClockSetBack \/ UNCHANGED vars
      BY <3>2, <2>3 DEF Tick, ClockSetBack, vars
    <3>. QED
      BY <2>1, <2>2, <3>1, <3>2
         DEF Next, BeginUpdate, NoAnswer, WaitOver, CrashRestart
<1>. QED
  BY <1>m, <1>f DEF FirstTwoAnswers

(* A cycle takes the first two stations that answer, and has a reading of  *)
(* each in memory when it ends.                                            *)
THEOREM FirstTwoAreTaken == Spec => []FirstTwoAnswers
<1>1. Init => BaseInv /\ AnswersInv
  <2>1. Init => TakenInv /\ HaveReadings /\ FirstTwoAnswers
    BY DEF Init, TakenInv, HaveReadings, FirstTwoAnswers
  <2>. QED
    BY <2>1, InitBase DEF AnswersInv
<1>2. BaseInv /\ AnswersInv /\ [Next]_vars => BaseInv' /\ AnswersInv'
  BY StepBase, StepTaken, StepHave, StepFirstTwo DEF AnswersInv
<1>3. AnswersInv => FirstTwoAnswers
  BY DEF AnswersInv
<1>. QED
  BY <1>1, <1>2, <1>3, PTL DEF Spec

----------------------------------------------------------------------------
(* Recent readings. *)

(* What a reading, the time without a fault and the clock become in a      *)
(* tick.                                                                   *)
LEMMA TickEffect ==
    ASSUME BaseInv, Tick
    PROVE  /\ \A s \in Stations :
                 /\ mem'[s] = IF mem[s] # None /\ mem[s] < OldAge
                              THEN mem[s] + 1 ELSE mem[s]
                 /\ file'[s] = IF file[s] # None /\ file[s] < OldAge
                               THEN file[s] + 1 ELSE file[s]
           /\ calm' \in Nat /\ calm' <= calm + 1
           /\ UNCHANGED <<pc, up, taken, back>>
<1>1. mem \in Readings /\ file \in Readings /\ calm \in 0..CalmBound
  BY DEF BaseInv, TypeOK
<1>. QED
  BY <1>1, Bounds, OlderIsReadings DEF Tick

(* The readings are ages or nothing. *)
LEMMA Ages ==
    ASSUME BaseInv
    PROVE  /\ \A s \in Stations :
                 /\ mem[s] = None \/ (mem[s] \in Int /\ mem[s] >= -back)
                 /\ file[s] = None \/ (file[s] \in Int /\ file[s] >= -back)
           /\ back \in Nat /\ calm \in Nat /\ slack \in 0..MaxDelay
           /\ left \in 0..Period
BY Bounds DEF BaseInv, TypeOK, Readings, AgesFollowClock

(* Unless there is a fault, a reading is either taken for the one in       *)
(* memory, or saved with all that is not too old.                          *)
LEMMA SetConditionsSaves ==
    ASSUME TypeOK, NEW s \in Stations, SetConditions(s)
    PROVE  \/ calm' = 0
           \/ mem[s] = 0 /\ UNCHANGED <<mem, file, calm>>
           \/ /\ calm' = calm /\ file' = mem' /\ mem'[s] = 0
              /\ \A t \in Stations : mem'[t] # None => mem'[t] <= KeepLimit
<1> USE Bounds
<1>1. CASE mem' = WithoutOld([mem EXCEPT ![s] = 0]) /\ Saved
  <2>1. [mem EXCEPT ![s] = 0] \in Readings
    BY DEF TypeOK, Readings
  <2>2. \A t \in Stations :
           mem'[t] = IF /\ [mem EXCEPT ![s] = 0][t] # None
                        /\ [mem EXCEPT ![s] = 0][t] > KeepLimit
                     THEN None ELSE [mem EXCEPT ![s] = 0][t]
    BY <1>1, <2>1, WithoutOldIsReadings
  <2>3. \A t \in Stations : [mem EXCEPT ![s] = 0][t] \in Int \cup {None}
    BY <2>1 DEF Readings
  <2>4. \A t \in Stations : mem'[t] # None => mem'[t] <= KeepLimit
    BY <2>2, <2>3
  <2>5. mem'[s] = 0
    BY SetConditionsEffect
  <2>. QED
    BY <1>1, <2>4, <2>5 DEF Saved, NoFault
<1>2. CASE NotOpened \/ SavedTorn
  BY <1>2 DEF NotOpened, SavedTorn, Fault
<1>3. CASE mem[s] = 0 /\ UNCHANGED <<mem, file>> /\ NoFault
  BY <1>3 DEF NoFault
<1>. QED
  BY <1>1, <1>2, <1>3 DEF SetConditions

(* A fault starts the count again, and no age is below the clock's.        *)
LEMMA FaultKeepsFetched ==
    ASSUME BaseInv', calm' = 0 PROVE SavedOnceFetched'
<1>1. \A s \in Stations :
         mem'[s] = None \/ (mem'[s] \in Int /\ mem'[s] + back' >= 0)
  BY Bounds DEF BaseInv, TypeOK, Readings, AgesFollowClock
<1>. QED
  BY <1>1 DEF SavedOnceFetched

(* A reading that a save put into the file stays there as long as it is in *)
(* memory and nothing fails.                                               *)
LEMMA StepFetched ==
    BaseInv /\ SavedOnceFetched /\ [Next]_vars => SavedOnceFetched'
<1> SUFFICES ASSUME BaseInv, BaseInv', SavedOnceFetched, [Next]_vars,
                    calm' # 0
             PROVE  SavedOnceFetched'
  BY StepBase, FaultKeepsFetched
<1> USE Bounds
<1>t. /\ \A s \in Stations :
            /\ mem[s] = None \/ (mem[s] \in Int /\ mem[s] >= -back)
            /\ file[s] = None \/ (file[s] \in Int /\ file[s] >= -back)
      /\ back \in Nat /\ calm \in Nat
  BY Ages
<1>1. CASE UNCHANGED <<mem, file, calm, back>>
  BY <1>1 DEF SavedOnceFetched
<1>2. CASE Answer
  <2>1. /\ names[pos] \in Stations /\ SetConditions(names[pos]) /\ TypeOK
        /\ back' = back
    BY <1>2 DEF Answer, BaseInv, TypeOK
  <2> DEFINE s == names[pos]
  <2>2. CASE UNCHANGED <<mem, file, calm>>
    BY <1>1, <2>1, <2>2
  <2>3. CASE /\ calm' = calm /\ file' = mem' /\ mem'[s] = 0
             /\ \A t \in Stations : mem'[t] # None => mem'[t] <= KeepLimit
    <3> SUFFICES ASSUME NEW u \in Stations, mem'[u] # None,
                        mem'[u] < OldAge, ~(calm <= mem'[u] + back)
                 PROVE  /\ mem'[u] >= 0 /\ file'[u] = mem'[u]
                        /\ \A t \in Stations : file'[t] # None =>
                              file'[t] <= KeepLimit + mem'[u]
      BY <2>1, <2>3 DEF SavedOnceFetched
    <3>1. mem'[u] >= 0
      <4>1. CASE u = s
        BY <2>3, <4>1
      <4>2. CASE u # s
        <5>1. mem'[u] = mem[u]
          BY <2>1, <4>2, SetConditionsEffect
        <5>. QED
          BY <5>1 DEF SavedOnceFetched
      <4>. QED
        BY <4>1, <4>2
    <3>2. \A t \in Stations : mem'[t] = None \/ mem'[t] \in Int
      BY DEF BaseInv, TypeOK, Readings
    <3>. QED
      BY <2>3, <3>1, <3>2
  <2>. QED
    BY <2>1, <2>2, <2>3, SetConditionsSaves
<1>3. CASE Tick
  <2>1. /\ \A s \in Stations :
              /\ mem'[s] = IF mem[s] # None /\ mem[s] < OldAge
                           THEN mem[s] + 1 ELSE mem[s]
              /\ file'[s] = IF file[s] # None /\ file[s] < OldAge
                            THEN file[s] + 1 ELSE file[s]
        /\ calm' \in Nat /\ calm' <= calm + 1 /\ back' = back
    BY <1>3, TickEffect
  <2> SUFFICES ASSUME NEW u \in Stations, mem'[u] # None,
                      mem'[u] < OldAge, ~(calm' <= mem'[u] + back)
               PROVE  /\ mem'[u] >= 0 /\ file'[u] = mem'[u]
                      /\ \A t \in Stations : file'[t] # None =>
                            file'[t] <= KeepLimit + mem'[u]
    BY <2>1 DEF SavedOnceFetched
  <2>2. mem[u] \in Int /\ mem[u] < OldAge /\ mem'[u] = mem[u] + 1
    BY <1>t, <2>1
  <2>3. ~(calm <= mem[u] + back)
    BY <1>t, <2>1, <2>2
  <2>4. /\ mem[u] >= 0 /\ file[u] = mem[u]
        /\ \A t \in Stations : file[t] # None =>
              file[t] <= KeepLimit + mem[u]
    BY <2>2, <2>3 DEF SavedOnceFetched
  <2>5. file'[u] = mem'[u]
    BY <2>1, <2>2, <2>4
  <2>6. ASSUME NEW t \in Stations, file'[t] # None
        PROVE  file'[t] <= KeepLimit + mem'[u]
    <3>1. file[t] \in Int /\ file'[t] <= file[t] + 1
      BY <1>t, <2>1, <2>6
    <3>2. file[t] <= KeepLimit + mem[u] /\ file'[t] \in Int
      BY <1>t, <2>1, <2>4, <3>1
    <3>. QED
      BY <2>2, <3>1, <3>2
  <2>. QED
    BY <2>2, <2>4, <2>5, <2>6
<1>. QED
  BY <1>1, <1>2, <1>3
     DEF Next, vars, BeginUpdate, SkipUpdate, NoAnswer, EndUpdate, WaitOver,
         ClockSetBack, CrashRestart, Fault, NoFault

(* A cycle that nobody will answer begins with a fault. *)
LEMMA StepSilence ==
    BaseInv /\ SilenceIsFault /\ [Next]_vars => SilenceIsFault'
<1> SUFFICES ASSUME BaseInv, SilenceIsFault, [Next]_vars
             PROVE  SilenceIsFault'
  OBVIOUS
<1> USE Bounds DEF SilenceIsFault
<1>t. slack \in 0..MaxDelay /\ calm \in Nat
  BY Ages
<1>1. CASE BeginUpdate
  BY <1>1, <1>t DEF BeginUpdate, Fault
<1>2. CASE Answer
  BY <1>2 DEF Answer
<1>3. CASE Tick
  <2>1. calm' \in Nat /\ calm' <= calm + 1 /\ UNCHANGED <<pc, up>>
    BY <1>3, TickEffect
  <2>2. pc = "ask" => slack' = slack + 1
    BY <1>3 DEF Tick
  <2>. QED
    BY <1>t, <2>1, <2>2
<1>4. CASE calm' = 0 /\ UNCHANGED slack
  BY <1>4, <1>t
<1>5. CASE pc' = "wait" \/ pc' = "begin"
  BY <1>5
<1>6. CASE UNCHANGED <<pc, up, calm, slack>>
  BY <1>6
<1>. QED
  BY <1>1, <1>2, <1>3, <1>4, <1>5, <1>6
     DEF Next, vars, SkipUpdate, NoAnswer, EndUpdate, WaitOver, ClockSetBack,
         CrashRestart, Fault, NoFault

(* The time since the last save has a bound that WaitOver and the limits   *)
(* give.                                                                   *)
LEMMA SaveAgeBound == BaseInv => SaveAge \in Nat /\ SaveAge <= HealBound
<1> SUFFICES ASSUME BaseInv PROVE SaveAge \in Nat /\ SaveAge <= HealBound
  OBVIOUS
<1>1. slack \in 0..MaxDelay /\ left \in 0..Period
  BY Ages
<1>. QED
  BY <1>1, Bounds DEF SaveAge, HealBound

(* At a fault nothing is to be shown. *)
LEMMA FaultIsInTime == BaseInv /\ calm = 0 => SavedInTime
<1> SUFFICES ASSUME BaseInv, calm = 0 PROVE SavedInTime
  OBVIOUS
<1>1. SaveAge \in Nat /\ back \in Nat
  BY SaveAgeBound, Ages
<1>. QED
  BY <1>1 DEF SavedInTime

(* The same after a step. *)
LEMMA FaultIsInTimeNext == (BaseInv /\ calm = 0 => SavedInTime)'
BY FaultIsInTime, PTL

(* A file that was saved within a time was saved within a longer one. *)
LEMMA SavedWithinMore ==
    ASSUME BaseInv, NEW age \in Nat, NEW more \in Nat, age <= more,
           SavedWithin(age)
    PROVE  SavedWithin(more)
<1>1. \A s \in Stations : file[s] = None \/ file[s] \in Int
  BY Ages
<1>. QED
  BY <1>1, Bounds DEF SavedWithin

(* What is counted as the time since the last save is at least that: it is *)
(* kept by each step that is not a save, a tick, or a fault.               *)
LEMMA StepSaved ==
    BaseInv /\ TakenInv /\ RecentInv /\ [Next]_vars => SavedInTime'
<1> SUFFICES ASSUME BaseInv, BaseInv', TakenInv, RecentInv, [Next]_vars,
                    calm' # 0
             PROVE  SavedInTime'
  BY StepBase, FaultIsInTimeNext
<1> USE Bounds
<1>t. /\ \A s \in Stations :
            /\ mem[s] = None \/ (mem[s] \in Int /\ mem[s] >= -back)
            /\ file[s] = None \/ (file[s] \in Int /\ file[s] >= -back)
      /\ back \in Nat /\ calm \in Nat /\ slack \in 0..MaxDelay
      /\ left \in 0..Period
  BY Ages
<1>a. SaveAge \in Nat /\ SaveAge <= HealBound
  BY SaveAgeBound
<1>1. CASE UNCHANGED <<file, calm, back>> /\ SaveAge' = SaveAge
  BY <1>1 DEF RecentInv, SavedInTime, SavedWithin
<1>2. CASE BeginUpdate
  <2>1. UNCHANGED <<file, calm, back>>
    BY <1>2 DEF BeginUpdate, Fault, NoFault
  <2>2. SaveAge' = SaveAge
    BY <1>2 DEF BeginUpdate, SaveAge, BaseInv, NobodyAsked
  <2>. QED
    BY <1>1, <2>1, <2>2
<1>3. CASE Answer
  <2>1. /\ pos \in up /\ pc = "ask" /\ names[pos] \in Stations
        /\ SetConditions(names[pos]) /\ TypeOK /\ back' = back
        /\ taken' = taken \cup {pos} /\ UNCHANGED <<pc, slack>>
    BY <1>3 DEF Answer, BaseInv, TypeOK
  <2>2. SaveAge' = slack
    BY <2>1 DEF SaveAge
  <2>3. CASE mem[names[pos]] = 0 /\ UNCHANGED <<mem, file, calm>>
    <3>1. \/ calm <= back
          \/ /\ file[names[pos]] = 0
             /\ \A t \in Stations : file[t] # None => file[t] <= KeepLimit
      <4>1. 0 # None /\ 0 < OldAge
        OBVIOUS
      <4>. QED
        BY <1>t, <2>1, <2>3, <4>1 DEF RecentInv, SavedOnceFetched
    <3>2. CASE calm <= back
      BY <1>t, <2>1, <2>2, <2>3, <3>2 DEF SavedInTime
    <3>3. CASE /\ file[names[pos]] = 0
               /\ \A t \in Stations : file[t] # None => file[t] <= KeepLimit
      <4>1. SavedWithin(0)
        BY <2>1, <3>3 DEF SavedWithin
      <4>2. SavedWithin(slack)
        BY <1>t, <4>1, SavedWithinMore
      <4>. QED
        BY <2>2, <2>3, <4>2 DEF SavedInTime, SavedWithin
    <3>. QED
      BY <3>1, <3>2, <3>3
  <2>4. CASE /\ file' = mem' /\ mem'[names[pos]] = 0
             /\ \A t \in Stations : mem'[t] # None => mem'[t] <= KeepLimit
    <3>1. \A t \in Stations : file'[t] = None \/ file'[t] \in Int
      BY DEF BaseInv, TypeOK, Readings
    <3>2. file'[names[pos]] # None /\ file'[names[pos]] \in 0..slack
      BY <1>t, <2>4
    <3>3. \A t \in Stations :
             file'[t] # None => file'[t] <= KeepLimit + slack
      BY <1>t, <2>4, <3>1
    <3>. QED
      BY <2>1, <2>2, <3>2, <3>3 DEF SavedInTime, SavedWithin
  <2>. QED
    BY <2>1, <2>3, <2>4, SetConditionsSaves
<1>4. CASE EndUpdate
  <2>1. UNCHANGED <<file, calm, back>> /\ SaveAge' = MaxDelay /\ pc = "ask"
    BY <1>4 DEF EndUpdate, NoFault, SaveAge
  <2>2. CASE taken # {}
    <3>1. SaveAge = slack
      BY <2>1, <2>2 DEF SaveAge
    <3>2. CASE calm <= slack + back
      BY <1>t, <2>1, <3>2 DEF SavedInTime
    <3>3. CASE SavedWithin(slack)
      <4>1. SavedWithin(MaxDelay)
        BY <1>t, <3>3, SavedWithinMore
      <4>. QED
        BY <2>1, <4>1 DEF SavedInTime, SavedWithin
    <3>. QED
      BY <3>1, <3>2, <3>3 DEF RecentInv, SavedInTime
  <2>3. CASE taken = {}
    <3>1. pos > Len(names)
      BY <1>4, <2>3 DEF EndUpdate, Enough
    <3>2. up = {}
      BY <2>1, <2>3, <3>1 DEF TakenInv, BaseInv, TypeOK
    <3>3. calm <= slack
      BY <2>1, <3>2 DEF RecentInv, SilenceIsFault
    <3>. QED
      BY <1>t, <2>1, <3>3 DEF SavedInTime
  <2>. QED
    BY <2>2, <2>3
<1>5. CASE WaitOver
  <2>1. UNCHANGED <<file, calm, back>>
    BY <1>5 DEF WaitOver, NoFault
  <2>2. SaveAge' = SaveAge
    BY <1>5 DEF WaitOver, SaveAge
  <2>. QED
    BY <1>1, <2>1, <2>2
<1>6. CASE Tick
  <2>1. /\ \A s \in Stations :
              file'[s] = IF file[s] # None /\ file[s] < OldAge
                         THEN file[s] + 1 ELSE file[s]
        /\ calm' \in Nat /\ calm' <= calm + 1 /\ UNCHANGED <<pc, taken, back>>
    BY <1>6, TickEffect
  <2>2. SaveAge' = SaveAge + 1
    BY <1>6, <1>t, <2>1 DEF Tick, SaveAge
  <2>3. CASE calm <= SaveAge + back
    BY <1>a, <1>t, <2>1, <2>2, <2>3 DEF SavedInTime
  <2>4. CASE SavedWithin(SaveAge)
    <3>1. PICK s \in Stations : file[s] # None /\ file[s] \in 0..SaveAge
      BY <2>4 DEF SavedWithin
    <3>2. file'[s] # None /\ file'[s] \in 0..(SaveAge + 1)
      BY <1>a, <2>1, <3>1
    <3>3. ASSUME NEW t \in Stations, file'[t] # None
          PROVE  file'[t] <= KeepLimit + (SaveAge + 1)
      <4>1. /\ file[t] # None /\ file[t] \in Int
            /\ file'[t] \in Int /\ file'[t] <= file[t] + 1
        BY <1>t, <2>1, <3>3
      <4>2. file[t] <= KeepLimit + SaveAge
        BY <2>4, <4>1 DEF SavedWithin
      <4>. QED
        BY <1>a, <4>1, <4>2
    <3>. QED
      BY <2>2, <3>2, <3>3 DEF SavedInTime, SavedWithin
  <2>. QED
    BY <2>3, <2>4 DEF RecentInv, SavedInTime
<1>7. CASE NoAnswer \/ UNCHANGED vars
  BY <1>1, <1>7 DEF NoAnswer, NoFault, vars, SaveAge
<1>. QED
  BY <1>2, <1>3, <1>4, <1>5, <1>6, <1>7
     DEF Next, SkipUpdate, ClockSetBack, CrashRestart, Fault

(* A client gets a reading of the last cycle, and none that is more than a *)
(* cycle over the limit, once nothing has failed for as long as two cycles *)
(* can be apart, and as long again as the clock was set back by.           *)
THEOREM RecentAgain == Spec => []ReadingsAreRecent
<1>1. Init => TakenInv /\ RecentInv
  BY Bounds DEF Init, TakenInv, RecentInv, SavedInTime, SaveAge,
                SavedOnceFetched, SilenceIsFault
<1>2. BaseInv /\ TakenInv /\ RecentInv /\ [Next]_vars
        => TakenInv' /\ RecentInv'
  BY StepTaken, StepSaved, StepFetched, StepSilence DEF RecentInv
<1>3. BaseInv /\ RecentInv => ReadingsAreRecent
  <2> SUFFICES ASSUME BaseInv, RecentInv, calm > HealBound + back
               PROVE  SavedWithin(HealBound)
    BY DEF ReadingsAreRecent, SavedWithin
  <2>1. SaveAge \in Nat /\ SaveAge <= HealBound
    BY SaveAgeBound
  <2>2. calm \in Nat /\ back \in Nat
    BY Ages
  <2>3. SavedWithin(SaveAge)
    BY <2>1, <2>2, Bounds DEF RecentInv, SavedInTime
  <2>. QED
    BY <2>1, <2>3, Bounds, SavedWithinMore
<1>. QED
  BY InitBase, StepBase, <1>1, <1>2, <1>3, PTL DEF Spec

=============================================================================
