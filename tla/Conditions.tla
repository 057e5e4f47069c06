---------------------------- MODULE Conditions ----------------------------
(***************************************************************************)
(* The current conditions: which stations UpdateCurrentConditions asks in  *)
(* a cycle, what SetConditions and ClearOldConditions make of the answers, *)
(* and what the file that the clients' requests read holds.                *)
(*                                                                         *)
(* A reading is its age by the wall clock: the timestamp it gets is the    *)
(* time at which it was fetched, so two readings of a station are equal    *)
(* only within the same second.  Ages are counted in ticks up to OldAge,   *)
(* which stands for any greater age too, and are below zero after the      *)
(* clock was set back.  The file is what a load of it yields: all of the   *)
(* last save, or the part of it that a torn file still gives.              *)
(***************************************************************************)
EXTENDS Integers, Sequences

CONSTANTS
    Stations,      \* the weather stations there are
    Configured,    \* "stations" of the configuration, in its order
    Nearby,        \* the observation stations of the point, in their order
    None,          \* no reading
    Period,        \* the 900 seconds of wait_for
    KeepLimit,     \* the 3600 seconds of ClearOldConditions
    MaxDelay,      \* bound on the ticks one cycle's requests take
    MaxBack,       \* bound on the ticks the clock is set back by, in all
    MaxFaults      \* bound on failed saves, crashes, cycles without answer and
                   \* changes of the clock

ASSUME StationsAssumption ==
    /\ Configured \in Seq(Stations) /\ Nearby \in Seq(Stations)
    /\ None \notin Int

ASSUME LimitsAssumption ==
    /\ Period \in Nat \ {0} /\ KeepLimit \in Nat
    /\ MaxDelay \in Nat /\ MaxBack \in Nat /\ MaxFaults \in Nat

(* A cycle's requests do not take an hour. *)
ASSUME DelayAssumption == MaxDelay <= KeepLimit

(* The longest time between a save in one cycle and one in the next. *)
HealBound == Period + 2 * MaxDelay

(* Too old for every limit, after the clock was set back too. *)
OldAge == KeepLimit + HealBound + MaxBack + 1

CalmBound == HealBound + MaxBack + 1

VARIABLES
    pc,           \* before the update, asking, or waiting
    names,        \* the stations of this cycle
    up,           \* the positions in it whose station will answer
    pos,          \* the position of the station to ask next
    taken,        \* the positions that have answered
    rc,           \* what the update would return now
    mem,          \* _currentConditions of the fetcher's Cache
    file,         \* what a load of the file yields
    lost,         \* history: the save that returned true was not flushed
    unchanged,    \* history: the last reading equalled the one in memory
    left,         \* ticks until wait_for times out
    slack,        \* ticks this cycle's requests have taken
    back,         \* ticks the clock was set back by so far
    faults,       \* faults so far
    calm          \* history: ticks since the last of them

vars == <<pc, names, up, pos, taken, rc, mem, file, lost, unchanged, left,
          slack, back, faults, calm>>

Readings == [Stations -> (-MaxBack)..OldAge \cup {None}]

TypeOK ==
    /\ pc \in {"begin", "ask", "wait"}
    /\ names \in Seq(Stations)
    /\ up \subseteq DOMAIN names
    /\ pos \in 1..(Len(names) + 1)
    /\ taken \subseteq up
    /\ rc \in BOOLEAN
    /\ mem \in Readings
    /\ file \in Readings
    /\ lost \in BOOLEAN
    /\ unchanged \in BOOLEAN
    /\ left \in 0..Period
    /\ slack \in 0..MaxDelay
    /\ back \in 0..MaxBack
    /\ faults \in 0..MaxFaults
    /\ calm \in 0..CalmBound
    /\ \A i, j \in up : i < j /\ names[i] = names[j] => j <= Len(Configured)

Init ==
    /\ pc = "begin"
    /\ names = <<>>
    /\ up = {}
    /\ pos = 1
    /\ taken = {}
    /\ rc = FALSE
    /\ mem = [s \in Stations |-> None]
    /\ file = [s \in Stations |-> None]
    /\ lost = FALSE
    /\ unchanged = FALSE
    /\ left = 0
    /\ slack = 0
    /\ back = 0
    /\ faults = 0
    /\ calm = 0

----------------------------------------------------------------------------

Fault ==
    /\ faults < MaxFaults
    /\ faults' = faults + 1
    /\ calm' = 0

NoFault == UNCHANGED <<faults, calm>>

(* The observation stations are added without looking for them. *)
Asked_Again(list) == DOMAIN list

(* The positions that stationNames has: the configured stations, and the   *)
(* observation stations that are not before them in the list.              *)
Asked(list) ==
    {i \in DOMAIN list :
        i <= Len(Configured) \/ \A j \in 1..(i - 1) : list[j] # list[i]}

(* Nothing is ever too old. *)
WithoutOld_KeepsAll(readings) == readings

(* ClearOldConditions *)
WithoutOld(readings) ==
    [s \in Stations |->
        IF readings[s] # None /\ readings[s] > KeepLimit
        THEN None ELSE readings[s]]

(* What can be read of a file that was torn in the middle. *)
Parts(readings) ==
    {[s \in Stations |-> IF s \in kept THEN readings[s] ELSE None] :
        kept \in SUBSET Stations}

Saved ==
    /\ file' = mem'
    /\ rc' = TRUE
    /\ lost' = FALSE
    /\ NoFault

(* A file that does not open is passed over. *)
NotOpened_Unnoticed ==
    /\ Fault
    /\ rc' = TRUE
    /\ lost' = FALSE
    /\ UNCHANGED file

NotOpened ==
    /\ Fault
    /\ rc' = FALSE
    /\ lost' = FALSE
    /\ UNCHANGED file

(* Write fails, which is noticed, or the flush at close, which is not. *)
SavedTorn ==
    /\ Fault
    /\ file' \in Parts(mem')
    /\ rc' \in BOOLEAN
    /\ lost' = rc'

(* SetConditions: a reading that equals the one in memory changes nothing  *)
(* and is not saved.                                                       *)
SetConditions(s) ==
    \/ /\ mem[s] = 0
       /\ unchanged' = TRUE
       /\ rc' = TRUE
       /\ UNCHANGED <<mem, file, lost>>
       /\ NoFault
    \/ /\ unchanged' = FALSE
       /\ mem' = WithoutOld([mem EXCEPT ![s] = 0])
       /\ Saved \/ NotOpened \/ SavedTorn

----------------------------------------------------------------------------

(* The list of stations is made; the observation stations are unknown when *)
(* their file could not be loaded.  Who will answer is settled here.       *)
BeginUpdate ==
    /\ pc = "begin"
    /\ \E stations \in {Nearby, <<>>} :
          /\ names' = Configured \o stations
          /\ up' \in SUBSET Asked(names')
          /\ IF up' = {} \/ stations # Nearby THEN Fault ELSE NoFault
    /\ pos' = 1
    /\ taken' = {}
    /\ rc' = FALSE
    /\ pc' = "ask"
    /\ UNCHANGED <<mem, file, lost, unchanged, left, slack, back>>

(* No point information or no observation stations: Run goes to its wait. *)
SkipUpdate ==
    /\ pc = "begin"
    /\ Fault
    /\ pc' = "wait"
    /\ left' = Period
    /\ UNCHANGED <<names, up, pos, taken, rc, mem, file, lost, unchanged,
                   slack, back>>

(* One station is enough. *)
Enough_One == taken # {}

(* Both loops have ended with a break. *)
Enough == \E i, j \in taken : i # j

(* Utils::GetCurrentConditions gives a reading with a temperature. *)
Answer ==
    /\ pc = "ask" /\ ~Enough /\ pos \in up
    /\ taken' = taken \cup {pos}
    /\ pos' = pos + 1
    /\ SetConditions(names[pos])
    /\ UNCHANGED <<pc, names, up, left, slack, back>>

(* No answer, or one that FromJson or the missing temperature rejects; or  *)
(* a position that is not asked.                                           *)
NoAnswer ==
    /\ pc = "ask" /\ ~Enough /\ pos \in DOMAIN names \ up
    /\ pos' = pos + 1
    /\ UNCHANGED <<pc, names, up, taken, rc, mem, file, lost, unchanged, left,
                   slack, back>>
    /\ NoFault

EndUpdate ==
    /\ pc = "ask" /\ (Enough \/ pos > Len(names))
    /\ pc' = "wait"
    /\ left' = Period
    /\ UNCHANGED <<names, up, pos, taken, rc, mem, file, lost, unchanged,
                   slack, back>>
    /\ NoFault

(* The wait times out, and the next cycle gets to its update. *)
WaitOver ==
    /\ pc = "wait" /\ left = 0
    /\ pc' = "begin"
    /\ slack' = 0
    /\ names' = <<>>
    /\ up' = {}
    /\ taken' = {}
    /\ pos' = 1
    /\ UNCHANGED <<rc, mem, file, lost, unchanged, left, back>>
    /\ NoFault

Older(readings) ==
    [s \in Stations |->
        IF readings[s] # None /\ readings[s] < OldAge THEN readings[s] + 1
        ELSE readings[s]]

Tick ==
    /\ IF pc = "wait"
       THEN left > 0 /\ left' = left - 1 /\ UNCHANGED slack
       ELSE slack < MaxDelay /\ slack' = slack + 1 /\ UNCHANGED left
    /\ mem' = Older(mem)
    /\ file' = Older(file)
    /\ calm' = IF calm < CalmBound THEN calm + 1 ELSE calm
    /\ UNCHANGED <<pc, names, up, pos, taken, rc, lost, unchanged, back,
                   faults>>

Younger(readings, ticks) ==
    [s \in Stations |->
        IF readings[s] # None THEN readings[s] - ticks ELSE None]

(* The wall clock is set back; the wait goes by another clock. *)
ClockSetBack ==
    /\ Fault
    /\ \E ticks \in 1..(MaxBack - back) :
          /\ back' = back + ticks
          /\ mem' = Younger(mem, ticks)
          /\ file' = Younger(file, ticks)
    /\ UNCHANGED <<pc, names, up, pos, taken, rc, lost, unchanged, left,
                   slack>>

(* The process dies, maybe in a save, and is started again: the new Cache  *)
(* loads the file.                                                         *)
CrashRestart ==
    /\ Fault
    /\ \/ UNCHANGED file
       \/ pc = "ask" /\ taken # {} /\ file' \in Parts(mem)
    /\ mem' = file'
    /\ pc' = "begin"
    /\ names' = <<>>
    /\ up' = {}
    /\ pos' = 1
    /\ taken' = {}
    /\ rc' = FALSE
    /\ lost' = FALSE
    /\ unchanged' = FALSE
    /\ left' = 0
    /\ slack' = 0
    /\ UNCHANGED back

Next ==
    \/ BeginUpdate
    \/ SkipUpdate
    \/ Answer
    \/ NoAnswer
    \/ EndUpdate
    \/ WaitOver
    \/ Tick
    \/ ClockSetBack
    \/ CrashRestart

Spec == Init /\ [][Next]_vars

----------------------------------------------------------------------------
(* Properties. *)

(* When UpdateCurrentConditions returns true, every reading in memory is   *)
(* in the file: the second station's result may replace the first one's,   *)
(* since each save writes all of them.  Two cases are left out: a flush    *)
(* that failed unseen, and a last reading that was not saved for being     *)
(* equal to the one in memory, which may hide a failed save of the first.  *)
TrueMeansSaved == rc /\ ~lost /\ ~unchanged => file = mem

(* A cycle takes the readings of the first two stations that answer, in    *)
(* the order of the list, and has them in memory when it ends.             *)
FirstTwoAnswers ==
    pc = "wait" =>
        /\ taken = {i \in up : ~ \E j, k \in up : j < k /\ k < i}
        /\ \A i \in taken :
              mem[names[i]] # None /\ mem[names[i]] <= Period + MaxDelay

(* When nothing has failed for more than HealBound, what a client gets has *)
(* a reading of the last cycle, and none that by the clock is more than    *)
(* one cycle older than ClearOldConditions allows, although it is only     *)
(* called by an update that changes something.  After the clock was set    *)
(* back a reading may be older than it says, by no more than that; and as  *)
(* these seconds come twice, saves may be left out in them for readings    *)
(* that are taken for those in memory.                                     *)
ReadingsAreRecent ==
    calm > HealBound + back =>
        /\ \E s \in Stations : file[s] # None /\ file[s] \in 0..HealBound
        /\ \A s \in Stations :
              file[s] # None => file[s] <= KeepLimit + HealBound

=============================================================================
