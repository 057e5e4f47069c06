----------------------------- MODULE CacheFile -----------------------------
(***************************************************************************)
(* One cache file of mcweatherd, with the thread that writes it and the    *)
(* threads that read it.                                                   *)
(*                                                                         *)
(* The WeatherFetcher thread owns the only Cache object that is written    *)
(* to.  Every request a Responder thread serves builds a Cache object of   *)
(* its own, whose constructor loads the file; nothing but the file is      *)
(* shared between the two.  SaveCacheFile opens (and thereby truncates)    *)
(* the file before it takes the mutex and lets the stream's destructor     *)
(* flush after it has released it, and LoadCacheFile takes no mutex at     *)
(* all, so a load may meet any prefix of the new contents.                 *)
(*                                                                         *)
(* Contents are abstracted to a sequence of Blocks stream buffers, each    *)
(* standing for its share of one fetched version: the properties only ask  *)
(* which version a block belongs to.                                       *)
(***************************************************************************)
EXTENDS Naturals, Sequences

CONSTANTS
    Readers,      \* Responder threads, each serving one request at a time
    Blocks,       \* stream buffers one version of the contents takes
    MaxVersion,   \* bound on the values the fetcher obtains
    MaxCrashes    \* bound on crashes of the process

ASSUME BlocksAssumption == Blocks \in Nat \ {0}

ASSUME BoundsAssumption == MaxVersion \in Nat /\ MaxCrashes \in Nat

VARIABLES
    version,      \* number of values fetched so far; the newest is version
    mem,          \* the fetcher's in-memory value, as blocks
    exists,       \* the file exists
    disk,         \* the blocks that reached the file
    wpc,          \* where the fetcher is in Set... and SaveCacheFile
    rc,           \* what the last SaveCacheFile returned
    lost,         \* history: the flush at close failed, unseen by the code
    lastWhole,    \* history: the newest version that was whole on disk
    crashes,      \* crashes so far
    rpc,          \* where each reader is in its request
    buf,          \* what each reader's Cache object has loaded
    due,          \* history: lastWhole when the reader's load began
    intact        \* history: the file was whole when the load began and has
                  \* not been truncated since

writerVars == <<version, mem, exists, disk, wpc, rc, lost, lastWhole, crashes>>
readerVars == <<rpc, buf, due, intact>>
vars == <<version, mem, exists, disk, wpc, rc, lost, lastWhole, crashes, rpc,
          buf, due, intact>>

(* All the blocks of version v. *)
Whole(v) == [i \in 1..Blocks |-> v]

IsWhole(s) == Len(s) = Blocks

Mixed(s) == \E i, j \in 1..Len(s) : s[i] # s[j]

(* What LastWriteTime(p) > 0 makes of the loaded value: Get... leaves the  *)
(* caller's empty object alone unless the file is there.                   *)
Response(r) == IF exists THEN buf[r] ELSE <<>>

WriterTypeOK ==
    /\ version \in 0..MaxVersion
    /\ mem \in Seq(1..MaxVersion) /\ Len(mem) <= Blocks
    /\ exists \in BOOLEAN
    /\ disk \in Seq(1..MaxVersion) /\ Len(disk) <= Blocks
    /\ wpc \in {"idle", "save", "opened", "writing", "closing"}
    /\ rc \in BOOLEAN
    /\ lost \in BOOLEAN
    /\ lastWhole \in 0..MaxVersion
    /\ crashes \in 0..MaxCrashes

ReadersTypeOK ==
    /\ rpc \in [Readers -> {"idle", "loading", "loaded"}]
    /\ buf \in [Readers -> Seq(1..MaxVersion)]
    /\ \A r \in Readers : Len(buf[r]) <= Blocks
    /\ due \in [Readers -> 0..MaxVersion]
    /\ intact \in [Readers -> BOOLEAN]

TypeOK == WriterTypeOK /\ ReadersTypeOK

Init ==
    /\ version = 0
    /\ mem = <<>>
    /\ exists = FALSE
    /\ disk = <<>>
    /\ wpc = "idle"
    /\ rc = FALSE
    /\ lost = FALSE
    /\ lastWhole = 0
    /\ crashes = 0
    /\ rpc = [r \in Readers |-> "idle"]
    /\ buf = [r \in Readers |-> <<>>]
    /\ due = [r \in Readers |-> 0]
    /\ intact = [r \in Readers |-> FALSE]

----------------------------------------------------------------------------
(* Faulty variants: each is an action below with one plausible bug in it.  *)
(* No action uses them; they are there to be put in an action's place, to  *)
(* see that a property notices.                                            *)

(* The stream is opened to append. *)
OpenTruncates_Appends ==
    /\ wpc = "save"
    /\ exists' = TRUE
    /\ wpc' = "opened"
    /\ UNCHANGED <<version, mem, disk, rc, lost, lastWhole, crashes,
                   readerVars>>

(* A failed Write is reported as a success. *)
WriteFails_Unnoticed ==
    /\ wpc = "writing"
    /\ Len(disk) < Blocks - 1
    /\ rc' = TRUE
    /\ wpc' = "closing"
    /\ UNCHANGED <<version, mem, exists, disk, lost, lastWhole, crashes,
                   readerVars>>

(* The fetcher's Cache reads the file behind what memory already holds. *)
CrashRestart_ReadAppends ==
    /\ crashes < MaxCrashes
    /\ crashes' = crashes + 1
    /\ mem' = mem \o disk
    /\ wpc' = "idle"
    /\ UNCHANGED <<version, exists, disk, rc, lost, lastWhole, readerVars>>

(* A responder's Cache object is kept from one request to the next. *)
StartLoad_KeepsObject(r) ==
    /\ rpc[r] = "idle"
    /\ rpc' = [rpc EXCEPT ![r] = "loading"]
    /\ due' = [due EXCEPT ![r] = lastWhole]
    /\ UNCHANGED <<writerVars, buf, intact>>

(* The load goes on behind the back of Get..., which does not wait. *)
ReadBlock_Late(r) ==
    /\ rpc[r] # "idle"
    /\ Len(buf[r]) < Len(disk)
    /\ buf' = [buf EXCEPT ![r] = Append(@, disk[Len(@) + 1])]
    /\ UNCHANGED <<writerVars, rpc, due, intact>>

(* Read is content with one buffer less. *)
LoadSucceeds_Short(r) ==
    /\ rpc[r] = "loading"
    /\ Len(buf[r]) >= Blocks - 1
    /\ rpc' = [rpc EXCEPT ![r] = "loaded"]
    /\ UNCHANGED <<writerVars, buf, due, intact>>

(* The end of the file is not taken for a failure: Read waits for more. *)
LoadFails_WaitsAtEnd(r) ==
    /\ rpc[r] = "loading"
    /\ Mixed(buf[r])
    /\ rpc' = [rpc EXCEPT ![r] = "loaded"]
    /\ UNCHANGED <<writerVars, buf, due, intact>>

----------------------------------------------------------------------------
(* The fetcher: Set..., then SaveCacheFile. *)

(* SetPeriodForecasts and its siblings: the in-memory value changes under  *)
(* the mutex, and the save follows whatever happens to the file.           *)
SetValue ==
    /\ wpc = "idle"
    /\ version < MaxVersion
    /\ version' = version + 1
    /\ mem' = Whole(version + 1)
    /\ wpc' = "save"
    /\ rc' = FALSE
    /\ lost' = FALSE
    /\ UNCHANGED <<exists, disk, lastWhole, crashes, readerVars>>

(* The directory cannot be made, the path is not a regular file or the     *)
(* stream does not open: nothing is written and the file keeps what it had.*)
OpenFails ==
    /\ wpc = "save"
    /\ wpc' = "idle"
    /\ UNCHANGED <<version, mem, exists, disk, rc, lost, lastWhole, crashes,
                   readerVars>>

(* The stream opens: the file exists from now on, and it is empty.  The    *)
(* mutex is not held yet.                                                  *)
OpenTruncates ==
    /\ wpc = "save"
    /\ exists' = TRUE
    /\ disk' = <<>>
    /\ intact' = [r \in Readers |-> FALSE]
    /\ wpc' = "opened"
    /\ UNCHANGED <<version, mem, rc, lost, lastWhole, crashes, rpc, buf, due>>

(* lock_guard: from here to the end of Write the mutex is the fetcher's.   *)
BeginWrite ==
    /\ wpc = "opened"
    /\ wpc' = "writing"
    /\ UNCHANGED <<version, mem, exists, disk, rc, lost, lastWhole, crashes,
                   readerVars>>

(* A full stream buffer goes to the file while Write is still serialising. *)
SpillBlock ==
    /\ wpc = "writing"
    /\ Len(disk) < Blocks - 1
    /\ disk' = Append(disk, mem[Len(disk) + 1])
    /\ UNCHANGED <<version, mem, exists, wpc, rc, lost, lastWhole, crashes,
                   readerVars>>

(* Spilling fails, so Write fails: rc stays false and the mutex is freed.  *)
WriteFails ==
    /\ wpc = "writing"
    /\ Len(disk) < Blocks - 1
    /\ wpc' = "closing"
    /\ UNCHANGED <<version, mem, exists, disk, rc, lost, lastWhole, crashes,
                   readerVars>>

(* Write succeeds with the last buffer still unflushed: rc is true and the *)
(* mutex is free before the file is whole.                                 *)
WriteDone ==
    /\ wpc = "writing"
    /\ Len(disk) = Blocks - 1
    /\ rc' = TRUE
    /\ wpc' = "closing"
    /\ UNCHANGED <<version, mem, exists, disk, lost, lastWhole, crashes,
                   readerVars>>

(* The stream's destructor flushes the buffer it still holds. *)
CloseFlushes ==
    /\ wpc = "closing"
    /\ disk' = Append(disk, mem[Len(disk) + 1])
    /\ lastWhole' = IF IsWhole(disk') THEN version ELSE lastWhole
    /\ wpc' = "idle"
    /\ UNCHANGED <<version, mem, exists, rc, lost, crashes, readerVars>>

(* The flush fails (a full disk): nobody looks, and rc is what Write said. *)
CloseFails ==
    /\ wpc = "closing"
    /\ lost' = TRUE
    /\ wpc' = "idle"
    /\ UNCHANGED <<version, mem, exists, disk, rc, lastWhole, crashes,
                   readerVars>>

(* The process dies at any moment and is started again: what reached the   *)
(* file stays, the rest is gone, and the constructor of the new fetcher's  *)
(* Cache loads the file.  A torn one leaves nothing or the part that was   *)
(* read, according to the type's Read.                                     *)
CrashRestart ==
    /\ crashes < MaxCrashes
    /\ crashes' = crashes + 1
    /\ mem' \in IF IsWhole(disk) THEN {disk} ELSE {<<>>, disk}
    /\ wpc' = "idle"
    /\ rc' = FALSE
    /\ lost' = FALSE
    /\ rpc' = [r \in Readers |-> "idle"]
    /\ buf' = [r \in Readers |-> <<>>]
    /\ due' = [r \in Readers |-> 0]
    /\ intact' = [r \in Readers |-> FALSE]
    /\ UNCHANGED <<version, exists, disk, lastWhole>>

----------------------------------------------------------------------------
(* A responder: a new Cache object for every request, then Get... and Send. *)

(* The constructor's LoadCacheFile begins with an empty object. *)
StartLoad(r) ==
    /\ rpc[r] = "idle"
    /\ rpc' = [rpc EXCEPT ![r] = "loading"]
    /\ buf' = [buf EXCEPT ![r] = <<>>]
    /\ due' = [due EXCEPT ![r] = lastWhole]
    /\ intact' = [intact EXCEPT ![r] = IsWhole(disk)]
    /\ UNCHANGED writerVars

(* Read takes what the file holds at the stream's position now. *)
ReadBlock(r) ==
    /\ rpc[r] = "loading"
    /\ Len(buf[r]) < Len(disk)
    /\ buf' = [buf EXCEPT ![r] = Append(@, disk[Len(@) + 1])]
    /\ UNCHANGED <<writerVars, rpc, due, intact>>

(* Read found as much as it expects: nothing tells it when the blocks are  *)
(* not of one version, as long as the parts fit together.                  *)
LoadSucceeds(r) ==
    /\ rpc[r] = "loading"
    /\ IsWhole(buf[r])
    /\ rpc' = [rpc EXCEPT ![r] = "loaded"]
    /\ UNCHANGED <<writerVars, buf, due, intact>>

(* The file is missing, ends too early, or its parts do not fit together.  *)
(* The object keeps nothing or what it had read; the constructor ignores   *)
(* the failure either way.                                                 *)
LoadFails(r) ==
    /\ rpc[r] = "loading"
    /\ \/ Len(buf[r]) < Blocks /\ Len(disk) <= Len(buf[r])
       \/ Mixed(buf[r])
    /\ rpc' = [rpc EXCEPT ![r] = "loaded"]
    /\ \E kept \in {<<>>, buf[r]} : buf' = [buf EXCEPT ![r] = kept]
    /\ UNCHANGED <<writerVars, due, intact>>

(* Get... waits for the mutex the writer may hold; Response(r) is sent. *)
Reply(r) ==
    /\ rpc[r] = "loaded"
    /\ wpc # "writing"
    /\ rpc' = [rpc EXCEPT ![r] = "idle"]
    /\ UNCHANGED <<writerVars, buf, due, intact>>

----------------------------------------------------------------------------

WriterStep ==
    \/ OpenFails
    \/ OpenTruncates
    \/ BeginWrite
    \/ SpillBlock
    \/ WriteFails
    \/ WriteDone
    \/ CloseFlushes
    \/ CloseFails

ReaderStep(r) ==
    \/ ReadBlock(r)
    \/ LoadSucceeds(r)
    \/ LoadFails(r)
    \/ Reply(r)

Next ==
    \/ SetValue
    \/ WriterStep
    \/ CrashRestart
    \/ \E r \in Readers : StartLoad(r) \/ ReaderStep(r)

(* A save that has begun goes on, and so does a request: both are straight-*)
(* line code of a running thread.  Fetching, new requests and crashes are  *)
(* not promised.                                                           *)
Fairness ==
    /\ WF_vars(WriterStep)
    /\ \A r \in Readers : WF_vars(ReaderStep(r))

Spec == Init /\ [][Next]_vars

FairSpec == Spec /\ Fairness

----------------------------------------------------------------------------
(* Properties. *)

(* The file never holds blocks of two versions: SaveCacheFile truncates    *)
(* before it writes, and the fetcher is the only writer, so a restart      *)
(* finds one version or a prefix of it, also after failed saves.           *)
FileIsOneVersion == ~Mixed(disk)

(* A load never steps back: what it returns is nowhere older than the      *)
(* newest version that was whole on disk when it began, and no block in it *)
(* is older than the one before, however saves and crashes interleave with *)
(* LoadCacheFile's unlocked reads.                                         *)
LoadNeverStepsBack ==
    \A r \in Readers : rpc[r] = "loaded" =>
        /\ \A i \in 1..Len(buf[r]) : buf[r][i] >= due[r]
        /\ \A i, j \in 1..Len(buf[r]) : i <= j => buf[r][i] <= buf[r][j]

(* A request whose load began on a whole file that was not truncated       *)
(* meanwhile is answered with exactly that version: only an overlapping    *)
(* save (or a torn file) can spoil what Get... hands to Send.              *)
IntactLoadIsExact ==
    \A r \in Readers :
        rpc[r] = "loaded" /\ intact[r] => Response(r) = Whole(due[r])

(* When SaveCacheFile has returned true and the unchecked flush of its     *)
(* stream's destructor did not fail, the file is the fetcher's memory,     *)
(* whole.                                                                  *)
SavedIsWhole ==
    wpc = "idle" /\ rc /\ ~lost => exists /\ disk = mem /\ IsWhole(disk)

(* Every request is answered in the end: neither a file that is truncated  *)
(* under the reader nor the mutex held during Write stops a responder.     *)
ReplyArrives ==
    \A r \in Readers : rpc[r] = "loading" ~> rpc[r] = "idle"

(* The loads under way, and what the requests were given by the others. *)
Loading == {r \in Readers : rpc[r] = "loading"}

Given == [r \in Readers |-> IF rpc[r] = "loaded" THEN buf[r] ELSE <<>>]

(* The register that the file is to a request. *)
Register ==
    INSTANCE CacheRegister
    WITH newest <- version, settled <- lastWhole, quiet <- IsWhole(disk),
         loading <- Loading, since <- due, calm <- intact, answer <- Given

(* Truncating, spilling and flushing outside the mutex, failed saves,      *)
(* crashes and unlocked loads together are that register to the requests:  *)
(* each is answered within the range of values that were saved during its  *)
(* load, and with exactly one whole value when no save came in between.    *)
KeepsRegister == Register!Spec

(* What the protocol's documentation says of a request: the answer holds   *)
(* the forecasts.  Here only asked of a load that began after some version *)
(* had been whole on disk.                                                 *)
RepliesAreComplete ==
    \A r \in Readers :
        rpc[r] = "loaded" /\ due[r] > 0 => IsWhole(Response(r))

=============================================================================
