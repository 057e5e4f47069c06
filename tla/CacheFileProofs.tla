-------------------------- MODULE CacheFileProofs --------------------------
(***************************************************************************)
(* Proofs about CacheFile: its safety properties, for every set of         *)
(* readers, every size of the file and every number of versions and        *)
(* crashes; and that no save or request is stuck, or goes on for ever.     *)
(***************************************************************************)
EXTENDS CacheFile, SequenceTheorems, TLAPS

(* What holds while the fetcher is in SaveCacheFile: memory is the newest  *)
(* version, the file is a proper prefix of it from open to close, and rc   *)
(* is true exactly when only the last buffer is missing.                   *)
WriterInv ==
    /\ wpc # "idle" => version > 0 /\ mem = Whole(version)
    /\ wpc \in {"opened", "writing", "closing"} =>
        /\ exists
        /\ Len(disk) < Blocks
        /\ \A i \in 1..Len(disk) : disk[i] = version
    /\ wpc \in {"save", "opened", "writing"} => ~rc
    /\ wpc = "closing" => (rc <=> Len(disk) = Blocks - 1)

(* What the file holds: one version, between the newest that was whole and *)
(* the newest there is.                                                    *)
FileInv ==
    /\ Len(disk) > 0 => exists
    /\ lastWhole <= version
    /\ \A i \in 1..Len(disk) : lastWhole <= disk[i] /\ disk[i] <= version
    /\ \A i, j \in 1..Len(disk) : disk[i] = disk[j]
    /\ IsWhole(disk) => \A i \in 1..Len(disk) : disk[i] = lastWhole

(* What a reader has: blocks in order, none newer than what the file holds *)
(* now; and a file that stays intact is read as it is.                     *)
ReaderInv(r) ==
    /\ due[r] <= lastWhole
    /\ \A i \in 1..Len(buf[r]) : due[r] <= buf[r][i] /\ buf[r][i] <= version
    /\ \A i \in 1..Len(buf[r]), j \in 1..Len(disk) : buf[r][i] <= disk[j]
    /\ \A i, j \in 1..Len(buf[r]) : i <= j => buf[r][i] <= buf[r][j]
    /\ rpc[r] # "idle" /\ intact[r] =>
        /\ exists
        /\ IsWhole(disk)
        /\ \A i \in 1..Len(disk) : disk[i] = due[r]
        /\ \A i \in 1..Len(buf[r]) : buf[r][i] = due[r]
    /\ rpc[r] = "loaded" /\ intact[r] => IsWhole(buf[r])

IInv ==
    /\ TypeOK
    /\ WriterInv
    /\ FileInv
    /\ SavedIsWhole
    /\ \A r \in Readers : ReaderInv(r)

----------------------------------------------------------------------------

(* One version's contents are a sequence of Blocks blocks. *)
LEMMA WholeIsSeq ==
    ASSUME NEW v \in 1..MaxVersion
    PROVE  /\ Whole(v) \in Seq(1..MaxVersion)
           /\ Len(Whole(v)) = Blocks
           /\ \A i \in 1..Blocks : Whole(v)[i] = v
<1>1. Whole(v) \in [1..Blocks -> 1..MaxVersion]
  BY DEF Whole
<1>2. Blocks \in Nat
  BY BlocksAssumption
<1>3. QED
  BY <1>1, <1>2, SeqDef DEF Whole

(* Nothing at all is a sequence of blocks, too. *)
LEMMA NoBlocks == <<>> \in Seq(1..MaxVersion) /\ Len(<<>>) = 0
OBVIOUS

(* What appending a block does. *)
LEMMA AppendBlock ==
    ASSUME NEW s \in Seq(1..MaxVersion), NEW b \in 1..MaxVersion
    PROVE  /\ Append(s, b) \in Seq(1..MaxVersion)
           /\ Len(Append(s, b)) = Len(s) + 1
           /\ \A i \in 1..Len(s) : Append(s, b)[i] = s[i]
           /\ Append(s, b)[Len(s) + 1] = b
OBVIOUS

----------------------------------------------------------------------------

(* A daemon that starts has a whole file or none, and no reader at work. *)
LEMMA InitIInv == Init => IInv
<1> SUFFICES ASSUME Init PROVE IInv
  OBVIOUS
<1>1. WriterTypeOK
  <2>1. /\ mem \in Seq(1..MaxVersion) /\ Len(mem) <= Blocks
        /\ disk \in Seq(1..MaxVersion) /\ Len(disk) <= Blocks
    BY NoBlocks, BlocksAssumption DEF Init
  <2>2. 0 \in 0..MaxVersion /\ 0 \in 0..MaxCrashes
    BY BoundsAssumption
  <2>3. QED
    BY <2>1, <2>2 DEF Init, WriterTypeOK
<1>2. ReadersTypeOK
  BY NoBlocks, BlocksAssumption, BoundsAssumption DEF Init, ReadersTypeOK
<1>3. WriterInv /\ FileInv /\ SavedIsWhole
  BY BlocksAssumption DEF Init, WriterInv, FileInv, SavedIsWhole, IsWhole
<1>4. ASSUME NEW r \in Readers PROVE ReaderInv(r)
  BY <1>4 DEF Init, ReaderInv
<1>5. QED
  BY <1>1, <1>2, <1>3, <1>4 DEF IInv, TypeOK

(* The types of the fetcher's variables are kept: every block written to   *)
(* the file comes from memory, which is whole at that point.               *)
LEMMA WriterTypeStep ==
    WriterTypeOK /\ WriterInv /\ [Next]_vars => WriterTypeOK'
<1> SUFFICES ASSUME WriterTypeOK, WriterInv, [Next]_vars PROVE WriterTypeOK'
  OBVIOUS
<1>1. CASE SetValue
  <2>1. version + 1 \in 1..MaxVersion
    BY <1>1, BoundsAssumption DEF SetValue, WriterTypeOK
  <2>2. mem' \in Seq(1..MaxVersion) /\ Len(mem') <= Blocks
    BY <1>1, <2>1, WholeIsSeq, BlocksAssumption DEF SetValue
  <2>3. /\ version' \in 0..MaxVersion /\ wpc' = "save"
        /\ rc' = FALSE /\ lost' = FALSE
        /\ UNCHANGED <<exists, disk, lastWhole, crashes>>
    BY <1>1, <2>1 DEF SetValue
  <2>4. QED
    BY <2>2, <2>3 DEF WriterTypeOK
<1>2. CASE OpenFails
  BY <1>2 DEF OpenFails, WriterTypeOK
<1>3. CASE OpenTruncates
  BY <1>3, NoBlocks, BlocksAssumption DEF OpenTruncates, WriterTypeOK
<1>4. CASE BeginWrite
  BY <1>4 DEF BeginWrite, WriterTypeOK
<1>5. CASE SpillBlock \/ CloseFlushes
  <2>1. wpc \in {"writing", "closing"} /\ Len(disk) < Blocks
    BY <1>5 DEF SpillBlock, CloseFlushes, WriterInv
  <2>2. Len(disk) \in Nat /\ Len(disk) + 1 \in 1..Blocks
    BY <2>1, BlocksAssumption DEF WriterTypeOK
  <2>3. version \in 1..MaxVersion /\ mem = Whole(version)
    BY <2>1, BoundsAssumption DEF WriterInv, WriterTypeOK
  <2>4. mem[Len(disk) + 1] \in 1..MaxVersion
    BY <2>2, <2>3, WholeIsSeq
  <2>5. disk' = Append(disk, mem[Len(disk) + 1])
    BY <1>5 DEF SpillBlock, CloseFlushes
  <2>6. disk' \in Seq(1..MaxVersion) /\ Len(disk') = Len(disk) + 1
    BY <2>4, <2>5, AppendBlock DEF WriterTypeOK
  <2>7. lastWhole' \in 0..MaxVersion /\ wpc' \in {"writing", "idle"}
    BY <1>5, <2>3 DEF SpillBlock, CloseFlushes, WriterTypeOK
  <2>8. UNCHANGED <<version, mem, exists, rc, lost, crashes>>
    BY <1>5 DEF SpillBlock, CloseFlushes
  <2>9. Len(disk') <= Blocks
    BY <2>2, <2>6, BlocksAssumption
  <2>10. QED
    BY <2>6, <2>7, <2>8, <2>9 DEF WriterTypeOK
<1>6. CASE WriteFails
  BY <1>6 DEF WriteFails, WriterTypeOK
<1>7. CASE WriteDone
  BY <1>7 DEF WriteDone, WriterTypeOK
<1>8. CASE CloseFails
  BY <1>8 DEF CloseFails, WriterTypeOK
<1>9. CASE CrashRestart
  <2>1. mem' = disk \/ mem' = <<>>
    BY <1>9 DEF CrashRestart
  <2>2. mem' \in Seq(1..MaxVersion) /\ Len(mem') <= Blocks
    <3>1. CASE mem' = disk
      BY <3>1 DEF WriterTypeOK
    <3>2. CASE mem' = <<>>
      BY <3>2, NoBlocks, BlocksAssumption
    <3>3. QED
      BY <2>1, <3>1, <3>2
  <2>3. /\ crashes' \in 0..MaxCrashes
        /\ wpc' = "idle" /\ rc' = FALSE /\ lost' = FALSE
        /\ UNCHANGED <<version, exists, disk, lastWhole>>
    BY <1>9, BoundsAssumption DEF CrashRestart, WriterTypeOK
  <2>4. QED
    BY <2>2, <2>3 DEF WriterTypeOK
<1>10. CASE UNCHANGED writerVars
  BY <1>10 DEF writerVars, WriterTypeOK
<1>11. QED
  BY <1>1, <1>2, <1>3, <1>4, <1>5, <1>6, <1>7, <1>8, <1>9, <1>10
     DEF Next, WriterStep, ReaderStep, StartLoad, ReadBlock, LoadSucceeds,
         LoadFails, Reply, vars, writerVars

(* The types of the readers' variables are kept: every block read comes    *)
(* from the file, and no more than the file has.                           *)
LEMMA ReadersTypeStep == TypeOK /\ [Next]_vars => ReadersTypeOK'
<1> SUFFICES ASSUME TypeOK, [Next]_vars PROVE ReadersTypeOK'
  OBVIOUS
<1> USE DEF TypeOK
<1>1. CASE UNCHANGED readerVars
  BY <1>1 DEF readerVars, ReadersTypeOK
<1>2. CASE OpenTruncates
  BY <1>2 DEF OpenTruncates, ReadersTypeOK
<1>3. CASE CrashRestart
  BY <1>3, NoBlocks, BlocksAssumption, BoundsAssumption
     DEF CrashRestart, ReadersTypeOK
<1>4. ASSUME NEW r \in Readers, StartLoad(r) PROVE ReadersTypeOK'
  BY <1>4, NoBlocks, BlocksAssumption
     DEF StartLoad, WriterTypeOK, ReadersTypeOK, IsWhole
<1>5. ASSUME NEW r \in Readers, ReadBlock(r) PROVE ReadersTypeOK'
  <2>1. Len(buf[r]) + 1 \in 1..Len(disk)
    BY <1>5 DEF ReadBlock, WriterTypeOK, ReadersTypeOK
  <2>2. disk[Len(buf[r]) + 1] \in 1..MaxVersion
    BY <2>1, ElementOfSeq DEF WriterTypeOK
  <2>3. buf' = [buf EXCEPT ![r] = Append(buf[r], disk[Len(buf[r]) + 1])]
    BY <1>5 DEF ReadBlock, ReadersTypeOK
  <2>4. /\ Append(buf[r], disk[Len(buf[r]) + 1]) \in Seq(1..MaxVersion)
        /\ Len(Append(buf[r], disk[Len(buf[r]) + 1])) = Len(buf[r]) + 1
    BY <2>2, AppendBlock DEF ReadersTypeOK
  <2>5. buf' \in [Readers -> Seq(1..MaxVersion)]
    BY <2>3, <2>4 DEF ReadersTypeOK
  <2>6. ASSUME NEW q \in Readers PROVE Len(buf'[q]) <= Blocks
    BY <2>1, <2>3, <2>4, BlocksAssumption DEF WriterTypeOK, ReadersTypeOK
  <2>7. QED
    BY <1>5, <2>5, <2>6 DEF ReadBlock, ReadersTypeOK
<1>6. ASSUME NEW r \in Readers, LoadSucceeds(r) \/ Reply(r)
      PROVE  ReadersTypeOK'
  BY <1>6 DEF LoadSucceeds, Reply, ReadersTypeOK
<1>7. ASSUME NEW r \in Readers, LoadFails(r) PROVE ReadersTypeOK'
  <2>1. PICK kept \in {<<>>, buf[r]} : buf' = [buf EXCEPT ![r] = kept]
    BY <1>7 DEF LoadFails
  <2>2. kept \in Seq(1..MaxVersion) /\ Len(kept) <= Blocks
    <3>1. CASE kept = <<>>
      BY <3>1, NoBlocks, BlocksAssumption
    <3>2. CASE kept = buf[r]
      BY <3>2 DEF ReadersTypeOK
    <3>3. QED
      BY <3>1, <3>2
  <2>3. QED
    BY <1>7, <2>1, <2>2 DEF LoadFails, ReadersTypeOK
<1>8. QED
  BY <1>1, <1>2, <1>3, <1>4, <1>5, <1>6, <1>7
     DEF Next, WriterStep, ReaderStep, SetValue, OpenFails, BeginWrite,
         SpillBlock, WriteFails, WriteDone, CloseFlushes, CloseFails, vars,
         readerVars

(* Both halves of the types, the writer's and the readers'. *)
LEMMA TypeStep == IInv /\ [Next]_vars => TypeOK'
BY WriterTypeStep, ReadersTypeStep DEF IInv, TypeOK

----------------------------------------------------------------------------

(* The block the stream hands to the file next is of the newest version,   *)
(* and makes the file one block longer.                                    *)
LEMMA NextBlock ==
    ASSUME WriterTypeOK, WriterInv,
           wpc \in {"writing", "closing"},
           disk' = Append(disk, mem[Len(disk) + 1])
    PROVE  /\ version \in 1..MaxVersion
           /\ Len(disk) \in Nat /\ Len(disk) < Blocks
           /\ Len(disk') = Len(disk) + 1
           /\ \A i \in 1..Len(disk) : disk'[i] = version
           /\ disk'[Len(disk) + 1] = version
<1>1. version \in 1..MaxVersion /\ mem = Whole(version)
  BY BoundsAssumption DEF WriterInv, WriterTypeOK
<1>2. Len(disk) \in Nat /\ Len(disk) < Blocks
  BY DEF WriterInv, WriterTypeOK
<1>3. Len(disk) + 1 \in 1..Blocks
  BY <1>2, BlocksAssumption
<1>4. mem[Len(disk) + 1] = version
  BY <1>1, <1>3, WholeIsSeq
<1>5. disk' = Append(disk, version)
  BY <1>4
<1>6. /\ Len(disk') = Len(disk) + 1
      /\ \A i \in 1..Len(disk) : disk'[i] = disk[i]
      /\ disk'[Len(disk) + 1] = version
  BY <1>1, <1>5, AppendBlock DEF WriterTypeOK
<1>7. \A i \in 1..Len(disk) : disk[i] = version
  BY DEF WriterInv
<1>8. QED
  BY <1>1, <1>2, <1>6, <1>7

(* The writer's knowledge of the file it has open is kept. *)
LEMMA WriterStepInv == IInv /\ [Next]_vars => WriterInv'
<1> SUFFICES ASSUME WriterTypeOK, WriterInv, [Next]_vars PROVE WriterInv'
  BY DEF IInv, TypeOK
<1>1. CASE SetValue
  BY <1>1 DEF SetValue, WriterInv, WriterTypeOK
<1>2. CASE OpenFails \/ CloseFails
  BY <1>2 DEF OpenFails, CloseFails, WriterInv
<1>3. CASE OpenTruncates
  BY <1>3, NoBlocks, BlocksAssumption DEF OpenTruncates, WriterInv
<1>4. CASE BeginWrite
  BY <1>4 DEF BeginWrite, WriterInv
<1>5. CASE SpillBlock
  <2>1. wpc = "writing" /\ disk' = Append(disk, mem[Len(disk) + 1])
    BY <1>5 DEF SpillBlock
  <2>2. /\ Len(disk) \in Nat
        /\ Len(disk') = Len(disk) + 1
        /\ \A i \in 1..Len(disk) : disk'[i] = version
        /\ disk'[Len(disk) + 1] = version
    BY <2>1, NextBlock
  <2>3. Len(disk') < Blocks
    BY <1>5, <2>2, BlocksAssumption DEF SpillBlock
  <2>4. \A i \in 1..Len(disk') : disk'[i] = version
    BY <2>2
  <2>5. UNCHANGED <<version, mem, exists, rc, wpc>>
    BY <1>5 DEF SpillBlock
  <2>6. QED
    BY <2>1, <2>3, <2>4, <2>5 DEF WriterInv
<1>6. CASE WriteFails \/ WriteDone
  BY <1>6, BlocksAssumption DEF WriteFails, WriteDone, WriterInv, WriterTypeOK
<1>7. CASE CloseFlushes
  BY <1>7 DEF CloseFlushes, WriterInv
<1>8. CASE CrashRestart
  BY <1>8 DEF CrashRestart, WriterInv
<1>9. CASE UNCHANGED writerVars
  BY <1>9 DEF writerVars, WriterInv
<1>10. QED
  BY <1>1, <1>2, <1>3, <1>4, <1>5, <1>6, <1>7, <1>8, <1>9
     DEF Next, WriterStep, ReaderStep, StartLoad, ReadBlock, LoadSucceeds,
         LoadFails, Reply, vars, writerVars

(* The file stays a beginning of one version's contents. *)
LEMMA FileStepInv == IInv /\ [Next]_vars => FileInv'
<1> SUFFICES ASSUME WriterTypeOK, WriterInv, FileInv, [Next]_vars
             PROVE  FileInv'
  BY DEF IInv, TypeOK
<1>1. CASE SetValue
  <2>1. ASSUME NEW i \in 1..Len(disk)
        PROVE  disk[i] \in Nat /\ disk[i] <= version + 1
    <3>1. disk[i] \in 1..MaxVersion
      BY ElementOfSeq DEF WriterTypeOK
    <3>2. QED
      BY <3>1, BoundsAssumption DEF FileInv, WriterTypeOK
  <2>2. QED
    BY <1>1, <2>1 DEF SetValue, FileInv, WriterTypeOK, IsWhole
<1>2. CASE OpenTruncates
  BY <1>2, NoBlocks, BlocksAssumption DEF OpenTruncates, FileInv, IsWhole
<1>3. CASE SpillBlock \/ CloseFlushes
  <2>1. /\ wpc \in {"writing", "closing"}
        /\ disk' = Append(disk, mem[Len(disk) + 1])
    BY <1>3 DEF SpillBlock, CloseFlushes
  <2>2. /\ version \in 1..MaxVersion
        /\ Len(disk) \in Nat /\ Len(disk) < Blocks
        /\ Len(disk') = Len(disk) + 1
        /\ \A i \in 1..Len(disk) : disk'[i] = version
        /\ disk'[Len(disk) + 1] = version
    BY <2>1, NextBlock
  <2>3. \A i \in 1..Len(disk') : disk'[i] = version
    BY <2>2
  <2>4. exists /\ exists' = exists /\ version' = version
    BY <1>3, <2>1 DEF SpillBlock, CloseFlushes, WriterInv
  <2>5. /\ lastWhole' \in {lastWhole, version}
        /\ IsWhole(disk') => lastWhole' = version
    <3>1. CASE SpillBlock
      BY <3>1, <2>2, BlocksAssumption DEF SpillBlock, IsWhole
    <3>2. CASE CloseFlushes
      BY <3>2 DEF CloseFlushes
    <3>3. QED
      BY <1>3, <3>1, <3>2
  <2>6. lastWhole' <= version
    BY <2>5, <2>2 DEF FileInv
  <2>7. QED
    BY <2>2, <2>3, <2>4, <2>5, <2>6 DEF FileInv
<1>4. CASE UNCHANGED <<exists, disk, version, lastWhole>>
  BY <1>4 DEF FileInv, IsWhole
<1>5. QED
  BY <1>1, <1>2, <1>3, <1>4
     DEF Next, WriterStep, ReaderStep, OpenFails, BeginWrite, WriteFails,
         WriteDone, CloseFails, CrashRestart, StartLoad, ReadBlock,
         LoadSucceeds, LoadFails, Reply, vars, writerVars

(* A save that reported success has the memory's version in the file. *)
LEMMA SavedStep == IInv /\ [Next]_vars => SavedIsWhole'
<1> SUFFICES ASSUME WriterTypeOK, WriterInv, SavedIsWhole, [Next]_vars,
                    wpc' = "idle", rc', ~lost'
             PROVE  exists' /\ disk' = mem' /\ IsWhole(disk')
  BY DEF IInv, TypeOK, SavedIsWhole
<1>1. CASE CloseFlushes
  <2>1. /\ wpc = "closing" /\ rc /\ mem' = mem
        /\ disk' = Append(disk, mem[Len(disk) + 1])
    BY <1>1 DEF CloseFlushes
  <2>2. /\ version \in 1..MaxVersion
        /\ Len(disk') = Len(disk) + 1
        /\ \A i \in 1..Len(disk) : disk'[i] = version
        /\ disk'[Len(disk) + 1] = version
    BY <2>1, NextBlock
  <2>3. Len(disk) = Blocks - 1 /\ mem = Whole(version) /\ exists
    BY <2>1 DEF WriterInv
  <2>4. Len(disk') = Blocks /\ \A i \in 1..Blocks : disk'[i] = version
    BY <2>2, <2>3, BlocksAssumption
  <2>5. /\ mem \in Seq(1..MaxVersion) /\ Len(mem) = Blocks
        /\ \A i \in 1..Blocks : mem[i] = version
    BY <2>2, <2>3, WholeIsSeq
  <2>6. disk' \in Seq(1..MaxVersion)
    <3>1. mem[Len(disk) + 1] \in 1..MaxVersion
      BY <2>2, <2>3, <2>5, BlocksAssumption
    <3>2. QED
      BY <2>1, <3>1, AppendBlock DEF WriterTypeOK
  <2>7. disk' = mem
    BY <2>4, <2>5, <2>6, SeqEqual
  <2>8. QED
    BY <1>1, <2>1, <2>3, <2>4, <2>7 DEF CloseFlushes, IsWhole
<1>2. CASE UNCHANGED writerVars
  BY <1>2 DEF writerVars, SavedIsWhole, IsWhole
<1>3. QED
  BY <1>1, <1>2
     DEF Next, WriterStep, ReaderStep, SetValue, OpenFails, OpenTruncates,
         BeginWrite, SpillBlock, WriteFails, WriteDone, CloseFails,
         CrashRestart, StartLoad, ReadBlock, LoadSucceeds, LoadFails, Reply,
         vars, writerVars, WriterInv

----------------------------------------------------------------------------

(* What is read in a reader's step is no older than what it has.           *)
LEMMA ReadStepInv ==
    ASSUME IInv, NEW r \in Readers, ReadBlock(r)
    PROVE  ReaderInv(r)'
<1> DEFINE n == Len(buf[r])
           b == disk[n + 1]
<1>1. WriterTypeOK /\ ReadersTypeOK /\ FileInv /\ ReaderInv(r)
  BY DEF IInv, TypeOK
<1>2. n \in Nat /\ n + 1 \in 1..Len(disk) /\ rpc[r] = "loading"
  BY <1>1 DEF ReadBlock, WriterTypeOK, ReadersTypeOK
<1>3. b \in 1..MaxVersion
  BY <1>1, <1>2, ElementOfSeq DEF WriterTypeOK
<1>4. buf'[r] = Append(buf[r], b)
  BY <1>1 DEF ReadBlock, ReadersTypeOK
<1>5. /\ Len(buf'[r]) = n + 1
      /\ \A i \in 1..n : buf'[r][i] = buf[r][i]
      /\ buf'[r][n + 1] = b
  BY <1>1, <1>3, <1>4, AppendBlock DEF ReadersTypeOK
<1>6. UNCHANGED <<version, disk, exists, lastWhole, rpc, due, intact>>
  BY DEF ReadBlock, writerVars
<1>7. lastWhole <= b /\ b <= version
  BY <1>1, <1>2 DEF FileInv
<1>8. \A j \in 1..Len(disk) : disk[j] = b
  BY <1>1, <1>2 DEF FileInv
<1>9. \A i \in 1..n : buf[r][i] <= b
  BY <1>1, <1>2 DEF ReaderInv
<1>10. due[r] <= b
  <2>1. due[r] \in Nat /\ lastWhole \in Nat /\ b \in Nat
    BY <1>1, <1>3, BoundsAssumption DEF WriterTypeOK, ReadersTypeOK
  <2>2. due[r] <= lastWhole
    BY <1>1 DEF ReaderInv
  <2>3. QED
    BY <1>7, <2>1, <2>2
<1>11. ASSUME NEW i \in 1..Len(buf'[r])
       PROVE  /\ due[r] <= buf'[r][i] /\ buf'[r][i] <= version
              /\ buf'[r][i] <= b
  <2>1. CASE i \in 1..n
    BY <1>1, <1>5, <1>9, <2>1 DEF ReaderInv
  <2>2. CASE i = n + 1
    BY <1>3, <1>5, <1>7, <1>10, <2>2
  <2>3. QED
    BY <1>2, <1>5, <2>1, <2>2
<1>12. ASSUME NEW i \in 1..Len(buf'[r]), NEW j \in 1..Len(buf'[r]), i <= j
       PROVE  buf'[r][i] <= buf'[r][j]
  <2>1. CASE j = n + 1
    BY <1>5, <1>11, <2>1
  <2>2. CASE i \in 1..n /\ j \in 1..n
    BY <1>1, <1>5, <1>12, <2>2 DEF ReaderInv
  <2>3. QED
    BY <1>2, <1>5, <1>12, <2>1, <2>2
<1>13. ASSUME intact[r], NEW i \in 1..Len(buf'[r])
       PROVE  buf'[r][i] = due[r]
  <2>1. CASE i \in 1..n
    BY <1>1, <1>2, <1>5, <1>13, <2>1 DEF ReaderInv
  <2>2. CASE i = n + 1
    BY <1>1, <1>2, <1>5, <1>13, <2>2 DEF ReaderInv
  <2>3. QED
    BY <1>2, <1>5, <2>1, <2>2
<1>14. QED
  BY <1>1, <1>2, <1>6, <1>8, <1>11, <1>12, <1>13 DEF ReaderInv, IsWhole

(* What the fetcher's steps do to a reader: newer blocks in the file, and  *)
(* no file is intact while it is written.                                  *)
LEMMA WriterKeepsReader ==
    ASSUME IInv, NEW r \in Readers, SetValue \/ WriterStep
    PROVE  ReaderInv(r)'
<1>1. WriterTypeOK /\ ReadersTypeOK /\ WriterInv /\ FileInv /\ ReaderInv(r)
  BY DEF IInv, TypeOK
<1>2. CASE SetValue
  <2>1. ASSUME NEW i \in 1..Len(buf[r]) PROVE buf[r][i] <= version + 1
    <3>1. buf[r][i] \in 1..MaxVersion
      BY <1>1, ElementOfSeq DEF ReadersTypeOK
    <3>2. QED
      BY <1>1, <3>1, BoundsAssumption DEF ReaderInv, WriterTypeOK
  <2>2. QED
    BY <1>1, <1>2, <2>1 DEF SetValue, readerVars, ReaderInv, IsWhole
<1>3. CASE OpenTruncates
  <2>1. Len(disk') = 0 /\ intact'[r] = FALSE
    BY <1>3, NoBlocks DEF OpenTruncates
  <2>2. UNCHANGED <<version, lastWhole, rpc, buf, due>>
    BY <1>3 DEF OpenTruncates
  <2>3. QED
    BY <1>1, <2>1, <2>2 DEF ReaderInv, IsWhole
<1>4. CASE SpillBlock \/ CloseFlushes
  <2>1. /\ wpc \in {"writing", "closing"}
        /\ disk' = Append(disk, mem[Len(disk) + 1])
        /\ UNCHANGED <<version, exists, rpc, buf, due, intact>>
    BY <1>4 DEF SpillBlock, CloseFlushes, readerVars
  <2>2. /\ version \in 1..MaxVersion
        /\ Len(disk) \in Nat /\ Len(disk) < Blocks
        /\ Len(disk') = Len(disk) + 1
        /\ \A i \in 1..Len(disk) : disk'[i] = version
        /\ disk'[Len(disk) + 1] = version
    BY <1>1, <2>1, NextBlock
  <2>3. \A i \in 1..Len(disk') : disk'[i] = version
    BY <2>2
  <2>4. ~(rpc[r] # "idle" /\ intact[r])
    BY <1>1, <2>2, BlocksAssumption DEF ReaderInv, IsWhole
  <2>5. due'[r] <= lastWhole'
    <3>1. lastWhole' \in {lastWhole, version}
      BY <1>4 DEF SpillBlock, CloseFlushes
    <3>2. due[r] \in Nat /\ lastWhole \in Nat /\ version \in Nat
      BY <1>1, BoundsAssumption DEF WriterTypeOK, ReadersTypeOK
    <3>3. due[r] <= lastWhole /\ lastWhole <= version
      BY <1>1 DEF ReaderInv, FileInv
    <3>4. QED
      BY <2>1, <3>1, <3>2, <3>3
  <2>6. \A i \in 1..Len(buf'[r]) :
            due'[r] <= buf'[r][i] /\ buf'[r][i] <= version'
    BY <1>1, <2>1 DEF ReaderInv
  <2>7. \A i \in 1..Len(buf'[r]), j \in 1..Len(disk') :
            buf'[r][i] <= disk'[j]
    BY <2>1, <2>3, <2>6
  <2>8. \A i, j \in 1..Len(buf'[r]) : i <= j => buf'[r][i] <= buf'[r][j]
    BY <1>1, <2>1 DEF ReaderInv
  <2>9. QED
    BY <2>1, <2>4, <2>5, <2>6, <2>7, <2>8 DEF ReaderInv
<1>5. CASE UNCHANGED <<version, disk, exists, lastWhole, readerVars>>
  BY <1>1, <1>5 DEF readerVars, ReaderInv, IsWhole
<1>6. QED
  BY <1>2, <1>3, <1>4, <1>5
     DEF WriterStep, OpenFails, BeginWrite, WriteFails, WriteDone, CloseFails

(* What a reader knows of the file is kept by everyone's steps. *)
LEMMA ReaderStepInv ==
    ASSUME IInv, [Next]_vars, NEW r \in Readers
    PROVE  ReaderInv(r)'
<1>1. WriterTypeOK /\ ReadersTypeOK /\ FileInv /\ ReaderInv(r)
  BY DEF IInv, TypeOK
<1>2. CASE SetValue \/ WriterStep
  BY <1>2, WriterKeepsReader
<1>3. CASE CrashRestart
  <2>1. /\ Len(buf'[r]) = 0 /\ due'[r] = 0 /\ rpc'[r] = "idle"
        /\ lastWhole' = lastWhole
    BY <1>3, NoBlocks DEF CrashRestart
  <2>2. 0 <= lastWhole
    BY <1>1, BoundsAssumption DEF WriterTypeOK
  <2>3. QED
    BY <2>1, <2>2 DEF ReaderInv
<1>4. CASE StartLoad(r)
  <2>1. /\ Len(buf'[r]) = 0 /\ due'[r] = lastWhole
        /\ rpc'[r] = "loading" /\ (intact'[r] <=> IsWhole(disk))
        /\ UNCHANGED <<version, disk, exists, lastWhole>>
    BY <1>1, <1>4, NoBlocks DEF StartLoad, ReadersTypeOK, writerVars, IsWhole
  <2>2. lastWhole <= lastWhole
    BY <1>1, BoundsAssumption DEF WriterTypeOK
  <2>3. IsWhole(disk) => exists /\ \A i \in 1..Len(disk) : disk[i] = lastWhole
    BY <1>1, BlocksAssumption DEF FileInv, IsWhole
  <2>4. QED
    BY <2>1, <2>2, <2>3 DEF ReaderInv, IsWhole
<1>5. CASE ReadBlock(r)
  BY <1>5, ReadStepInv
<1>6. CASE LoadSucceeds(r) \/ Reply(r)
  <2>1. /\ UNCHANGED <<version, disk, exists, lastWhole, buf, due, intact>>
        /\ rpc[r] # "idle"
        /\ rpc'[r] = "loaded" => IsWhole(buf[r])
    BY <1>1, <1>6 DEF LoadSucceeds, Reply, ReadersTypeOK, writerVars
  <2>2. QED
    BY <1>1, <2>1 DEF ReaderInv, IsWhole
<1>7. CASE LoadFails(r)
  <2>1. /\ UNCHANGED <<version, disk, exists, lastWhole, due, intact>>
        /\ rpc[r] = "loading"
        /\ \/ Len(buf[r]) < Blocks /\ Len(disk) <= Len(buf[r])
           \/ Mixed(buf[r])
        /\ Len(buf'[r]) = 0 \/ buf'[r] = buf[r]
    BY <1>1, <1>7, NoBlocks DEF LoadFails, ReadersTypeOK, writerVars
  <2>2. ~intact[r]
    <3>1. SUFFICES ASSUME intact[r] PROVE FALSE
      OBVIOUS
    <3>2. Len(disk) = Blocks /\ \A i \in 1..Len(buf[r]) : buf[r][i] = due[r]
      BY <1>1, <2>1, <3>1 DEF ReaderInv, IsWhole
    <3>3. ~Mixed(buf[r])
      BY <3>2 DEF Mixed
    <3>4. Len(buf[r]) \in Nat
      BY <1>1 DEF ReadersTypeOK
    <3>5. QED
      BY <2>1, <3>2, <3>3, <3>4, BlocksAssumption
  <2>3. CASE Len(buf'[r]) = 0
    BY <1>1, <2>1, <2>2, <2>3 DEF ReaderInv
  <2>4. CASE buf'[r] = buf[r]
    BY <1>1, <2>1, <2>2, <2>4 DEF ReaderInv
  <2>5. QED
    BY <2>1, <2>3, <2>4
<1>8. ASSUME NEW q \in Readers, q # r, StartLoad(q) \/ ReaderStep(q)
      PROVE  ReaderInv(r)'
  <2>1. /\ UNCHANGED <<version, disk, exists, lastWhole>>
        /\ rpc'[r] = rpc[r] /\ buf'[r] = buf[r]
        /\ due'[r] = due[r] /\ intact'[r] = intact[r]
    BY <1>1, <1>8 DEF StartLoad, ReaderStep, ReadBlock, LoadSucceeds,
       LoadFails, Reply, ReadersTypeOK, writerVars
  <2>2. QED
    BY <1>1, <2>1 DEF ReaderInv, IsWhole
<1>9. CASE UNCHANGED vars
  BY <1>1, <1>9 DEF vars, ReaderInv, IsWhole
<1>10. QED
  BY <1>2, <1>3, <1>4, <1>5, <1>6, <1>7, <1>8, <1>9 DEF Next, ReaderStep

----------------------------------------------------------------------------

(* The conjunction is inductive: what memory and file hold while a save is *)
(* under way is needed for the types, what the file holds for the readers. *)
THEOREM Inductive == Spec => []IInv
<1>1. IInv /\ [Next]_vars => IInv'
  BY TypeStep, WriterStepInv, FileStepInv, SavedStep, ReaderStepInv DEF IInv
<1>2. QED
  BY InitIInv, <1>1, PTL DEF Spec

(* Type correctness. *)
THEOREM TypeCorrect == Spec => []TypeOK
<1>1. IInv => TypeOK
  BY DEF IInv
<1>2. QED
  BY Inductive, <1>1, PTL

(* The file is always a prefix of one version: a restart never finds a     *)
(* mixture, whatever failed before it.                                     *)
THEOREM FileHoldsOneVersion == Spec => []FileIsOneVersion
<1>1. IInv => FileIsOneVersion
  BY DEF IInv, FileInv, FileIsOneVersion, Mixed
<1>2. QED
  BY Inductive, <1>1, PTL

(* No load steps back behind what was whole on disk when it began, and     *)
(* what it returns is in order, for any number of saves and crashes that   *)
(* overlap with it.                                                        *)
THEOREM LoadsNeverStepBack == Spec => []LoadNeverStepsBack
<1>1. IInv => LoadNeverStepsBack
  <2>1. SUFFICES ASSUME IInv, NEW r \in Readers, rpc[r] = "loaded"
                 PROVE  /\ \A i \in 1..Len(buf[r]) : buf[r][i] >= due[r]
                        /\ \A i, j \in 1..Len(buf[r]) :
                               i <= j => buf[r][i] <= buf[r][j]
    BY DEF LoadNeverStepsBack
  <2>2. ReaderInv(r) /\ ReadersTypeOK
    BY <2>1 DEF IInv, TypeOK
  <2>3. ASSUME NEW i \in 1..Len(buf[r]) PROVE buf[r][i] >= due[r]
    BY <2>2 DEF ReaderInv
  <2>4. QED
    BY <2>2, <2>3 DEF ReaderInv
<1>2. QED
  BY Inductive, <1>1, PTL

(* A load on a file that stays intact is answered with that very version.  *)
THEOREM IntactLoadsAreExact == Spec => []IntactLoadIsExact
<1>1. IInv => IntactLoadIsExact
  <2>1. SUFFICES ASSUME IInv, NEW r \in Readers, rpc[r] = "loaded", intact[r]
                 PROVE  Response(r) = Whole(due[r])
    BY DEF IntactLoadIsExact
  <2>2. ReaderInv(r) /\ FileInv /\ WriterTypeOK /\ ReadersTypeOK
    BY <2>1 DEF IInv, TypeOK
  <2>3. /\ exists /\ Len(disk) = Blocks /\ Len(buf[r]) = Blocks
        /\ \A i \in 1..Blocks : disk[i] = due[r] /\ buf[r][i] = due[r]
    BY <2>1, <2>2 DEF ReaderInv, IsWhole
  <2>4. due[r] \in 1..MaxVersion
    <3>1. 1 \in 1..Len(disk) /\ disk[1] = due[r]
      BY <2>3, BlocksAssumption
    <3>2. QED
      BY <2>2, <3>1, ElementOfSeq DEF WriterTypeOK
  <2>5. /\ Whole(due[r]) \in Seq(1..MaxVersion)
        /\ Len(Whole(due[r])) = Blocks
        /\ \A i \in 1..Blocks : Whole(due[r])[i] = due[r]
    BY <2>4, WholeIsSeq
  <2>6. buf[r] = Whole(due[r])
    BY <2>2, <2>3, <2>5, SeqEqual DEF ReadersTypeOK
  <2>7. QED
    BY <2>3, <2>6 DEF Response
<1>2. QED
  BY Inductive, <1>1, PTL

(* A save that returned true and whose last flush did not fail has left    *)
(* the fetcher's memory on disk, whole.                                    *)
THEOREM SavesAreWhole == Spec => []SavedIsWhole
<1>1. IInv => SavedIsWhole
  BY DEF IInv
<1>2. QED
  BY Inductive, <1>1, PTL

----------------------------------------------------------------------------
(* CacheFile implements CacheRegister. *)

(* A saved file is quiet again when its last block is flushed, and not     *)
(* before: the fetcher's steps are steps of the register or none.          *)
LEMMA WriterSimulates ==
    ASSUME IInv, SetValue \/ WriterStep \/ CrashRestart
    PROVE  [Register!Next]_(Register!vars)
<1>1. WriterTypeOK /\ ReadersTypeOK /\ WriterInv
  BY DEF IInv, TypeOK
<1>2. CASE SetValue
  <2>1. Register!Fetch
    BY <1>2 DEF SetValue, readerVars, Register!Fetch, Loading, Given, IsWhole
  <2>2. QED
    BY <2>1 DEF Register!Next
<1>3. CASE OpenTruncates
  <2>1. ~IsWhole(disk')
    BY <1>3, NoBlocks, BlocksAssumption DEF OpenTruncates, IsWhole
  <2>2. Register!BeginSave
    BY <1>3, <2>1 DEF OpenTruncates, Register!BeginSave, Loading, Given
  <2>3. QED
    BY <2>2 DEF Register!Next
<1>4. CASE SpillBlock \/ CloseFlushes
  <2>1. /\ wpc \in {"writing", "closing"}
        /\ disk' = Append(disk, mem[Len(disk) + 1])
        /\ UNCHANGED <<version, rpc, buf, due, intact>>
    BY <1>4 DEF SpillBlock, CloseFlushes, readerVars
  <2>2. /\ Len(disk) \in Nat /\ Len(disk) < Blocks
        /\ Len(disk') = Len(disk) + 1
    BY <1>1, <2>1, NextBlock
  <2>3. ~IsWhole(disk) /\ UNCHANGED <<Loading, Given>>
    BY <2>1, <2>2, BlocksAssumption DEF IsWhole, Loading, Given
  <2>4. CASE IsWhole(disk')
    <3>1. lastWhole' = version
      BY <1>4, <2>2, <2>4, BlocksAssumption
         DEF SpillBlock, CloseFlushes, IsWhole
    <3>2. Register!EndSave
      BY <2>1, <2>3, <2>4, <3>1 DEF Register!EndSave
    <3>3. QED
      BY <3>2 DEF Register!Next
  <2>5. CASE ~IsWhole(disk')
    <3>1. lastWhole' = lastWhole
      BY <1>4, <2>5 DEF SpillBlock, CloseFlushes
    <3>2. IsWhole(disk)' = IsWhole(disk)
      BY <2>3, <2>5 DEF IsWhole
    <3>3. QED
      BY <2>1, <2>3, <3>1, <3>2 DEF Register!vars
  <2>6. QED
    BY <2>4, <2>5
<1>5. CASE CrashRestart
  <2>1. Loading' = {} /\ Given' = [r \in Readers |-> <<>>]
    BY <1>5 DEF CrashRestart, Loading, Given
  <2>2. Register!Crash
    BY <1>5, <2>1 DEF CrashRestart, Register!Crash, IsWhole
  <2>3. QED
    BY <2>2 DEF Register!Next
<1>6. CASE UNCHANGED <<version, disk, lastWhole, readerVars>>
  BY <1>6 DEF readerVars, Register!vars, Loading, Given, IsWhole
<1>7. QED
  BY <1>2, <1>3, <1>4, <1>5, <1>6
     DEF WriterStep, OpenFails, BeginWrite, WriteFails, WriteDone, CloseFails

(* What a load ends with is an answer the register may give: the value     *)
(* itself when the file was intact, else blocks in order in the window.    *)
LEMMA LoadIsAnswered ==
    ASSUME IInv, NEW r \in Readers, LoadSucceeds(r) \/ LoadFails(r),
           ReaderInv(r)', ReadersTypeOK'
    PROVE  buf'[r] \in Register!Answers(r)
<1>1. ReadersTypeOK /\ WriterTypeOK
  BY DEF IInv, TypeOK
<1>2. /\ UNCHANGED <<version, disk, exists, lastWhole, due, intact>>
      /\ rpc'[r] = "loaded"
  BY <1>1 DEF LoadSucceeds, LoadFails, ReadersTypeOK, writerVars
<1>3. /\ buf'[r] \in Seq(1..MaxVersion)
      /\ Len(buf'[r]) \in Nat /\ Len(buf'[r]) <= Blocks
  BY DEF ReadersTypeOK
<1>4. CASE intact[r]
  <2>1. /\ Len(buf'[r]) = Blocks
        /\ \A i \in 1..Blocks : buf'[r][i] = due[r]
    BY <1>2, <1>4 DEF ReaderInv, IsWhole
  <2>2. buf'[r] = [i \in 1..Blocks |-> due[r]]
    BY <1>3, <2>1
  <2>3. QED
    BY <1>4, <2>2 DEF Register!Answers
<1>5. CASE ~intact[r]
  <2>1. \A i \in 1..Len(buf'[r]) : buf'[r][i] \in due[r]..version
    <3>1. ASSUME NEW i \in 1..Len(buf'[r])
          PROVE  buf'[r][i] \in due[r]..version
      <4>1. buf'[r][i] \in 1..MaxVersion
        BY <1>3, ElementOfSeq
      <4>2. due[r] <= buf'[r][i] /\ buf'[r][i] <= version
        BY <1>2 DEF ReaderInv
      <4>3. due[r] \in Nat /\ version \in Nat
        BY <1>1, BoundsAssumption DEF ReadersTypeOK, WriterTypeOK
      <4>4. QED
        BY <4>1, <4>2, <4>3
    <3>2. QED
      BY <3>1
  <2>2. buf'[r] \in [1..Len(buf'[r]) -> due[r]..version]
    BY <1>3, <2>1
  <2>3. Len(buf'[r]) \in 0..Blocks /\ DOMAIN buf'[r] = 1..Len(buf'[r])
    BY <1>3, BlocksAssumption
  <2>4. \A i, j \in DOMAIN buf'[r] : i <= j => buf'[r][i] <= buf'[r][j]
    BY <2>3 DEF ReaderInv
  <2>5. buf'[r] \in Register!Torn(r)
    BY <2>2, <2>3, <2>4 DEF Register!Torn
  <2>6. QED
    BY <1>5, <2>5 DEF Register!Answers
<1>6. QED
  BY <1>4, <1>5

(* A reader's steps are steps of the register or none. *)
LEMMA ReaderSimulates ==
    ASSUME IInv, IInv', NEW r \in Readers, StartLoad(r) \/ ReaderStep(r)
    PROVE  [Register!Next]_(Register!vars)
<1>1. ReadersTypeOK /\ ReadersTypeOK' /\ ReaderInv(r)'
  BY DEF IInv, TypeOK
<1>2. UNCHANGED <<version, disk, lastWhole>>
  BY DEF StartLoad, ReaderStep, ReadBlock, LoadSucceeds, LoadFails, Reply,
         writerVars
<1>3. CASE StartLoad(r)
  <2>1. /\ r \notin Loading /\ Loading' = Loading \cup {r}
        /\ Given' = Given
    BY <1>1, <1>3 DEF StartLoad, Loading, Given, ReadersTypeOK
  <2>2. Register!Ask(r)
    BY <1>2, <1>3, <2>1 DEF StartLoad, Register!Ask, IsWhole
  <2>3. QED
    BY <2>2 DEF Register!Next
<1>4. CASE ReadBlock(r)
  <2>1. UNCHANGED <<Loading, Given>>
    BY <1>1, <1>4 DEF ReadBlock, Loading, Given, ReadersTypeOK
  <2>2. QED
    BY <1>2, <1>4, <2>1 DEF ReadBlock, Register!vars, IsWhole
<1>5. CASE LoadSucceeds(r) \/ LoadFails(r)
  <2>1. buf'[r] \in Register!Answers(r)
    BY <1>1, <1>5, LoadIsAnswered
  <2>2. /\ r \in Loading /\ Loading' = Loading \ {r}
        /\ Given' = [Given EXCEPT ![r] = buf'[r]]
    BY <1>1, <1>5 DEF LoadSucceeds, LoadFails, Loading, Given, ReadersTypeOK
  <2>3. UNCHANGED <<due, intact>>
    BY <1>5 DEF LoadSucceeds, LoadFails
  <2>4. Register!Answer(r)
    BY <1>2, <2>1, <2>2, <2>3 DEF Register!Answer, IsWhole
  <2>5. QED
    BY <2>4 DEF Register!Next
<1>6. CASE Reply(r)
  <2>1. /\ r \notin Loading /\ Loading' = Loading
        /\ Given' = [Given EXCEPT ![r] = <<>>]
    BY <1>1, <1>6 DEF Reply, Loading, Given, ReadersTypeOK
  <2>2. Register!Done(r)
    BY <1>2, <1>6, <2>1 DEF Reply, Register!Done, IsWhole
  <2>3. QED
    BY <2>2 DEF Register!Next
<1>7. QED
  BY <1>3, <1>4, <1>5, <1>6 DEF ReaderStep

(* Whatever overlaps with a load, the file is to a request the register of *)
(* CacheRegister: what it is given was saved while it loaded, in order,    *)
(* and is one whole value when no save came in between.                    *)
THEOREM ImplementsRegister == Spec => KeepsRegister
<1>1. Init => Register!Init
  <2>1. SUFFICES ASSUME Init PROVE Register!Init
    OBVIOUS
  <2>2. ~IsWhole(disk)
    BY <2>1, NoBlocks, BlocksAssumption DEF Init, IsWhole
  <2>3. Loading = {} /\ Given = [r \in Readers |-> <<>>]
    BY <2>1 DEF Init, Loading, Given
  <2>4. QED
    BY <2>1, <2>2, <2>3 DEF Init, Register!Init
<1>2. IInv /\ IInv' /\ [Next]_vars => [Register!Next]_(Register!vars)
  <2>1. ASSUME UNCHANGED vars PROVE UNCHANGED Register!vars
    BY <2>1 DEF vars, Register!vars, Loading, Given, IsWhole
  <2>2. QED
    BY <2>1, WriterSimulates, ReaderSimulates DEF Next
<1>3. QED
  BY <1>1, <1>2, Inductive, PTL DEF Spec, KeepsRegister, Register!Spec
----------------------------------------------------------------------------
(* That a request is answered rests on these two, and on fairness.         *)

(* A load finds another block, the end of the file, or has all it expects; *)
(* and the mutex that Get... waits for is held by a Write that has another *)
(* block to spill, or is done.                                             *)
RequestsGoOn ==
    \A r \in Readers :
        /\ rpc[r] = "loading" =>
              \/ Len(buf[r]) < Len(disk)
              \/ Len(buf[r]) < Blocks /\ Len(disk) <= Len(buf[r])
              \/ IsWhole(buf[r])
        /\ rpc[r] = "loaded" /\ wpc = "writing" =>
              Len(disk) < Blocks - 1 \/ Len(disk) = Blocks - 1

(* The steps that are left to a request, and to the save under way. *)
RequestLeft(r) ==
    CASE rpc[r] = "loading" -> 2 + Blocks - Len(buf[r])
      [] rpc[r] = "loaded" -> 1
      [] OTHER -> 0

SaveLeft ==
    CASE wpc = "save" -> Blocks + 4
      [] wpc = "opened" -> Blocks + 3
      [] wpc = "writing" -> Blocks + 1 - Len(disk)
      [] wpc = "closing" -> 1
      [] OTHER -> 0

(* Each of their steps lowers its own bound and leaves the other's alone,  *)
(* a truncation under the reader and a failed save included: only a new    *)
(* request or a new value begins anew.                                     *)
StepsRunOut ==
    [][/\ WriterStep => SaveLeft' < SaveLeft
       /\ \A r \in Readers :
             /\ ReaderStep(r) => RequestLeft(r)' < RequestLeft(r)
             /\ WriterStep \/ SetValue => RequestLeft(r)' = RequestLeft(r)
             /\ StartLoad(r) \/ ReaderStep(r) => SaveLeft' = SaveLeft]_vars

(* No request waits for a step that cannot come. *)
THEOREM NoRequestIsStuck == Spec => []RequestsGoOn
<1>1. IInv => RequestsGoOn
  <2> SUFFICES ASSUME IInv, NEW r \in Readers
               PROVE  /\ \/ Len(buf[r]) < Len(disk)
                         \/ Len(buf[r]) < Blocks /\ Len(disk) <= Len(buf[r])
                         \/ IsWhole(buf[r])
                      /\ wpc = "writing" =>
                            Len(disk) < Blocks - 1 \/ Len(disk) = Blocks - 1
    BY DEF RequestsGoOn
  <2>1. /\ Len(buf[r]) \in Nat /\ Len(buf[r]) <= Blocks
        /\ Len(disk) \in Nat /\ Len(disk) <= Blocks /\ Blocks \in Nat
        /\ wpc = "writing" => Len(disk) < Blocks
    BY BlocksAssumption
       DEF IInv, TypeOK, ReadersTypeOK, WriterTypeOK, WriterInv
  <2>2. QED
    BY <2>1 DEF IsWhole
<1>2. QED
  BY <1>1, Inductive, PTL

(* A writer's step brings the save nearer to its end. *)
LEMMA WriterRunsOut ==
    ASSUME IInv, WriterStep
    PROVE  SaveLeft' < SaveLeft
<1>1. Len(disk) \in Nat /\ Len(disk) <= Blocks /\ Blocks \in Nat \ {0}
  BY BlocksAssumption DEF IInv, TypeOK, WriterTypeOK
<1>2. CASE OpenFails
  BY <1>1, <1>2 DEF OpenFails, SaveLeft
<1>3. CASE OpenTruncates
  BY <1>1, <1>3 DEF OpenTruncates, SaveLeft
<1>4. CASE BeginWrite
  BY <1>1, <1>4 DEF BeginWrite, SaveLeft
<1>5. CASE SpillBlock
  <2>1. /\ Len(disk') = Len(disk) + 1
        /\ wpc = "writing" /\ wpc' = "writing"
    BY <1>5, NextBlock DEF IInv, TypeOK, SpillBlock
  <2>2. QED
    BY <1>1, <2>1 DEF SaveLeft
<1>6. CASE WriteFails \/ WriteDone
  BY <1>1, <1>6 DEF WriteFails, WriteDone, SaveLeft
<1>7. CASE CloseFlushes \/ CloseFails
  BY <1>7 DEF CloseFlushes, CloseFails, SaveLeft
<1>8. QED
  BY <1>2, <1>3, <1>4, <1>5, <1>6, <1>7 DEF WriterStep

(* A reader's step brings its request nearer to its answer. *)
LEMMA ReaderRunsOut ==
    ASSUME IInv, NEW r \in Readers, ReaderStep(r)
    PROVE  RequestLeft(r)' < RequestLeft(r)
<1>1. /\ rpc \in [Readers -> {"idle", "loading", "loaded"}]
      /\ buf \in [Readers -> Seq(1..MaxVersion)]
      /\ buf[r] \in Seq(1..MaxVersion) /\ disk \in Seq(1..MaxVersion)
      /\ Len(buf[r]) \in Nat /\ Len(buf[r]) <= Blocks
      /\ Blocks \in Nat \ {0}
  BY BlocksAssumption DEF IInv, TypeOK, ReadersTypeOK, WriterTypeOK
<1>2. CASE ReadBlock(r)
  <2>1. /\ rpc[r] = "loading" /\ rpc' = rpc
        /\ buf'[r] = Append(buf[r], disk[Len(buf[r]) + 1])
        /\ Len(buf[r]) < Len(disk)
    BY <1>1, <1>2 DEF ReadBlock
  <2>2. disk[Len(buf[r]) + 1] \in 1..MaxVersion
    <3>1. Len(buf[r]) + 1 \in 1..Len(disk)
      BY <1>1, <2>1
    <3>2. QED
      BY <1>1, <3>1, ElementOfSeq
  <2>3. Len(buf'[r]) = Len(buf[r]) + 1
    BY <1>1, <2>1, <2>2
  <2>4. QED
    BY <1>1, <2>1, <2>3 DEF RequestLeft
<1>3. CASE LoadSucceeds(r) \/ LoadFails(r)
  <2>1. rpc[r] = "loading" /\ rpc'[r] = "loaded"
    BY <1>1, <1>3 DEF LoadSucceeds, LoadFails
  <2>2. QED
    BY <1>1, <2>1 DEF RequestLeft
<1>4. CASE Reply(r)
  <2>1. rpc[r] = "loaded" /\ rpc'[r] = "idle"
    BY <1>1, <1>4 DEF Reply
  <2>2. QED
    BY <2>1 DEF RequestLeft
<1>5. QED
  BY <1>2, <1>3, <1>4 DEF ReaderStep

(* Saves and requests take finitely many steps each, whatever overlaps. *)
THEOREM RequestsAreFinite == Spec => StepsRunOut
<1>1. IInv /\ [Next]_vars =>
         [/\ WriterStep => SaveLeft' < SaveLeft
          /\ \A r \in Readers :
                /\ ReaderStep(r) => RequestLeft(r)' < RequestLeft(r)
                /\ WriterStep \/ SetValue =>
                      RequestLeft(r)' = RequestLeft(r)
                /\ StartLoad(r) \/ ReaderStep(r) =>
                      SaveLeft' = SaveLeft]_vars
  <2>1. ASSUME NEW r \in Readers, WriterStep \/ SetValue
        PROVE  RequestLeft(r)' = RequestLeft(r)
    BY <2>1 DEF WriterStep, SetValue, OpenFails, OpenTruncates, BeginWrite,
         SpillBlock, WriteFails, WriteDone, CloseFlushes, CloseFails,
         readerVars, RequestLeft
  <2>2. ASSUME NEW r \in Readers, StartLoad(r) \/ ReaderStep(r)
        PROVE  SaveLeft' = SaveLeft
    BY <2>2 DEF StartLoad, ReaderStep, ReadBlock, LoadSucceeds, LoadFails,
         Reply, writerVars, SaveLeft
  <2>3. QED
    BY <2>1, <2>2, WriterRunsOut, ReaderRunsOut
<1>2. QED
  BY <1>1, Inductive, PTL DEF StepsRunOut, Spec

=============================================================================
