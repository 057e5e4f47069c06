-------------------------- MODULE McweatherdProofs --------------------------
(***************************************************************************)
(* Proofs about the life of the process: the order in which main() takes   *)
(* SIGTERM over, writes the PID file, and gives both up again; and that a  *)
(* stop that was asked for goes on to its end.                             *)
(***************************************************************************)
EXTENDS Mcweatherd, TLAPS

(* Who handles SIGTERM follows from where main() is: nobody before         *)
(* PushHandler and once the signal_set is gone.                            *)
HandlerInv ==
    /\ main \in {"start", "push", "unwind"} => disposition = "default"
    /\ main \in {"savePid", "signalSet"} => disposition = "handler"
    /\ main \in {"server", "serving"} \cup (Stopping \ {"unwind"}) =>
          disposition = "signal_set"

(* The fetcher's thread is gone with a process that was killed. *)
KilledInv == main = "killed" => fetcher = "gone"

(* The PID file is there only while SIGTERM is caught. *)
PidFileInv ==
    main \in {"start", "push", "savePid", "destroy", "unwind"} => ~pidFile

IInv ==
    /\ TypeOK
    /\ HandlerInv
    /\ PidFileInv
    /\ KilledInv
    /\ NoStalePidFile
    /\ JoinedBeforeTeardown

----------------------------------------------------------------------------

(* The process begins with nothing but its default dispositions. *)
LEMMA InitIInv == Init => IInv
BY DEF Init, IInv, TypeOK, HandlerInv, PidFileInv, KilledInv,
       NoStalePidFile, JoinedBeforeTeardown, Starting, Stopping, Ended

(* Whether a notification was missed is one or the other. *)
LEMMA MissedIsBoolean == StopFetcher => missed' \in BOOLEAN
BY DEF StopFetcher

(* Each step of main() keeps the invariant: the dispositions change in     *)
(* step with it, and the PID file is written and removed in between.       *)
LEMMA MainKeepsIInv == IInv /\ (MainStep \/ RunThrows) => IInv'
<1> SUFFICES ASSUME IInv, MainStep \/ RunThrows PROVE IInv'
  OBVIOUS
<1> USE DEF IInv, TypeOK, HandlerInv, PidFileInv, KilledInv, NoStalePidFile,
            JoinedBeforeTeardown, Starting, Stopping, Ended
<1>1. CASE StartFetcher
  BY <1>1 DEF StartFetcher
<1>2. CASE StartFails
  BY <1>2 DEF StartFails
<1>3. CASE PushHandler
  BY <1>3 DEF PushHandler
<1>4. CASE SavePID
  BY <1>4 DEF SavePID
<1>5. CASE AddSignalSet
  BY <1>5 DEF AddSignalSet
<1>6. CASE BuildServer
  BY <1>6 DEF BuildServer
<1>7. CASE BuildServerThrows \/ RunThrows
  BY <1>7 DEF BuildServerThrows, RunThrows
<1>8. CASE BoostSignalHandler
  BY <1>8 DEF BoostSignalHandler
<1>9. CASE RunReturns
  BY <1>9 DEF RunReturns
<1>10. CASE StopServer
  BY <1>10 DEF StopServer
<1>11. CASE StopFetcher
  <2>1. missed' \in BOOLEAN
    BY <1>11, MissedIsBoolean, Zenon
  <2>2. /\ main = "notify" /\ main' = "join" /\ run' = FALSE
        /\ fetcher' \in {"woken", fetcher}
        /\ UNCHANGED <<disposition, queued, stopped, gotSigTerm, pidFile>>
    BY <1>11, Zenon DEF StopFetcher
  <2>. QED
    BY <2>1, <2>2
<1>12. CASE JoinFetcher
  BY <1>12 DEF JoinFetcher
<1>13. CASE RemovePID
  BY <1>13 DEF RemovePID
<1>14. CASE DropSignalSet
  BY <1>14 DEF DropSignalSet
<1>15. CASE Return
  BY <1>15 DEF Return
<1>. QED
  BY <1>1, <1>2, <1>3, <1>4, <1>5, <1>6, <1>7, <1>8, <1>9, <1>10, <1>11,
     <1>12, <1>13, <1>14, <1>15 DEF MainStep

(* A SIGTERM keeps it: the default action meets no PID file. *)
LEMMA SigTermKeepsIInv == IInv /\ SigTerm => IInv'
<1> SUFFICES ASSUME IInv, SigTerm PROVE IInv'
  OBVIOUS
<1> USE DEF IInv, TypeOK, HandlerInv, PidFileInv, KilledInv, NoStalePidFile,
            JoinedBeforeTeardown, Starting, Stopping, Ended
<1>1. CASE SigTermDefault
  BY <1>1 DEF SigTermDefault
<1>2. CASE SigTermHandler
  BY <1>2 DEF SigTermHandler
<1>3. CASE SigTermQueued
  BY <1>3 DEF SigTermQueued
<1>. QED
  BY <1>1, <1>2, <1>3 DEF SigTerm

(* The fetcher's thread keeps it: a joined thread takes no step. *)
LEMMA FetcherKeepsIInv == IInv /\ (FetcherStep \/ WakesUnasked) => IInv'
<1> SUFFICES ASSUME IInv, FetcherStep \/ WakesUnasked PROVE IInv'
  OBVIOUS
<1> USE DEF IInv, TypeOK, HandlerInv, PidFileInv, KilledInv, NoStalePidFile,
            JoinedBeforeTeardown, Starting, Stopping, Ended
<1>1. CASE BeginWait
  BY <1>1 DEF BeginWait
<1>2. CASE WaitExpires
  BY <1>2 DEF WaitExpires
<1>3. CASE IgnoreRun
  BY <1>3 DEF IgnoreRun
<1>4. CASE ReadRun
  BY <1>4 DEF ReadRun
<1>5. CASE WakesLate
  BY <1>5 DEF WakesLate
<1>6. CASE WakesUnasked
  BY <1>6 DEF WakesUnasked
<1>. QED
  BY <1>1, <1>2, <1>3, <1>4, <1>5, <1>6 DEF FetcherStep

(* Nothing else happens, after the end in particular. *)
LEMMA StepIInv == IInv /\ [Next]_vars => IInv'
<1> SUFFICES ASSUME IInv, [Next]_vars PROVE IInv'
  OBVIOUS
<1>1. CASE UNCHANGED vars
  BY <1>1 DEF IInv, TypeOK, HandlerInv, PidFileInv, KilledInv, NoStalePidFile,
              JoinedBeforeTeardown, vars
<1>2. CASE Next
  BY <1>1, <1>2, MainKeepsIInv, SigTermKeepsIInv, FetcherKeepsIInv
     DEF Next, Terminated
<1>. QED
  BY <1>1, <1>2

THEOREM Invariance == Spec => []IInv
<1>1. QED
  BY InitIInv, StepIInv, PTL DEF Spec

----------------------------------------------------------------------------

(* The process's state keeps its types; the context is stopped exactly     *)
(* when a SIGTERM was handled, and the signal_set holds one only while it  *)
(* is there.                                                               *)
THEOREM TypeCorrect == Spec => []TypeOK
<1>1. IInv => TypeOK
  BY DEF IInv
<1>. QED
  BY <1>1, Invariance, PTL

(* No end that main() provides for leaves the PID file behind, whenever    *)
(* and however often SIGTERM comes.                                        *)
THEOREM PidFileGoes == Spec => []NoStalePidFile
<1>1. IInv => NoStalePidFile
  BY DEF IInv
<1>. QED
  BY <1>1, Invariance, PTL

(* The fetcher's thread has been joined before anything it uses goes. *)
THEOREM JoinComesFirst == Spec => []JoinedBeforeTeardown
<1>1. IInv => JoinedBeforeTeardown
  BY DEF IInv
<1>. QED
  BY <1>1, Invariance, PTL

(* Once SigTermHandler is in place a SIGTERM kills nobody, until main()    *)
(* has nothing left to do: the only step to "killed" is the default        *)
(* action's, and the default is in force only outside.                     *)
THEOREM SigTermsAreCaught == Spec => SigTermIsCaught
<1>1. IInv /\ [Next]_vars =>
          [main' = "killed" => main \in {"start", "push", "unwind"}]_vars
  <2> SUFFICES ASSUME IInv, Next, main' = "killed"
               PROVE  main \in {"start", "push", "unwind"}
                      \/ UNCHANGED vars
    OBVIOUS
  <2>1. CASE MainStep
    BY <2>1
       DEF MainStep, StartFetcher, StartFails, PushHandler, SavePID,
           AddSignalSet, BuildServer, BuildServerThrows, BoostSignalHandler,
           RunReturns, StopServer, StopFetcher, JoinFetcher, RemovePID,
           DropSignalSet, Return
  <2>2. CASE SigTermDefault
    BY <2>2 DEF SigTermDefault, IInv, TypeOK, HandlerInv, Starting, Stopping,
                Ended
  <2>3. CASE SigTermHandler \/ SigTermQueued
    BY <2>3 DEF SigTermHandler, SigTermQueued, Ended
  <2>4. CASE FetcherStep \/ WakesUnasked
    BY <2>4 DEF FetcherStep, WakesUnasked, BeginWait, WaitExpires, IgnoreRun,
                ReadRun, WakesLate, IInv, KilledInv
  <2>5. CASE RunThrows \/ Terminated
    BY <2>5 DEF RunThrows, Terminated
  <2>. QED
    BY <2>1, <2>2, <2>3, <2>4, <2>5 DEF Next, SigTerm
<1>. QED
  BY <1>1, Invariance, PTL DEF Spec, SigTermIsCaught
----------------------------------------------------------------------------
(* A stop goes on.                                                         *)

(* What join() waits for, unless Stop's notification was missed.           *)
IsHeard == missed \/ (~run /\ fetcher \in {"woken", "done"})

(* main() gets past run() and the for loop with a SIGTERM only; up to      *)
(* Stop() the fetcher's thread runs.                                       *)
StopInv ==
    /\ main = "poll" => gotSigTerm
    /\ main \in (Starting \ {"start"}) \cup {"serving", "poll", "notify"} =>
          run /\ fetcher \in {"updating", "waiting", "woken", "expired"}
    /\ main = "join" => IsHeard

(* Each step keeps it. *)
LEMMA StopStep == TypeOK /\ StopInv /\ [Next]_vars => StopInv'
<1> SUFFICES ASSUME TypeOK, StopInv, [Next]_vars PROVE StopInv'
  OBVIOUS
<1> USE DEF StopInv, Starting
<1>1. CASE StartFetcher \/ StartFails \/ PushHandler \/ SavePID
  BY <1>1 DEF StartFetcher, StartFails, PushHandler, SavePID
<1>2. CASE AddSignalSet \/ BuildServer \/ BuildServerThrows \/ RunThrows
  BY <1>2 DEF AddSignalSet, BuildServer, BuildServerThrows, RunThrows
<1>3. CASE BoostSignalHandler \/ RunReturns \/ StopServer
  BY <1>3 DEF BoostSignalHandler, RunReturns, StopServer, TypeOK
<1>4. CASE StopFetcher
  <2>1. IsHeard'
    <3>1. ASSUME fetcher = "waiting" PROVE IsHeard'
      BY <1>4, <3>1, Zenon DEF StopFetcher, IsHeard
    <3>2. ASSUME fetcher = "woken" PROVE IsHeard'
      BY <1>4, <3>2, Zenon DEF StopFetcher, IsHeard
    <3>3. ASSUME fetcher \in {"updating", "expired"} PROVE IsHeard'
      <4>1. missed' = (fetcher \in {"updating", "expired"})
        BY <1>4, Zenon DEF StopFetcher
      <4>2. missed'
        BY <3>3, <4>1
      <4>3. QED
        BY <4>2, Zenon DEF IsHeard
    <3>4. fetcher \in {"updating", "waiting", "woken", "expired"}
      BY <1>4 DEF StopFetcher
    <3>5. QED
      BY <3>1, <3>2, <3>3, <3>4
  <2>2. main' = "join"
    BY <1>4 DEF StopFetcher
  <2>3. QED
    BY <2>1, <2>2
<1>5. CASE JoinFetcher \/ RemovePID \/ DropSignalSet \/ Return
  BY <1>5 DEF JoinFetcher, RemovePID, DropSignalSet, Return
<1>6. CASE SigTerm
  <2>1. IsHeard' = IsHeard \/ main' = "killed"
    BY <1>6 DEF SigTerm, SigTermDefault, SigTermHandler, SigTermQueued,
                IsHeard
  <2>2. QED
    BY <1>6, <2>1 DEF SigTerm, SigTermDefault, SigTermHandler, SigTermQueued
<1>7. CASE FetcherStep \/ WakesUnasked
  <2>1. IsHeard => IsHeard'
    <3>1. CASE BeginWait \/ WaitExpires \/ WakesUnasked \/ IgnoreRun
      BY <3>1, Zenon DEF BeginWait, WaitExpires, WakesUnasked, IgnoreRun,
                         IsHeard
    <3>2. CASE ReadRun
      BY <3>2 DEF ReadRun, IsHeard
    <3>3. CASE WakesLate
      <4>1. fetcher = "woken" /\ missed' = (missed \/ ~run)
        BY <3>3, Zenon DEF WakesLate
      <4>2. missed \/ ~run => missed'
        BY <4>1
      <4>3. QED
        BY <4>2, Zenon DEF IsHeard
    <3>4. QED
      BY <1>7, <3>1, <3>2, <3>3 DEF FetcherStep
  <2>2. /\ UNCHANGED <<main, run, gotSigTerm>>
        /\ run /\ fetcher \in {"updating", "waiting", "woken", "expired"} =>
              fetcher' \in {"updating", "waiting", "woken", "expired"}
    BY <1>7 DEF FetcherStep, BeginWait, WaitExpires, WakesUnasked, IgnoreRun,
                ReadRun, WakesLate
  <2>3. QED
    BY <2>1, <2>2
<1>8. CASE Terminated \/ UNCHANGED vars
  BY <1>8 DEF Terminated, vars, IsHeard
<1>. QED
  BY <1>1, <1>2, <1>3, <1>4, <1>5, <1>6, <1>7, <1>8
     DEF Next, MainStep

(* Once a SIGTERM was caught, main() waits for nothing that does not come, *)
(* unless Stop's notification was missed.                                  *)
THEOREM StopGoesOn == Spec => []StopIsUnderWay
<1>1. Init => StopInv
  BY DEF Init, StopInv, Starting
<1>2. TypeOK /\ StopInv => StopIsUnderWay
  BY DEF TypeOK, StopInv, IsHeard, StopIsUnderWay, MainGoesOn, Starting,
         Stopping, Ended
<1>. QED
  BY <1>1, <1>2, StopStep, TypeCorrect, PTL DEF Spec

(* How far main() is from an end. *)
MainLeft ==
    CASE main = "start" -> 13
      [] main = "push" -> 12
      [] main = "savePid" -> 11
      [] main = "signalSet" -> 10
      [] main = "server" -> 9
      [] main = "serving" -> IF stopped THEN 7 ELSE 8
      [] main = "poll" -> 6
      [] main = "notify" -> 5
      [] main = "join" -> 4
      [] main = "removePid" -> 3
      [] main = "destroy" -> 2
      [] main = "unwind" -> 1
      [] OTHER -> 0

(* No step of any thread takes main() further from it, and each of its own *)
(* brings it nearer.                                                       *)
MainRunsOut ==
    [][MainLeft' <= MainLeft /\ (MainStep => MainLeft' < MainLeft)]_vars

(* main() never goes back: its for loop ends with the first SIGTERM, so    *)
(* that, with StopGoesOn, a process that is asked to stop takes at most    *)
(* thirteen more steps of main().                                          *)
THEOREM MainIsFinite == Spec => MainRunsOut
<1>1. IInv /\ [Next]_vars =>
         [MainLeft' <= MainLeft /\ (MainStep => MainLeft' < MainLeft)]_vars
  <2> SUFFICES ASSUME IInv, Next
               PROVE  /\ MainLeft' <= MainLeft
                      /\ MainStep => MainLeft' < MainLeft
    OBVIOUS
  <2> USE DEF MainLeft
  <2>1. main \in Starting \cup {"serving"} \cup Stopping \cup Ended
    BY DEF IInv, TypeOK
  <2>2. MainLeft \in 0..13
    OBVIOUS
  <2>3. CASE MainStep
    <3>1. MainLeft' < MainLeft
      BY <2>3 DEF MainStep, StartFetcher, StartFails, PushHandler, SavePID,
           AddSignalSet, BuildServer, BuildServerThrows, BoostSignalHandler,
           RunReturns, StopServer, StopFetcher, JoinFetcher, RemovePID,
           DropSignalSet, Return
    <3>2. MainLeft' \in 0..13
      OBVIOUS
    <3>3. QED
      BY <2>2, <3>1, <3>2
  <2>4. CASE SigTerm
    <3>1. MainStep => MainLeft' < MainLeft
      BY <2>3
    <3>2. MainLeft' <= MainLeft
      BY <2>1, <2>4 DEF SigTerm, SigTermDefault, SigTermHandler,
           SigTermQueued, Starting, Stopping, Ended
    <3>3. QED
      BY <3>1, <3>2
  <2>5. CASE FetcherStep \/ WakesUnasked \/ Terminated
    <3>1. MainLeft' = MainLeft
      BY <2>5 DEF FetcherStep, WakesUnasked, Terminated, vars, BeginWait,
           WaitExpires, IgnoreRun, ReadRun, WakesLate
    <3>2. MainStep => MainLeft' < MainLeft
      BY <2>3
    <3>3. QED
      BY <2>2, <3>1, <3>2
  <2>6. CASE RunThrows
    <3>1. MainLeft' <= MainLeft
      BY <2>6 DEF RunThrows
    <3>2. MainStep => MainLeft' < MainLeft
      BY <2>3
    <3>3. QED
      BY <3>1, <3>2
  <2>. QED
    BY <2>3, <2>4, <2>5, <2>6 DEF Next
<1>. QED
  BY <1>1, Invariance, PTL DEF MainRunsOut, Spec

=============================================================================
