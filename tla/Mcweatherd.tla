---------------------------- MODULE Mcweatherd ----------------------------
(***************************************************************************)
(* The life of the mcweatherd process: main(), its SIGTERM handling and    *)
(* PID file, and the WeatherFetcher thread it starts and has to stop.      *)
(*                                                                         *)
(* WeatherFetcher::Run sleeps in _runcv.wait_for(lk, 900s) without a       *)
(* predicate and looks at _run only when the wait did not time out.  The   *)
(* critical sections under _runmtx do not block inside, so each is one     *)
(* step: "lock and begin to wait", "wake, lock again and read _run", and   *)
(* Stop's "clear _run and notify".  What the update functions do is the    *)
(* subject of WeatherFetcher; the server's threads that of Server.         *)
(***************************************************************************)
EXTENDS Naturals

VARIABLES
    main,         \* where main() is
    fetcher,      \* where the WeatherFetcher thread is
    run,          \* WeatherFetcher::_run
    disposition,  \* what SIGTERM does: the default, SigTermHandler or the
                  \* signal_set
    queued,       \* a SIGTERM caught by the signal_set, not yet dispatched
    stopped,      \* g_serverContext has been stopped
    gotSigTerm,   \* g_gotSigTerm
    pidFile,      \* the PID file exists
    missed        \* history: Stop's notification found nobody waiting in time

vars == <<main, fetcher, run, disposition, queued, stopped, gotSigTerm,
          pidFile, missed>>

(* main() before it serves, while it serves, while it stops; then the ways *)
(* a process ends: killed by the signal, an uncaught exception, return.    *)
Starting == {"start", "push", "savePid", "signalSet", "server"}
Stopping == {"poll", "notify", "join", "removePid", "destroy", "unwind"}
Ended    == {"failed", "killed", "aborted", "exited"}

(* Values; only a SIGTERM that has been handled stops the context, and the *)
(* signal_set has signals only while it is there.                          *)
TypeOK ==
    /\ main \in Starting \cup {"serving"} \cup Stopping \cup Ended
    /\ fetcher \in {"none", "updating", "waiting", "woken", "expired",
                    "done", "joined", "gone"}
    /\ run \in BOOLEAN
    /\ disposition \in {"default", "handler", "signal_set"}
    /\ queued \in BOOLEAN
    /\ stopped \in BOOLEAN
    /\ gotSigTerm \in BOOLEAN
    /\ pidFile \in BOOLEAN
    /\ missed \in BOOLEAN
    /\ stopped <=> gotSigTerm
    /\ queued => disposition = "signal_set"

Init ==
    /\ main = "start"
    /\ fetcher = "none"
    /\ run = FALSE
    /\ disposition = "default"
    /\ queued = FALSE
    /\ stopped = FALSE
    /\ gotSigTerm = FALSE
    /\ pidFile = FALSE
    /\ missed = FALSE

----------------------------------------------------------------------------
(* Faulty variants, to be put in the place of the action they are named    *)
(* after.                                                                  *)

(* The handler is in place only after the PID file. *)
PushHandler_Late ==
    /\ main = "push"
    /\ main' = "savePid"
    /\ UNCHANGED <<fetcher, run, disposition, queued, stopped, gotSigTerm,
                   pidFile, missed>>

(* Stop clears _run and forgets to notify. *)
StopFetcher_Silent ==
    /\ main = "notify"
    /\ main' = "join"
    /\ run' = FALSE
    /\ missed' = (fetcher \in {"updating", "expired"})
    /\ UNCHANGED <<fetcher, disposition, queued, stopped, gotSigTerm,
                   pidFile>>

(* Stop detaches the thread instead of joining it. *)
JoinFetcher_Detaches ==
    /\ main = "join"
    /\ main' = "removePid"
    /\ UNCHANGED <<fetcher, run, disposition, queued, stopped, gotSigTerm,
                   pidFile, missed>>

(* A second SIGTERM is left to the default action. *)
BoostSignalHandler_Resets ==
    /\ main = "serving" /\ queued /\ ~stopped
    /\ queued' = FALSE
    /\ gotSigTerm' = TRUE
    /\ stopped' = TRUE
    /\ disposition' = "default"
    /\ UNCHANGED <<main, fetcher, run, pidFile, missed>>

(* The handler only sets g_gotSigTerm. *)
SigTermHandler_NoStop ==
    /\ main \notin Ended /\ disposition = "handler"
    /\ gotSigTerm' = TRUE
    /\ UNCHANGED <<main, fetcher, run, disposition, queued, stopped, pidFile,
                   missed>>

----------------------------------------------------------------------------
(* main() *)

(* fetcher.Start(): _run is set before the thread exists. *)
StartFetcher ==
    /\ main = "start"
    /\ run' = TRUE
    /\ fetcher' = "updating"
    /\ main' = "push"
    /\ UNCHANGED <<disposition, queued, stopped, gotSigTerm, pidFile, missed>>

(* The configuration does not parse, or the thread cannot be created. *)
StartFails ==
    /\ main = "start"
    /\ main' = "failed"
    /\ \E started \in BOOLEAN : run' = started
    /\ UNCHANGED <<fetcher, disposition, queued, stopped, gotSigTerm, pidFile,
                   missed>>

(* sigHup.PushHandler(SigTermHandler) *)
PushHandler ==
    /\ main = "push"
    /\ disposition' = "handler"
    /\ main' = "savePid"
    /\ UNCHANGED <<fetcher, run, queued, stopped, gotSigTerm, pidFile,
                   missed>>

(* SavePID: a file that does not open is passed over in silence. *)
SavePID ==
    /\ main = "savePid"
    /\ \E opened \in BOOLEAN : pidFile' = (opened \/ pidFile)
    /\ main' = "signalSet"
    /\ UNCHANGED <<fetcher, run, disposition, queued, stopped, gotSigTerm,
                   missed>>

(* boostSignals takes SIGTERM over, and async_wait is under way. *)
AddSignalSet ==
    /\ main = "signalSet"
    /\ disposition' = "signal_set"
    /\ main' = "server"
    /\ UNCHANGED <<fetcher, run, queued, stopped, gotSigTerm, pidFile,
                   missed>>

(* The server is constructed and g_serverContext.run() entered. *)
BuildServer ==
    /\ main = "server"
    /\ main' = "serving"
    /\ UNCHANGED <<fetcher, run, disposition, queued, stopped, gotSigTerm,
                   pidFile, missed>>

(* bind() or open() throws in the server's constructor; main() catches     *)
(* nothing, and the process is gone without RemovePID.                     *)
BuildServerThrows ==
    /\ main = "server"
    /\ main' = "aborted"
    /\ fetcher' = "gone"
    /\ UNCHANGED <<run, disposition, queued, stopped, gotSigTerm, pidFile,
                   missed>>

(* The context dispatches the signal it caught. *)
BoostSignalHandler ==
    /\ main = "serving" /\ queued /\ ~stopped
    /\ queued' = FALSE
    /\ gotSigTerm' = TRUE
    /\ stopped' = TRUE
    /\ UNCHANGED <<main, fetcher, run, disposition, pidFile, missed>>

(* An accept handler throws (Server shows where), and run() with it; a     *)
(* handler that is under way when the context is stopped may, too.         *)
RunThrows ==
    /\ main = "serving"
    /\ main' = "aborted"
    /\ fetcher' = "gone"
    /\ UNCHANGED <<run, disposition, queued, stopped, gotSigTerm, pidFile,
                   missed>>

(* run() returns once the context is stopped, at once if it was before. *)
RunReturns ==
    /\ main = "serving" /\ stopped
    /\ main' = "poll"
    /\ UNCHANGED <<fetcher, run, disposition, queued, stopped, gotSigTerm,
                   pidFile, missed>>

(* The for loop sees g_gotSigTerm, and the server's acceptors are cancelled.*)
StopServer ==
    /\ main = "poll" /\ gotSigTerm
    /\ main' = "notify"
    /\ UNCHANGED <<fetcher, run, disposition, queued, stopped, gotSigTerm,
                   pidFile, missed>>

(* fetcher.Stop(), under _runmtx: whoever waits now is woken, nobody else. *)
StopFetcher ==
    /\ main = "notify"
    /\ main' = "join"
    /\ run' = FALSE
    /\ fetcher' = IF fetcher = "waiting" THEN "woken" ELSE fetcher
    /\ missed' = (fetcher \in {"updating", "expired"})
    /\ UNCHANGED <<disposition, queued, stopped, gotSigTerm, pidFile>>

(* _thread.join() *)
JoinFetcher ==
    /\ main = "join" /\ fetcher = "done"
    /\ fetcher' = "joined"
    /\ main' = "removePid"
    /\ UNCHANGED <<run, disposition, queued, stopped, gotSigTerm, pidFile,
                   missed>>

(* What std::remove returns is not looked at; here it removes the file. *)
RemovePID ==
    /\ main = "removePid"
    /\ pidFile' = FALSE
    /\ main' = "destroy"
    /\ UNCHANGED <<fetcher, run, disposition, queued, stopped, gotSigTerm,
                   missed>>

(* The locals of main() go in the reverse order: the server, then the      *)
(* signal_set, which leaves SIGTERM to its default action.                 *)
DropSignalSet ==
    /\ main = "destroy"
    /\ disposition' = "default"
    /\ queued' = FALSE
    /\ main' = "unwind"
    /\ UNCHANGED <<fetcher, run, stopped, gotSigTerm, pidFile, missed>>

(* ~WeatherFetcher with its second Stop() is last: the thread is not       *)
(* joinable any more.                                                      *)
Return ==
    /\ main = "unwind"
    /\ main' = "exited"
    /\ UNCHANGED <<fetcher, run, disposition, queued, stopped, gotSigTerm,
                   pidFile, missed>>

----------------------------------------------------------------------------
(* SIGTERM, at any moment and as often as one likes. *)

SigTermDefault ==
    /\ main \notin Ended /\ disposition = "default"
    /\ main' = "killed"
    /\ fetcher' = "gone"
    /\ UNCHANGED <<run, disposition, queued, stopped, gotSigTerm, pidFile,
                   missed>>

SigTermHandler ==
    /\ main \notin Ended /\ disposition = "handler"
    /\ gotSigTerm' = TRUE
    /\ stopped' = TRUE
    /\ UNCHANGED <<main, fetcher, run, disposition, queued, pidFile, missed>>

SigTermQueued ==
    /\ main \notin Ended /\ disposition = "signal_set"
    /\ queued' = TRUE
    /\ UNCHANGED <<main, fetcher, run, disposition, stopped, gotSigTerm,
                   pidFile, missed>>

----------------------------------------------------------------------------
(* WeatherFetcher::Run *)

(* The updates are over; the mutex is taken and the wait begins. *)
BeginWait ==
    /\ fetcher = "updating"
    /\ fetcher' = "waiting"
    /\ UNCHANGED <<main, run, disposition, queued, stopped, gotSigTerm,
                   pidFile, missed>>

(* 900 seconds are over. *)
WaitExpires ==
    /\ fetcher = "waiting"
    /\ fetcher' = "expired"
    /\ UNCHANGED <<main, run, disposition, queued, stopped, gotSigTerm,
                   pidFile, missed>>

(* wait_for may return without a notification. *)
WakesUnasked ==
    /\ fetcher = "waiting"
    /\ fetcher' = "woken"
    /\ UNCHANGED <<main, run, disposition, queued, stopped, gotSigTerm,
                   pidFile, missed>>

(* The result is timeout: keepRunning stays true, whatever _run is. *)
IgnoreRun ==
    /\ fetcher = "expired"
    /\ fetcher' = "updating"
    /\ UNCHANGED <<main, run, disposition, queued, stopped, gotSigTerm,
                   pidFile, missed>>

(* The result is not timeout: keepRunning = _run. *)
ReadRun ==
    /\ fetcher = "woken"
    /\ fetcher' = IF run THEN "updating" ELSE "done"
    /\ UNCHANGED <<main, run, disposition, queued, stopped, gotSigTerm,
                   pidFile, missed>>

(* The deadline passes between the wake-up and the lock: timeout again. *)
WakesLate ==
    /\ fetcher = "woken"
    /\ fetcher' = "expired"
    /\ missed' = (missed \/ ~run)
    /\ UNCHANGED <<main, run, disposition, queued, stopped, gotSigTerm,
                   pidFile>>

----------------------------------------------------------------------------

MainStep ==
    \/ StartFetcher
    \/ StartFails
    \/ PushHandler
    \/ SavePID
    \/ AddSignalSet
    \/ BuildServer
    \/ BuildServerThrows
    \/ BoostSignalHandler
    \/ RunReturns
    \/ StopServer
    \/ StopFetcher
    \/ JoinFetcher
    \/ RemovePID
    \/ DropSignalSet
    \/ Return

SigTerm == SigTermDefault \/ SigTermHandler \/ SigTermQueued

FetcherStep ==
    \/ BeginWait
    \/ WaitExpires
    \/ IgnoreRun
    \/ ReadRun
    \/ WakesLate

(* After an end every thread is gone with the process. *)
Terminated == main \in Ended /\ UNCHANGED vars

Next ==
    \/ MainStep
    \/ RunThrows
    \/ SigTerm
    \/ FetcherStep
    \/ WakesUnasked
    \/ Terminated

(* Both threads go on when they can: updates end, since a request to the   *)
(* service ends or fails, and the clock reaches every deadline.  Neither a *)
(* signal nor an exception nor a wake-up that nobody asked for is          *)
(* promised.                                                               *)
Fairness == WF_vars(MainStep) /\ WF_vars(FetcherStep)

Spec == Init /\ [][Next]_vars

FairSpec == Spec /\ Fairness

----------------------------------------------------------------------------
(* Properties. *)

(* A process that ended in any way main() provides for (SIGTERM before it  *)
(* was ready, a failed start, an orderly stop) leaves no PID file behind:  *)
(* SigTermHandler is in place before SavePID, and RemovePID comes before   *)
(* the return.  An exception, from the server's constructor or from a      *)
(* handler, is another matter.                                             *)
NoStalePidFile == main \in {"failed", "killed", "exited"} => ~pidFile

(* The fetcher, whose thread uses the object, is destroyed only after the  *)
(* thread has been joined, and the PID file is gone only then.             *)
JoinedBeforeTeardown ==
    main \in {"removePid", "destroy", "unwind", "exited"} =>
        fetcher = "joined"

(* From the moment SigTermHandler is installed a SIGTERM, early or         *)
(* repeated, never kills the process before its orderly stop is complete:  *)
(* the server stopped, the fetcher joined, the PID file removed.           *)
SigTermIsCaught ==
    [][main' = "killed" => main \in {"start", "push", "unwind"}]_vars

(* What main() can do as it is: it waits for a signal while it serves, and *)
(* for the fetcher's thread in join().                                     *)
MainGoesOn ==
    \/ main \in (Starting \cup Stopping) \ {"poll", "join"}
    \/ main = "serving" /\ (queued \/ stopped)
    \/ main = "poll" /\ gotSigTerm
    \/ main = "join" /\ fetcher = "done"

(* Once a SIGTERM was caught main() waits for nothing but a thread that    *)
(* has been woken and will see that _run is false: no order of the signal, *)
(* the handlers, the notification and the wait leaves it where nobody      *)
(* stops the context or wakes the thread, but for the missed notification. *)
StopIsUnderWay ==
    gotSigTerm \/ queued =>
        \/ main \in Ended \/ missed \/ MainGoesOn
        \/ main = "join" /\ fetcher = "woken" /\ ~run

(* A SIGTERM that was caught ends the process, unless Stop's notification  *)
(* was missed (the thread was not waiting, or its deadline passed first)   *)
(* or the server could not be built: nothing else holds main() up.         *)
StopsUnlessMissed ==
    gotSigTerm \/ queued ~> main \in Ended \/ missed

(* WeatherFetcher.hh says that Stop() stops the fetcher and returns.       *)
StopReturns == main = "join" ~> main # "join"

=============================================================================
