------------------------------ MODULE Server ------------------------------
(***************************************************************************)
(* The server side of mcweatherd: the accept loops, which run as handlers  *)
(* of one io_context and so one at a time on the main thread, the          *)
(* Responder objects they create, one thread per session, the clean-up of  *)
(* finished responders at the next accept, and the destruction of it all   *)
(* after a SIGTERM.                                                        *)
(*                                                                         *)
(* A connection is a model value; what its session says is left to the     *)
(* protocol, here it only lasts for some time.  _responders is kept as a   *)
(* set: CleanupResponders visits every element once and the order of the   *)
(* visits makes no difference to a responder.                              *)
(***************************************************************************)
EXTENDS Naturals, FiniteSets

CONSTANTS
    Conns,        \* connections clients may make
    Acceptors,    \* the configured addresses
    None          \* no connection, no acceptor

ASSUME NoneAssumption == None \notin Conns \cup Acceptors

VARIABLES
    proc,         \* where main() is: in run(), after it, or at its end
    io,           \* what the accept handler is doing
    at,           \* the acceptor whose handler it is
    cur,          \* the connection it was given
    todo,         \* the responders CleanupResponders has still to visit
    doneBefore,   \* history: responders finished when the clean-up began
    armed,        \* acceptors with an async_accept under way
    errored,      \* history: acceptors whose accept completed with an error
    backlog,      \* connections waiting at each acceptor
    responders,   \* Server::_responders
    running,      \* Responder::_running
    thread        \* each Responder's thread

mainVars == <<proc, io, at, cur, todo, doneBefore>>
vars == <<proc, io, at, cur, todo, doneBefore, armed, errored, backlog,
          responders, running, thread>>

TypeOK ==
    /\ proc \in {"running", "stopped", "destroying", "exited", "aborted"}
    /\ io \in {"idle", "cleanup", "failing", "admit", "construct", "spawned",
               "keep", "rearm"}
    /\ at \in Acceptors \cup {None}
    /\ cur \in Conns \cup {None}
    /\ todo \subseteq Conns
    /\ doneBefore \subseteq Conns
    /\ armed \subseteq Acceptors
    /\ errored \subseteq Acceptors
    /\ backlog \in [Acceptors -> SUBSET Conns]
    /\ responders \subseteq Conns
    /\ running \in [Conns -> BOOLEAN]
    /\ thread \in [Conns -> {"none", "waiting", "session", "over", "ended",
                             "joined", "closed"}]
    /\ at = None <=> io = "idle"
    /\ cur = None <=> io \in {"idle", "failing"}
    /\ todo # {} => io \in {"cleanup", "failing"}

(* Every address was opened, bound and given its first AcceptLoop. *)
Init ==
    /\ proc = "running"
    /\ io = "idle"
    /\ at = None
    /\ cur = None
    /\ todo = {}
    /\ doneBefore = {}
    /\ armed = Acceptors
    /\ errored = {}
    /\ backlog = [a \in Acceptors |-> {}]
    /\ responders = {}
    /\ running = [c \in Conns |-> FALSE]
    /\ thread = [c \in Conns |-> "none"]

(* A thread object that was started and not joined is joinable. *)
Joinable(c) == thread[c] \in {"session", "over", "ended"}

----------------------------------------------------------------------------
(* Faulty variants, to be put in the place of the definition they are      *)
(* named after.                                                            *)

(* The loop steps over the element behind the one it erased. *)
CleanupJoins_Skips(c) ==
    /\ io \in {"cleanup", "failing"} /\ c \in todo
    /\ ~running[c] /\ thread[c] = "ended"
    /\ thread' = [thread EXCEPT ![c] = "joined"]
    /\ responders' = responders \ {c}
    /\ \E next \in todo : todo' = todo \ {c, next}
    /\ UNCHANGED <<proc, io, at, cur, doneBefore, armed, errored, backlog,
                   running>>

(* A responder that is not running is erased without a join. *)
CleanupKeeps_Erases(c) ==
    /\ io \in {"cleanup", "failing"} /\ c \in todo
    /\ running[c] \/ ~Joinable(c)
    /\ todo' = todo \ {c}
    /\ responders' = responders \ {c}
    /\ UNCHANGED <<proc, io, at, cur, doneBefore, armed, errored, backlog,
                   running, thread>>

(* _running is never set. *)
MarkRunning_Forgotten ==
    /\ io = "spawned"
    /\ io' = "keep"
    /\ UNCHANGED <<proc, at, cur, todo, doneBefore, armed, errored, backlog,
                   responders, running, thread>>

(* A client that is not allowed ends the accept loop. *)
Refuse_Returns ==
    /\ io = "admit"
    /\ thread' = [thread EXCEPT ![cur] = "closed"]
    /\ io' = "idle"
    /\ at' = None
    /\ cur' = None
    /\ UNCHANGED <<proc, todo, doneBefore, armed, errored, backlog,
                   responders, running>>

(* The moved-from socket is taken for a connection still at hand. *)
Rearm_KeepsSocket ==
    /\ io = "rearm"
    /\ armed' = armed \cup {at}
    /\ io' = "idle"
    /\ at' = None
    /\ UNCHANGED <<proc, cur, todo, doneBefore, errored, backlog, responders,
                   running, thread>>

----------------------------------------------------------------------------
(* Clients. *)

Connect(c, a) ==
    /\ proc = "running" /\ thread[c] = "none"
    /\ thread' = [thread EXCEPT ![c] = "waiting"]
    /\ backlog' = [backlog EXCEPT ![a] = @ \cup {c}]
    /\ UNCHANGED <<mainVars, armed, errored, responders, running>>

----------------------------------------------------------------------------
(* The accept handler, on the main thread inside g_serverContext.run(). *)

Finished == {c \in responders : ~running[c] /\ thread[c] = "ended"}

(* async_accept completes with a socket; CleanupResponders comes first. *)
Accept(a, c) ==
    /\ proc = "running" /\ io = "idle"
    /\ a \in armed /\ c \in backlog[a]
    /\ armed' = armed \ {a}
    /\ backlog' = [backlog EXCEPT ![a] = @ \ {c}]
    /\ at' = a
    /\ cur' = c
    /\ io' = "cleanup"
    /\ todo' = responders
    /\ doneBefore' = Finished
    /\ UNCHANGED <<proc, errored, responders, running, thread>>

(* async_accept completes with an error (no descriptor left, a connection  *)
(* aborted); the clean-up is done all the same.                            *)
AcceptError(a) ==
    /\ proc = "running" /\ io = "idle"
    /\ a \in armed
    /\ armed' = armed \ {a}
    /\ at' = a
    /\ errored' = errored \cup {a}
    /\ io' = "failing"
    /\ todo' = responders
    /\ doneBefore' = Finished
    /\ UNCHANGED <<proc, cur, backlog, responders, running, thread>>

(* Join() returns false: the session runs, or there is no thread to join. *)
CleanupKeeps(c) ==
    /\ io \in {"cleanup", "failing"} /\ c \in todo
    /\ running[c] \/ ~Joinable(c)
    /\ todo' = todo \ {c}
    /\ UNCHANGED <<proc, io, at, cur, doneBefore, armed, errored, backlog,
                   responders, running, thread>>

(* Join() sees _running false and waits for the thread's end, no matter    *)
(* how far it is; the responder is erased.                                 *)
CleanupJoins(c) ==
    /\ io \in {"cleanup", "failing"} /\ c \in todo
    /\ ~running[c] /\ thread[c] = "ended"
    /\ thread' = [thread EXCEPT ![c] = "joined"]
    /\ responders' = responders \ {c}
    /\ todo' = todo \ {c}
    /\ UNCHANGED <<proc, io, at, cur, doneBefore, armed, errored, backlog,
                   running>>

CleanupDone ==
    /\ io = "cleanup" /\ todo = {}
    /\ io' = "admit"
    /\ UNCHANGED <<proc, at, cur, todo, doneBefore, armed, errored, backlog,
                   responders, running, thread>>

(* "Exiting AcceptLoop()": nobody arms this acceptor again. *)
LeaveLoop ==
    /\ io = "failing" /\ todo = {}
    /\ io' = "idle"
    /\ at' = None
    /\ UNCHANGED <<proc, cur, todo, doneBefore, armed, errored, backlog,
                   responders, running, thread>>

(* The peer is gone already: remote_endpoint() throws, out of the handler, *)
(* out of run() and out of main().                                         *)
RemoteEndpointThrows ==
    /\ io = "admit"
    /\ proc' = "aborted"
    /\ io' = "idle"
    /\ at' = None
    /\ cur' = None
    /\ UNCHANGED <<todo, doneBefore, armed, errored, backlog, responders,
                   running, thread>>

(* ClientAllowed says no. *)
Refuse ==
    /\ io = "admit"
    /\ thread' = [thread EXCEPT ![cur] = "closed"]
    /\ io' = "rearm"
    /\ UNCHANGED <<proc, at, cur, todo, doneBefore, armed, errored, backlog,
                   responders, running>>

(* ClientAllowed says yes; the Responder's constructor begins the key      *)
(* exchange, on this thread.                                               *)
Admit ==
    /\ io = "admit"
    /\ io' = "construct"
    /\ UNCHANGED <<proc, at, cur, todo, doneBefore, armed, errored, backlog,
                   responders, running, thread>>

(* Peer::Accept fails, after its timeouts at the latest: no thread, but a  *)
(* Responder all the same.                                                 *)
PeerAcceptFails ==
    /\ io = "construct"
    /\ thread' = [thread EXCEPT ![cur] = "closed"]
    /\ io' = "keep"
    /\ UNCHANGED <<proc, at, cur, todo, doneBefore, armed, errored, backlog,
                   responders, running>>

(* Peer::Accept succeeds, and std::thread cannot have another thread: its  *)
(* exception goes the same way.                                            *)
SpawnThrows ==
    /\ io = "construct"
    /\ proc' = "aborted"
    /\ io' = "idle"
    /\ at' = None
    /\ cur' = None
    /\ UNCHANGED <<todo, doneBefore, armed, errored, backlog, responders,
                   running, thread>>

(* Peer::Accept succeeds and the thread starts. *)
SpawnThread ==
    /\ io = "construct"
    /\ thread' = [thread EXCEPT ![cur] = "session"]
    /\ io' = "spawned"
    /\ UNCHANGED <<proc, at, cur, todo, doneBefore, armed, errored, backlog,
                   responders, running>>

(* _running.store(true), after the thread has been started. *)
MarkRunning ==
    /\ io = "spawned"
    /\ running' = [running EXCEPT ![cur] = TRUE]
    /\ io' = "keep"
    /\ UNCHANGED <<proc, at, cur, todo, doneBefore, armed, errored, backlog,
                   responders, thread>>

(* _responders.push_back *)
KeepResponder ==
    /\ io = "keep"
    /\ responders' = responders \cup {cur}
    /\ io' = "rearm"
    /\ UNCHANGED <<proc, at, cur, todo, doneBefore, armed, errored, backlog,
                   running, thread>>

(* AcceptLoop(a) again, and back to the context. *)
Rearm ==
    /\ io = "rearm"
    /\ armed' = armed \cup {at}
    /\ io' = "idle"
    /\ at' = None
    /\ cur' = None
    /\ UNCHANGED <<proc, todo, doneBefore, errored, backlog, responders,
                   running, thread>>

----------------------------------------------------------------------------
(* Responder::Run *)

(* Authentication fails, the client says goodbye or something unknown, a   *)
(* Receive or a Send fails: the peer is disconnected.                      *)
EndSession(c) ==
    /\ proc # "aborted" /\ thread[c] = "session"
    /\ thread' = [thread EXCEPT ![c] = "over"]
    /\ UNCHANGED <<mainVars, armed, errored, backlog, responders, running>>

(* _running.store(false), the last statement of the thread.  Its return is *)
(* part of this step: nothing comes in between that anybody could tell, a  *)
(* Join() that sees _running false meanwhile waits in thread::join for it. *)
EndThread(c) ==
    /\ proc # "aborted" /\ thread[c] = "over"
    /\ running' = [running EXCEPT ![c] = FALSE]
    /\ thread' = [thread EXCEPT ![c] = "ended"]
    /\ UNCHANGED <<mainVars, armed, errored, backlog, responders>>

----------------------------------------------------------------------------
(* SIGTERM: the context is stopped, run() returns between two handlers,    *)
(* Server::Stop cancels the acceptors (no handler runs any more), and      *)
(* after the fetcher main() destroys the server.                           *)
StopServer ==
    /\ proc = "running" /\ io = "idle"
    /\ proc' = "stopped"
    /\ armed' = {}
    /\ UNCHANGED <<io, at, cur, todo, doneBefore, errored, backlog,
                   responders, running, thread>>

BeginDestroy ==
    /\ proc = "stopped"
    /\ proc' = "destroying"
    /\ UNCHANGED <<io, at, cur, todo, doneBefore, armed, errored, backlog,
                   responders, running, thread>>

(* ~Responder: Join() joins the thread, or there never was one. *)
DestroyResponder(c) ==
    /\ proc = "destroying" /\ c \in responders
    /\ \/ ~running[c] /\ thread[c] = "ended"
       \/ ~Joinable(c)
    /\ responders' = responders \ {c}
    /\ thread' = [thread EXCEPT ![c] = IF @ = "ended" THEN "joined" ELSE @]
    /\ UNCHANGED <<mainVars, armed, errored, backlog, running>>

(* ~Responder: Join() sees _running and leaves the thread joinable, and    *)
(* ~thread calls std::terminate.                                           *)
DestroyTerminates(c) ==
    /\ proc = "destroying" /\ c \in responders
    /\ running[c] /\ Joinable(c)
    /\ proc' = "aborted"
    /\ UNCHANGED <<io, at, cur, todo, doneBefore, armed, errored, backlog,
                   responders, running, thread>>

Exit ==
    /\ proc = "destroying" /\ responders = {}
    /\ proc' = "exited"
    /\ UNCHANGED <<io, at, cur, todo, doneBefore, armed, errored, backlog,
                   responders, running, thread>>

----------------------------------------------------------------------------

HandlerStep ==
    \/ \E c \in Conns : CleanupKeeps(c) \/ CleanupJoins(c)
    \/ CleanupDone
    \/ LeaveLoop
    \/ RemoteEndpointThrows
    \/ Refuse
    \/ Admit
    \/ PeerAcceptFails
    \/ SpawnThrows
    \/ SpawnThread
    \/ MarkRunning
    \/ KeepResponder
    \/ Rearm

AcceptAny(a) == \E c \in Conns : Accept(a, c)

TearDown ==
    \/ BeginDestroy
    \/ \E c \in Conns : DestroyResponder(c) \/ DestroyTerminates(c)
    \/ Exit

Terminated == proc \in {"exited", "aborted"} /\ UNCHANGED vars

Next ==
    \/ \E c \in Conns, a \in Acceptors : Connect(c, a)
    \/ \E a \in Acceptors : AcceptAny(a) \/ AcceptError(a)
    \/ HandlerStep
    \/ \E c \in Conns : EndSession(c) \/ EndThread(c)
    \/ StopServer
    \/ TearDown
    \/ Terminated

(* A handler runs to its end: the key exchange and the exchange of         *)
(* identities have timeouts of two seconds each.  A finished session's     *)
(* thread ends, and the context dispatches the acceptors in turn, an       *)
(* acceptor's connections each in their turn.  A session lasts as long as  *)
(* its client likes.                                                       *)
Fairness ==
    /\ WF_vars(HandlerStep)
    /\ \A a \in Acceptors, c \in Conns : SF_vars(Accept(a, c))
    /\ \A c \in Conns : WF_vars(EndThread(c))

Spec == Init /\ [][Next]_vars

FairSpec == Spec /\ Fairness

----------------------------------------------------------------------------
(* Properties. *)

(* While the process lives no thread is without its Responder: an object   *)
(* leaves _responders only when its thread has been joined, or was never   *)
(* started, and until push_back the accept handler holds it.               *)
ThreadHasOwner ==
    \A c \in Conns : Joinable(c) =>
        c \in responders \/ (c = cur /\ io \in {"spawned", "keep"})

(* The main thread never waits for a client that takes its time: when      *)
(* Join() finds _running false on an element of _responders, the session   *)
(* is over (or there never was one), although _running is still false      *)
(* while the constructor runs.                                             *)
JoinNeverWaitsForClient ==
    \A c \in responders : ~running[c] => thread[c] # "session"

(* A clean-up erases every responder that had finished, with _running      *)
(* false, when it began.                                                   *)
CleanupReaps ==
    io \in {"admit", "construct", "spawned", "keep", "rearm"} =>
        doneBefore \cap responders = {}

(* While the server runs every acceptor waits for connections or is the    *)
(* one in the handler, unless an accept of its own has failed: no path     *)
(* through the handler, with a refusal, a key exchange that fails and a    *)
(* clean-up that joins, forgets to call AcceptLoop again.                  *)
LoopsGoOn ==
    proc = "running" =>
        \A a \in Acceptors : a \in armed \cup errored \cup {at}

(* A connection at an acceptor is taken up, refused or given a responder,  *)
(* as long as nothing ends the accept loop: other clients' sessions, key   *)
(* exchanges that fail and refusals do not.                                *)
ArmedAcceptorServes ==
    \A c \in Conns : \A a \in Acceptors :
        c \in backlog[a] ~>
            \/ c \notin backlog[a]
            \/ proc # "running"
            \/ a \in errored

(* What Responder.hh says of Join(): true, that is erased, when the thread *)
(* is joinable and done.                                                   *)
JoinJoinsTheDone ==
    \A c \in responders : thread[c] = "ended" => ~running[c]

(* What Server.hh says of Stop(): it stops the server, and the process is  *)
(* not to be aborted by it.                                                *)
StopIsOrderly == [][proc = "destroying" => proc' # "aborted"]_vars

=============================================================================
