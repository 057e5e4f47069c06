--------------------------- MODULE ServerProofs ---------------------------
(***************************************************************************)
(* Proofs about Server: its safety properties, and that no acceptor is     *)
(* forgotten and no handler stuck, for every set of connections and of     *)
(* addresses.                                                              *)
(***************************************************************************)
EXTENDS Server, TLAPS

(* A Responder in _responders has a thread of its own or never got one, a  *)
(* thread has its Responder, and a running session says so.                *)
OwnerInv ==
    /\ \A c \in responders :
          thread[c] \in {"session", "over", "ended", "closed"}
    /\ ThreadHasOwner
    /\ JoinNeverWaitsForClient

(* The connection in the handler's hands, from the accept to push_back;    *)
(* after run() there is no handler.                                        *)
HandlerInv ==
    /\ proc # "running" => io = "idle"
    /\ todo \subseteq responders
    /\ io \in {"cleanup", "admit", "construct"} => thread[cur] = "waiting"
    /\ io = "spawned" => Joinable(cur)
    /\ io = "keep" =>
        /\ thread[cur] \in {"session", "over", "ended", "closed"}
        /\ thread[cur] = "session" => running[cur]
    /\ io \in {"cleanup", "admit", "construct", "spawned", "keep"} =>
        cur \notin responders /\ cur \notin doneBefore

(* A waiting connection waits at one acceptor and is in nobody's hands. *)
QueueInv ==
    /\ \A a \in Acceptors : \A c \in backlog[a] : thread[c] = "waiting"
    /\ \A a, b \in Acceptors : \A c \in backlog[a] : c \in backlog[b] => a = b
    /\ io \in {"cleanup", "admit", "construct"} =>
        \A a \in Acceptors : cur \notin backlog[a]

(* The clean-up has still to visit what it will reap, and cannot pass it   *)
(* by: a finished responder stays finished.                                *)
ReapInv ==
    /\ io \in {"cleanup", "failing"} =>
        /\ doneBefore \cap responders \subseteq todo
        /\ \A c \in doneBefore \cap responders :
              ~running[c] /\ thread[c] = "ended"
    /\ CleanupReaps

IInv ==
    /\ TypeOK
    /\ OwnerInv
    /\ HandlerInv
    /\ QueueInv
    /\ ReapInv

----------------------------------------------------------------------------

(* The server begins with every acceptor armed and no responder. *)
LEMMA InitIInv == Init => IInv
BY NoneAssumption
   DEF Init, IInv, TypeOK, OwnerInv, ThreadHasOwner, JoinNeverWaitsForClient,
       HandlerInv, QueueInv, ReapInv, CleanupReaps, Joinable

(* Every step of the handlers, the sessions and main() keeps the types. *)
LEMMA TypeStep == IInv /\ [Next]_vars => TypeOK'
<1> SUFFICES ASSUME IInv, [Next]_vars PROVE TypeOK'
  OBVIOUS
<1> USE DEF IInv
<1>1. ASSUME NEW c \in Conns, NEW a \in Acceptors, Connect(c, a)
      PROVE  TypeOK'
  BY <1>1 DEF Connect, TypeOK, mainVars
<1>2. ASSUME NEW c \in Conns, NEW a \in Acceptors, Accept(a, c)
      PROVE  TypeOK'
  BY <1>2, NoneAssumption DEF Accept, TypeOK, Finished
<1>3. ASSUME NEW a \in Acceptors, AcceptError(a) PROVE TypeOK'
  BY <1>3, NoneAssumption DEF AcceptError, TypeOK, Finished
<1>4. ASSUME NEW c \in Conns, CleanupKeeps(c) PROVE TypeOK'
  BY <1>4 DEF CleanupKeeps, TypeOK
<1>5. ASSUME NEW c \in Conns, CleanupJoins(c) PROVE TypeOK'
  BY <1>5 DEF CleanupJoins, TypeOK
<1>6. CASE CleanupDone
  BY <1>6 DEF CleanupDone, TypeOK
<1>7. CASE LeaveLoop
  BY <1>7 DEF LeaveLoop, TypeOK
<1>8. CASE RemoteEndpointThrows \/ SpawnThrows
  BY <1>8 DEF RemoteEndpointThrows, SpawnThrows, TypeOK
<1>9. CASE Refuse
  BY <1>9 DEF Refuse, TypeOK
<1>10. CASE Admit
  BY <1>10 DEF Admit, TypeOK
<1>11. CASE PeerAcceptFails
  BY <1>11 DEF PeerAcceptFails, TypeOK
<1>12. CASE SpawnThread
  BY <1>12 DEF SpawnThread, TypeOK
<1>13. CASE MarkRunning
  BY <1>13 DEF MarkRunning, TypeOK
<1>14. CASE KeepResponder
  BY <1>14 DEF KeepResponder, TypeOK
<1>15. CASE Rearm
  BY <1>15 DEF Rearm, TypeOK
<1>16. ASSUME NEW c \in Conns, EndSession(c) PROVE TypeOK'
  BY <1>16 DEF EndSession, TypeOK, mainVars
<1>17. ASSUME NEW c \in Conns, EndThread(c) PROVE TypeOK'
  BY <1>17 DEF EndThread, TypeOK, mainVars
<1>18. CASE StopServer
  BY <1>18 DEF StopServer, TypeOK
<1>19. CASE BeginDestroy
  BY <1>19 DEF BeginDestroy, TypeOK
<1>20. ASSUME NEW c \in Conns, DestroyResponder(c) PROVE TypeOK'
  BY <1>20 DEF DestroyResponder, TypeOK, mainVars
<1>21. ASSUME NEW c \in Conns, DestroyTerminates(c) PROVE TypeOK'
  BY <1>21 DEF DestroyTerminates, TypeOK
<1>22. CASE Exit
  BY <1>22 DEF Exit, TypeOK
<1>23. CASE UNCHANGED vars
  BY <1>23 DEF vars, TypeOK
<1>24. QED
  BY <1>1, <1>2, <1>3, <1>4, <1>5, <1>6, <1>7, <1>8, <1>9, <1>10, <1>11,
     <1>12, <1>13, <1>14, <1>15, <1>16, <1>17, <1>18, <1>19, <1>20, <1>21,
     <1>22, <1>23
     DEF Next, AcceptAny, HandlerStep, TearDown, Terminated

(* A thread keeps its Responder, and Join() never waits for a client: the  *)
(* new responder is in the handler's hands until push_back.                *)
LEMMA OwnerStep == IInv /\ [Next]_vars => OwnerInv'
<1> SUFFICES ASSUME IInv, [Next]_vars PROVE OwnerInv'
  OBVIOUS
<1> USE DEF IInv
<1>1. ASSUME NEW c \in Conns, NEW a \in Acceptors, Connect(c, a)
      PROVE  OwnerInv'
  BY <1>1
     DEF Connect, OwnerInv, ThreadHasOwner, JoinNeverWaitsForClient,
         Joinable, mainVars
<1>2. ASSUME NEW c \in Conns, NEW a \in Acceptors, Accept(a, c)
      PROVE  OwnerInv'
  BY <1>2
     DEF Accept, OwnerInv, ThreadHasOwner, JoinNeverWaitsForClient, Joinable
<1>3. ASSUME NEW a \in Acceptors, AcceptError(a) PROVE OwnerInv'
  BY <1>3
     DEF AcceptError, OwnerInv, ThreadHasOwner, JoinNeverWaitsForClient,
         Joinable
<1>4. ASSUME NEW c \in Conns, CleanupKeeps(c) PROVE OwnerInv'
  BY <1>4
     DEF CleanupKeeps, OwnerInv, ThreadHasOwner, JoinNeverWaitsForClient,
         Joinable
<1>5. ASSUME NEW c \in Conns, CleanupJoins(c) PROVE OwnerInv'
  BY <1>5
     DEF CleanupJoins, TypeOK, OwnerInv, ThreadHasOwner,
         JoinNeverWaitsForClient, Joinable
<1>6. CASE CleanupDone
  BY <1>6
     DEF CleanupDone, OwnerInv, ThreadHasOwner, JoinNeverWaitsForClient,
         Joinable
<1>7. CASE LeaveLoop
  BY <1>7
     DEF LeaveLoop, OwnerInv, ThreadHasOwner, JoinNeverWaitsForClient,
         Joinable
<1>8. CASE RemoteEndpointThrows \/ SpawnThrows
  BY <1>8
     DEF RemoteEndpointThrows, SpawnThrows, OwnerInv, ThreadHasOwner,
         JoinNeverWaitsForClient, Joinable
<1>9. CASE Refuse
  BY <1>9
     DEF Refuse, OwnerInv, ThreadHasOwner, JoinNeverWaitsForClient, Joinable
<1>10. CASE Admit
  BY <1>10
     DEF Admit, OwnerInv, ThreadHasOwner, JoinNeverWaitsForClient, Joinable
<1>11. CASE PeerAcceptFails
  BY <1>11
     DEF PeerAcceptFails, OwnerInv, ThreadHasOwner, JoinNeverWaitsForClient,
         Joinable
<1>12. CASE SpawnThread
  BY <1>12
     DEF SpawnThread, OwnerInv, HandlerInv, ThreadHasOwner,
         JoinNeverWaitsForClient, Joinable
<1>13. CASE MarkRunning
  BY <1>13
     DEF MarkRunning, OwnerInv, ThreadHasOwner, JoinNeverWaitsForClient,
         Joinable
<1>14. CASE KeepResponder
  BY <1>14
     DEF KeepResponder, OwnerInv, HandlerInv, ThreadHasOwner,
         JoinNeverWaitsForClient, Joinable
<1>15. CASE Rearm
  BY <1>15
     DEF Rearm, OwnerInv, ThreadHasOwner, JoinNeverWaitsForClient, Joinable
<1>16. ASSUME NEW c \in Conns, EndSession(c) PROVE OwnerInv'
  BY <1>16
     DEF EndSession, OwnerInv, ThreadHasOwner, JoinNeverWaitsForClient,
         Joinable, mainVars
<1>17. ASSUME NEW c \in Conns, EndThread(c) PROVE OwnerInv'
  BY <1>17
     DEF EndThread, OwnerInv, ThreadHasOwner, JoinNeverWaitsForClient,
         Joinable, mainVars
<1>18. CASE StopServer
  BY <1>18
     DEF StopServer, OwnerInv, ThreadHasOwner, JoinNeverWaitsForClient,
         Joinable
<1>19. CASE BeginDestroy
  BY <1>19
     DEF BeginDestroy, OwnerInv, ThreadHasOwner, JoinNeverWaitsForClient,
         Joinable
<1>20. ASSUME NEW c \in Conns, DestroyResponder(c) PROVE OwnerInv'
  BY <1>20
     DEF DestroyResponder, TypeOK, OwnerInv, HandlerInv, ThreadHasOwner,
         JoinNeverWaitsForClient, Joinable
<1>21. ASSUME NEW c \in Conns, DestroyTerminates(c) PROVE OwnerInv'
  BY <1>21
     DEF DestroyTerminates, OwnerInv, ThreadHasOwner,
         JoinNeverWaitsForClient, Joinable
<1>22. CASE Exit
  BY <1>22
     DEF Exit, OwnerInv, ThreadHasOwner, JoinNeverWaitsForClient, Joinable
<1>23. CASE UNCHANGED vars
  BY <1>23
     DEF vars, OwnerInv, ThreadHasOwner, JoinNeverWaitsForClient, Joinable
<1>24. QED
  BY <1>1, <1>2, <1>3, <1>4, <1>5, <1>6, <1>7, <1>8, <1>9, <1>10, <1>11,
     <1>12, <1>13, <1>14, <1>15, <1>16, <1>17, <1>18, <1>19, <1>20, <1>21,
     <1>22, <1>23
     DEF Next, AcceptAny, HandlerStep, TearDown, Terminated

(* The accept handler's connection stays its own from one step to the      *)
(* next; the other threads do not touch it.                                *)
LEMMA HandlerStepInv == IInv /\ [Next]_vars => HandlerInv'
<1> SUFFICES ASSUME IInv, [Next]_vars PROVE HandlerInv'
  OBVIOUS
<1> USE DEF IInv
<1>1. ASSUME NEW c \in Conns, NEW a \in Acceptors, Connect(c, a)
      PROVE  HandlerInv'
  BY <1>1 DEF Connect, HandlerInv, Joinable, mainVars
<1>2. ASSUME NEW c \in Conns, NEW a \in Acceptors, Accept(a, c)
      PROVE  HandlerInv'
  BY <1>2 DEF Accept, OwnerInv, HandlerInv, QueueInv, Finished
<1>3. ASSUME NEW a \in Acceptors, AcceptError(a) PROVE HandlerInv'
  BY <1>3 DEF AcceptError, HandlerInv
<1>4. ASSUME NEW c \in Conns, CleanupKeeps(c) PROVE HandlerInv'
  BY <1>4 DEF CleanupKeeps, HandlerInv
<1>5. ASSUME NEW c \in Conns, CleanupJoins(c) PROVE HandlerInv'
  BY <1>5 DEF CleanupJoins, HandlerInv
<1>6. CASE CleanupDone
  BY <1>6 DEF CleanupDone, HandlerInv
<1>7. CASE LeaveLoop
  BY <1>7 DEF LeaveLoop, HandlerInv
<1>8. CASE RemoteEndpointThrows \/ SpawnThrows
  BY <1>8 DEF RemoteEndpointThrows, SpawnThrows, HandlerInv
<1>9. CASE Refuse
  BY <1>9 DEF Refuse, HandlerInv
<1>10. CASE Admit
  BY <1>10 DEF Admit, HandlerInv
<1>11. CASE PeerAcceptFails
  BY <1>11 DEF PeerAcceptFails, TypeOK, HandlerInv
<1>12. CASE SpawnThread
  BY <1>12 DEF SpawnThread, TypeOK, HandlerInv, Joinable
<1>13. CASE MarkRunning
  BY <1>13 DEF MarkRunning, TypeOK, HandlerInv, Joinable
<1>14. CASE KeepResponder
  BY <1>14 DEF KeepResponder, HandlerInv
<1>15. CASE Rearm
  BY <1>15 DEF Rearm, HandlerInv
<1>16. ASSUME NEW c \in Conns, EndSession(c) PROVE HandlerInv'
  BY <1>16 DEF EndSession, HandlerInv, Joinable, mainVars
<1>17. ASSUME NEW c \in Conns, EndThread(c) PROVE HandlerInv'
  BY <1>17 DEF EndThread, HandlerInv, Joinable, mainVars
<1>18. CASE StopServer
  BY <1>18 DEF StopServer, HandlerInv
<1>19. CASE BeginDestroy
  BY <1>19 DEF BeginDestroy, HandlerInv
<1>20. ASSUME NEW c \in Conns, DestroyResponder(c) PROVE HandlerInv'
  BY <1>20 DEF DestroyResponder, TypeOK, HandlerInv, mainVars
<1>21. ASSUME NEW c \in Conns, DestroyTerminates(c) PROVE HandlerInv'
  BY <1>21 DEF DestroyTerminates, HandlerInv
<1>22. CASE Exit
  BY <1>22 DEF Exit, HandlerInv
<1>23. CASE UNCHANGED vars
  BY <1>23 DEF vars, HandlerInv, Joinable
<1>24. QED
  BY <1>1, <1>2, <1>3, <1>4, <1>5, <1>6, <1>7, <1>8, <1>9, <1>10, <1>11,
     <1>12, <1>13, <1>14, <1>15, <1>16, <1>17, <1>18, <1>19, <1>20, <1>21,
     <1>22, <1>23
     DEF Next, AcceptAny, HandlerStep, TearDown, Terminated

(* No connection is taken twice from the acceptors' backlogs. *)
LEMMA QueueStep == IInv /\ [Next]_vars => QueueInv'
<1> SUFFICES ASSUME IInv, [Next]_vars PROVE QueueInv'
  OBVIOUS
<1> USE DEF IInv
<1>1. ASSUME NEW c \in Conns, NEW a \in Acceptors, Connect(c, a)
      PROVE  QueueInv'
  BY <1>1 DEF Connect, TypeOK, HandlerInv, QueueInv, mainVars
<1>2. ASSUME NEW c \in Conns, NEW a \in Acceptors, Accept(a, c)
      PROVE  QueueInv'
  BY <1>2 DEF Accept, TypeOK, QueueInv
<1>3. ASSUME NEW a \in Acceptors, AcceptError(a) PROVE QueueInv'
  BY <1>3 DEF AcceptError, QueueInv
<1>4. ASSUME NEW c \in Conns, CleanupKeeps(c) PROVE QueueInv'
  BY <1>4 DEF CleanupKeeps, QueueInv
<1>5. ASSUME NEW c \in Conns, CleanupJoins(c) PROVE QueueInv'
  BY <1>5 DEF CleanupJoins, QueueInv
<1>6. CASE CleanupDone
  BY <1>6 DEF CleanupDone, QueueInv
<1>7. CASE LeaveLoop
  BY <1>7 DEF LeaveLoop, QueueInv
<1>8. CASE RemoteEndpointThrows \/ SpawnThrows
  BY <1>8 DEF RemoteEndpointThrows, SpawnThrows, QueueInv
<1>9. CASE Refuse
  BY <1>9 DEF Refuse, QueueInv
<1>10. CASE Admit
  BY <1>10 DEF Admit, QueueInv
<1>11. CASE PeerAcceptFails
  BY <1>11 DEF PeerAcceptFails, QueueInv
<1>12. CASE SpawnThread
  BY <1>12 DEF SpawnThread, QueueInv
<1>13. CASE MarkRunning
  BY <1>13 DEF MarkRunning, QueueInv
<1>14. CASE KeepResponder
  BY <1>14 DEF KeepResponder, QueueInv
<1>15. CASE Rearm
  BY <1>15 DEF Rearm, QueueInv
<1>16. ASSUME NEW c \in Conns, EndSession(c) PROVE QueueInv'
  BY <1>16 DEF EndSession, QueueInv, mainVars
<1>17. ASSUME NEW c \in Conns, EndThread(c) PROVE QueueInv'
  BY <1>17 DEF EndThread, QueueInv, mainVars
<1>18. CASE StopServer
  BY <1>18 DEF StopServer, QueueInv
<1>19. CASE BeginDestroy
  BY <1>19 DEF BeginDestroy, QueueInv
<1>20. ASSUME NEW c \in Conns, DestroyResponder(c) PROVE QueueInv'
  BY <1>20 DEF DestroyResponder, QueueInv, mainVars
<1>21. ASSUME NEW c \in Conns, DestroyTerminates(c) PROVE QueueInv'
  BY <1>21 DEF DestroyTerminates, QueueInv
<1>22. CASE Exit
  BY <1>22 DEF Exit, QueueInv
<1>23. CASE UNCHANGED vars
  BY <1>23 DEF vars, QueueInv
<1>24. QED
  BY <1>1, <1>2, <1>3, <1>4, <1>5, <1>6, <1>7, <1>8, <1>9, <1>10, <1>11,
     <1>12, <1>13, <1>14, <1>15, <1>16, <1>17, <1>18, <1>19, <1>20, <1>21,
     <1>22, <1>23
     DEF Next, AcceptAny, HandlerStep, TearDown, Terminated

(* CleanupResponders loses no finished responder while the sessions go on  *)
(* ending.                                                                 *)
LEMMA ReapStep == IInv /\ [Next]_vars => ReapInv'
<1> SUFFICES ASSUME IInv, [Next]_vars PROVE ReapInv'
  OBVIOUS
<1> USE DEF IInv
<1>1. ASSUME NEW c \in Conns, NEW a \in Acceptors, Connect(c, a)
      PROVE  ReapInv'
  BY <1>1 DEF Connect, ReapInv, CleanupReaps, mainVars
<1>2. ASSUME NEW c \in Conns, NEW a \in Acceptors, Accept(a, c)
      PROVE  ReapInv'
  BY <1>2 DEF Accept, ReapInv, CleanupReaps, Finished
<1>3. ASSUME NEW a \in Acceptors, AcceptError(a) PROVE ReapInv'
  BY <1>3 DEF AcceptError, ReapInv, CleanupReaps, Finished
<1>4. ASSUME NEW c \in Conns, CleanupKeeps(c) PROVE ReapInv'
  BY <1>4 DEF CleanupKeeps, ReapInv, CleanupReaps, Joinable
<1>5. ASSUME NEW c \in Conns, CleanupJoins(c) PROVE ReapInv'
  BY <1>5 DEF CleanupJoins, ReapInv, CleanupReaps
<1>6. CASE CleanupDone
  BY <1>6 DEF CleanupDone, ReapInv, CleanupReaps
<1>7. CASE LeaveLoop
  BY <1>7 DEF LeaveLoop, ReapInv, CleanupReaps
<1>8. CASE RemoteEndpointThrows \/ SpawnThrows
  BY <1>8 DEF RemoteEndpointThrows, SpawnThrows, ReapInv, CleanupReaps
<1>9. CASE Refuse
  BY <1>9 DEF Refuse, ReapInv, CleanupReaps
<1>10. CASE Admit
  BY <1>10 DEF Admit, ReapInv, CleanupReaps
<1>11. CASE PeerAcceptFails
  BY <1>11 DEF PeerAcceptFails, ReapInv, CleanupReaps
<1>12. CASE SpawnThread
  BY <1>12 DEF SpawnThread, ReapInv, CleanupReaps
<1>13. CASE MarkRunning
  BY <1>13 DEF MarkRunning, ReapInv, CleanupReaps
<1>14. CASE KeepResponder
  BY <1>14 DEF KeepResponder, HandlerInv, ReapInv, CleanupReaps
<1>15. CASE Rearm
  BY <1>15 DEF Rearm, ReapInv, CleanupReaps
<1>16. ASSUME NEW c \in Conns, EndSession(c) PROVE ReapInv'
  BY <1>16 DEF EndSession, ReapInv, CleanupReaps, mainVars
<1>17. ASSUME NEW c \in Conns, EndThread(c) PROVE ReapInv'
  BY <1>17 DEF EndThread, ReapInv, CleanupReaps, mainVars
<1>18. CASE StopServer
  BY <1>18 DEF StopServer, ReapInv, CleanupReaps
<1>19. CASE BeginDestroy
  BY <1>19 DEF BeginDestroy, ReapInv, CleanupReaps
<1>20. ASSUME NEW c \in Conns, DestroyResponder(c) PROVE ReapInv'
  BY <1>20 DEF DestroyResponder, ReapInv, CleanupReaps, mainVars
<1>21. ASSUME NEW c \in Conns, DestroyTerminates(c) PROVE ReapInv'
  BY <1>21 DEF DestroyTerminates, ReapInv, CleanupReaps
<1>22. CASE Exit
  BY <1>22 DEF Exit, ReapInv, CleanupReaps
<1>23. CASE UNCHANGED vars
  BY <1>23 DEF vars, ReapInv, CleanupReaps
<1>24. QED
  BY <1>1, <1>2, <1>3, <1>4, <1>5, <1>6, <1>7, <1>8, <1>9, <1>10, <1>11,
     <1>12, <1>13, <1>14, <1>15, <1>16, <1>17, <1>18, <1>19, <1>20, <1>21,
     <1>22, <1>23
     DEF Next, AcceptAny, HandlerStep, TearDown, Terminated

(* Steps of the main thread and of the sessions keep the invariant. *)
LEMMA Step == IInv /\ [Next]_vars => IInv'
BY TypeStep, OwnerStep, HandlerStepInv, QueueStep, ReapStep DEF IInv

----------------------------------------------------------------------------

(* The inductive invariant holds throughout, for every set of clients and  *)
(* of configured addresses.                                                *)
THEOREM Inductive == Spec => []IInv
BY InitIInv, Step, PTL DEF Spec

(* The handler's connection and acceptor are there exactly while it runs,  *)
(* and the clean-up's list is empty outside it.                            *)
THEOREM TypeCorrect == Spec => []TypeOK
<1>1. IInv => TypeOK
  BY DEF IInv
<1>2. QED
  BY Inductive, <1>1, PTL

(* No thread object is dropped while joinable, before the server is torn   *)
(* down and by DestroyResponder in it: ~thread does not call terminate.    *)
THEOREM ThreadsHaveOwners == Spec => []ThreadHasOwner
<1>1. IInv => ThreadHasOwner
  BY DEF IInv, OwnerInv
<1>2. QED
  BY Inductive, <1>1, PTL

(* A Join() on the main thread never waits for a session a client keeps    *)
(* open, although the constructor sets _running after starting the thread. *)
THEOREM JoinsDoNotWait == Spec => []JoinNeverWaitsForClient
<1>1. IInv => JoinNeverWaitsForClient
  BY DEF IInv, OwnerInv
<1>2. QED
  BY Inductive, <1>1, PTL

(* A clean-up reaps every responder that had finished when it began.       *)
THEOREM CleanupsReap == Spec => []CleanupReaps
<1>1. IInv => CleanupReaps
  BY DEF IInv, ReapInv
<1>2. QED
  BY Inductive, <1>1, PTL
----------------------------------------------------------------------------
(* What ArmedAcceptorServes rests on, besides fairness: that an acceptor   *)
(* is not forgotten, and that a handler comes to its end.                  *)

(* An acceptor that is not armed any more is in the handler's hands or had *)
(* an error.                                                               *)
LoopInv == LoopsGoOn /\ (io = "failing" => at \in errored)

LEMMA LoopStep == TypeOK /\ LoopInv /\ [Next]_vars => LoopInv'
<1> SUFFICES ASSUME TypeOK, LoopInv, [Next]_vars PROVE LoopInv'
  OBVIOUS
<1> USE DEF LoopInv, LoopsGoOn
<1>1. ASSUME NEW c \in Conns, NEW a \in Acceptors, Accept(a, c)
      PROVE  LoopInv'
  <2>1. proc = "running" /\ at = None /\ None \notin Acceptors
    BY <1>1, NoneAssumption DEF Accept, TypeOK
  <2>2. /\ armed' = armed \ {a} /\ at' = a /\ errored' = errored
        /\ io' = "cleanup"
    BY <1>1 DEF Accept
  <2>3. QED
    BY <2>1, <2>2
<1>2. ASSUME NEW a \in Acceptors, AcceptError(a) PROVE LoopInv'
  <2>1. proc = "running" /\ at = None /\ None \notin Acceptors
    BY <1>2, NoneAssumption DEF AcceptError, TypeOK
  <2>2. /\ armed' = armed \ {a} /\ at' = a /\ errored' = errored \cup {a}
    BY <1>2 DEF AcceptError
  <2>3. QED
    BY <2>1, <2>2
<1>3. CASE HandlerStep
  <2>1. CASE LeaveLoop
    BY <2>1 DEF LeaveLoop
  <2>2. CASE Rearm
    BY <2>2 DEF Rearm
  <2>3. CASE RemoteEndpointThrows \/ SpawnThrows
    BY <2>3 DEF RemoteEndpointThrows, SpawnThrows
  <2>4. CASE \E c \in Conns : CleanupKeeps(c) \/ CleanupJoins(c)
    BY <2>4 DEF CleanupKeeps, CleanupJoins
  <2>5. CASE CleanupDone \/ Refuse \/ Admit \/ PeerAcceptFails
    BY <2>5 DEF CleanupDone, Refuse, Admit, PeerAcceptFails
  <2>6. CASE SpawnThread \/ MarkRunning \/ KeepResponder
    BY <2>6 DEF SpawnThread, MarkRunning, KeepResponder
  <2>7. QED
    BY <1>3, <2>1, <2>2, <2>3, <2>4, <2>5, <2>6 DEF HandlerStep
<1>4. ASSUME NEW c \in Conns,
             EndSession(c) \/ EndThread(c)
                \/ \E a \in Acceptors : Connect(c, a)
      PROVE  LoopInv'
  BY <1>4 DEF EndSession, EndThread, Connect, mainVars
<1>5. CASE StopServer \/ BeginDestroy \/ Exit
  BY <1>5 DEF StopServer, BeginDestroy, Exit, TypeOK
<1>6. ASSUME NEW c \in Conns, DestroyResponder(c) \/ DestroyTerminates(c)
      PROVE  LoopInv'
  BY <1>6 DEF DestroyResponder, DestroyTerminates, mainVars
<1>7. CASE UNCHANGED vars
  BY <1>7 DEF vars
<1>8. QED
  BY <1>1, <1>2, <1>3, <1>4, <1>5, <1>6, <1>7
     DEF Next, AcceptAny, TearDown, Terminated

(* No path through the accept handler forgets its acceptor. *)
THEOREM AcceptLoopsGoOn == Spec => []LoopsGoOn
<1>1. Init => LoopInv
  BY DEF Init, LoopInv, LoopsGoOn
<1>2. LoopInv => LoopsGoOn
  BY DEF LoopInv
<1>3. QED
  BY <1>1, <1>2, LoopStep, TypeCorrect, PTL DEF Spec

(* A responder in _responders whose session is over still says that it     *)
(* runs, and so does the one in the handler's hands that is about to get   *)
(* there.                                                                  *)
SaysSo(c) == thread[c] = "over" => running[c]

OverInv ==
    /\ \A c \in responders : SaysSo(c)
    /\ io = "keep" => SaysSo(cur)

LEMMA OverStep == IInv /\ OverInv /\ [Next]_vars => OverInv'
<1> SUFFICES ASSUME TypeOK, OwnerInv, HandlerInv, OverInv, [Next]_vars
             PROVE  OverInv'
  BY DEF IInv
<1> USE DEF OverInv, SaysSo
<1>1. ASSUME NEW c \in Conns, NEW a \in Acceptors, Connect(c, a)
      PROVE  OverInv'
  BY <1>1 DEF Connect, TypeOK, mainVars
<1>2. ASSUME NEW a \in Acceptors, AcceptAny(a) \/ AcceptError(a)
      PROVE  OverInv'
  BY <1>2 DEF AcceptAny, Accept, AcceptError
<1>3. ASSUME NEW c \in Conns, CleanupKeeps(c) \/ CleanupJoins(c)
      PROVE  OverInv'
  BY <1>3 DEF CleanupKeeps, CleanupJoins, TypeOK
<1>4. CASE \/ CleanupDone \/ LeaveLoop \/ RemoteEndpointThrows
           \/ SpawnThrows \/ Admit \/ Rearm
  BY <1>4 DEF CleanupDone, LeaveLoop, RemoteEndpointThrows, SpawnThrows,
              Admit, Rearm
<1>5. CASE Refuse \/ PeerAcceptFails \/ SpawnThread
  BY <1>5 DEF Refuse, PeerAcceptFails, SpawnThread, TypeOK
<1>6. CASE MarkRunning
  BY <1>6 DEF MarkRunning, TypeOK
<1>7. CASE KeepResponder
  BY <1>7 DEF KeepResponder
<1>8. ASSUME NEW c \in Conns, EndSession(c) PROVE OverInv'
  BY <1>8 DEF EndSession, TypeOK, OwnerInv, JoinNeverWaitsForClient,
              HandlerInv, mainVars
<1>9. ASSUME NEW c \in Conns, EndThread(c) PROVE OverInv'
  BY <1>9 DEF EndThread, TypeOK, mainVars
<1>10. CASE StopServer \/ BeginDestroy \/ Exit
  BY <1>10 DEF StopServer, BeginDestroy, Exit
<1>11. ASSUME NEW c \in Conns, DestroyResponder(c) \/ DestroyTerminates(c)
       PROVE  OverInv'
  BY <1>11 DEF DestroyResponder, DestroyTerminates, TypeOK, mainVars
<1>12. CASE UNCHANGED vars
  BY <1>12 DEF vars
<1>13. QED
  BY <1>1, <1>2, <1>3, <1>4, <1>5, <1>6, <1>7, <1>8, <1>9, <1>10, <1>11,
     <1>12 DEF Next, HandlerStep, TearDown, Terminated

(* CleanupResponders can pass any responder it has still to visit, or join *)
(* it: it does not stand before one whose thread has still to end.  (The   *)
(* handler's other steps have no condition.)                               *)
CleanupGoesOn ==
    \A c \in todo :
        (running[c] \/ ~Joinable(c)) \/ (~running[c] /\ thread[c] = "ended")

(* The handler never waits in Join(), for whatever a client does. *)
THEOREM HandlersDoNotWait == Spec => []CleanupGoesOn
<1>1. Init => OverInv
  BY DEF Init, OverInv, SaysSo
<1>2. IInv /\ OverInv => CleanupGoesOn
  BY DEF IInv, OwnerInv, JoinNeverWaitsForClient, HandlerInv, OverInv, SaysSo,
         CleanupGoesOn, Joinable
<1>3. QED
  BY <1>1, <1>2, OverStep, Inductive, PTL DEF Spec

(* Where the handler is, counted from its end. *)
HandlerLeft ==
    CASE io = "cleanup" -> 6
      [] io = "admit" -> 5
      [] io = "construct" -> 4
      [] io = "spawned" -> 3
      [] io = "keep" -> 2
      [] io \in {"rearm", "failing"} -> 1
      [] OTHER -> 0

(* A handler's step takes a responder off those it has to visit, or brings *)
(* the handler nearer to its end; and nothing else gives it more to do.    *)
HandlerRunsOut ==
    [][/\ HandlerStep =>
            \/ io' = io /\ todo' \subseteq todo /\ todo' # todo
            \/ HandlerLeft' < HandlerLeft /\ todo' = todo
       /\ io # "idle" =>
            todo' \subseteq todo /\ HandlerLeft' <= HandlerLeft]_vars

(* With finitely many connections a handler takes finitely many steps, so  *)
(* that the context gets to the other acceptors, and to a signal.          *)
THEOREM HandlersAreFinite == Spec => HandlerRunsOut
<1>1. IInv /\ [Next]_vars =>
         [/\ HandlerStep =>
               \/ io' = io /\ todo' \subseteq todo /\ todo' # todo
               \/ HandlerLeft' < HandlerLeft /\ todo' = todo
          /\ io # "idle" =>
               todo' \subseteq todo /\ HandlerLeft' <= HandlerLeft]_vars
  <2> SUFFICES ASSUME IInv, Next
               PROVE  /\ HandlerStep =>
                           \/ /\ io' = io
                              /\ todo' \subseteq todo /\ todo' # todo
                           \/ HandlerLeft' < HandlerLeft /\ todo' = todo
                      /\ io # "idle" =>
                           /\ todo' \subseteq todo
                           /\ HandlerLeft' <= HandlerLeft
    OBVIOUS
  <2>1. HandlerLeft \in 0..6 /\ HandlerLeft' \in 0..6
    BY DEF HandlerLeft
  <2>2. ASSUME HandlerStep
        PROVE  \/ io' = io /\ todo' \subseteq todo /\ todo' # todo
               \/ HandlerLeft' < HandlerLeft /\ todo' = todo
    <3>1. CASE \E c \in Conns : CleanupKeeps(c) \/ CleanupJoins(c)
      BY <3>1 DEF CleanupKeeps, CleanupJoins
    <3>2. CASE \/ CleanupDone \/ LeaveLoop \/ RemoteEndpointThrows
               \/ SpawnThrows \/ Refuse
      BY <3>2 DEF CleanupDone, LeaveLoop, RemoteEndpointThrows, SpawnThrows,
                  Refuse, HandlerLeft
    <3>3. CASE Admit \/ PeerAcceptFails \/ SpawnThread \/ MarkRunning
      BY <3>3 DEF Admit, PeerAcceptFails, SpawnThread, MarkRunning,
                  HandlerLeft
    <3>4. CASE KeepResponder \/ Rearm
      BY <3>4 DEF KeepResponder, Rearm, HandlerLeft
    <3>5. QED
      BY <2>2, <3>1, <3>2, <3>3, <3>4 DEF HandlerStep
  <2>3. ASSUME io # "idle", ~HandlerStep
        PROVE  io' = io /\ todo' = todo
    <3>1. proc = "running"
      BY <2>3 DEF IInv, HandlerInv
    <3>2. QED
      BY <2>3, <3>1 DEF Next, Connect, AcceptAny, Accept, AcceptError,
         EndSession, EndThread, StopServer, TearDown, BeginDestroy,
         DestroyResponder, DestroyTerminates, Exit, Terminated, mainVars
  <2>4. io' = io => HandlerLeft' = HandlerLeft
    BY DEF HandlerLeft
  <2>5. QED
    BY <2>1, <2>2, <2>3, <2>4
<1>2. QED
  BY <1>1, Inductive, PTL DEF HandlerRunsOut, Spec

=============================================================================
