--------------------------- MODULE SessionProofs ---------------------------
(***************************************************************************)
(* A session keeps its types and the lockstep, and every step of it is one *)
(* that RequestReply allows, for any requests and any plans of clients.    *)
(* Its two ends never wait for each other, and take finitely many steps.   *)
(***************************************************************************)
EXTENDS Session, SequenceTheorems, TLAPS

USE NamesAssumption DEF NamesAssumption

(* Where the one request that has no answer yet is, as long as the server  *)
(* is there: under way, being handled, or answered.                        *)
NothingUnderWay == toServer = <<>> /\ cmd = None /\ toClient = <<>>

OneUnderWay ==
    \/ toServer = <<cur>> /\ cmd = None /\ toClient = <<>>
    \/ toServer = <<>> /\ cmd = cur /\ toClient = <<>>
    \/ toServer = <<>> /\ cmd = None /\ toClient = <<cur>>

Types ==
    /\ cpc \in {"authenticate", "next", "await", "closed"}
    /\ spc \in {"authenticate", "receive", "handle", "closed"}
    /\ plan \in Seq(Asked)
    /\ cur \in Asked \cup {None}
    /\ cpc = "await" <=> cur # None
    /\ got \in Seq(Asked \X (Asked \cup {None}))
    /\ spc = "handle" <=> cmd # None
    /\ cut \in BOOLEAN

Wires ==
    /\ toServer = <<>> \/ \E c \in Asked \cup {Bye} : toServer = <<c>>
    /\ toClient = <<>> \/ \E r \in Asked : toClient = <<r>>

Lockstep ==
    /\ ~ServerGone /\ cpc \in {"authenticate", "next"} => NothingUnderWay
    /\ ~ServerGone /\ cpc = "await" => OneUnderWay
    /\ cpc \in {"authenticate", "next"} => toClient = <<>>
    /\ cpc = "await" /\ toClient # <<>> => toClient = <<cur>>

(* After a request without an answer nothing comes any more. *)
NoAnswerAfter ==
    Contract!Unanswered /\ cpc # "closed" => ServerGone /\ toClient = <<>>

IInv == Types /\ Wires /\ Lockstep /\ NoAnswerAfter

----------------------------------------------------------------------------
(* Facts about sequences. *)

(* What is under way of a single message after a cut. *)
LEMMA CutPrefix ==
    ASSUME NEW s, NEW c, s = <<>> \/ s = <<c>>, NEW n \in 0..Len(s)
    PROVE  \/ SubSeq(s, 1, n) = <<>>
           \/ SubSeq(s, 1, n) = <<c>> /\ s = <<c>>
<1>1. CASE s = <<>>
  <2>1. n = 0
    BY <1>1
  <2> QED
    BY <2>1, <1>1
<1>2. CASE s = <<c>>
  <2>1. n \in {0, 1}
    BY <1>2
  <2>2. CASE n = 0
    BY <2>2, <1>2
  <2>3. CASE n = 1
    <3>1. s \in Seq({c}) /\ n = Len(s)
      BY <2>3, <1>2
    <3> QED
      BY <3>1, <1>2, SubSeqFull
  <2> QED
    BY <2>1, <2>2, <2>3
<1> QED
  BY <1>1, <1>2

(* A log that is continued by an answered request has an unanswered one    *)
(* only if it had one before.                                              *)
LEMMA AnsweredAppend ==
    ASSUME NEW S, NEW log \in Seq(S), NEW e, e[2] # None,
           NEW i \in DOMAIN Append(log, e), Append(log, e)[i][2] = None
    PROVE  \E j \in DOMAIN log : log[j][2] = None
<1>1. DOMAIN log = 1..Len(log) /\ i \in 1..(Len(log) + 1)
  OBVIOUS
<1>2. CASE i = Len(log) + 1
  BY <1>2
<1>3. CASE i \in 1..Len(log)
  BY <1>1, <1>3
<1> QED
  BY <1>1, <1>2, <1>3

----------------------------------------------------------------------------
(* The invariant. *)

(* It holds when the connection has been made.  *)
LEMMA InitInv == Init => IInv
<1> SUFFICES ASSUME Init PROVE IInv
  OBVIOUS
<1>1. Types
  <2>1. plan \in Seq(Asked)
    BY DEF Init
  <2>2. got \in Seq(Asked \X (Asked \cup {None}))
    BY DEF Init
  <2>3. cmd = None /\ spc = "authenticate"
    BY DEF Init
  <2> QED
    BY <2>1, <2>2, <2>3 DEF Init, Types
<1>2. Wires /\ Lockstep
  BY DEF Init, Wires, Lockstep, NothingUnderWay, ServerGone
<1>3. NoAnswerAfter
  BY DEF Init, NoAnswerAfter, Contract!Unanswered
<1> QED
  BY <1>1, <1>2, <1>3 DEF IInv

(* Every step keeps it: one case for each operation. *)
LEMMA StepInv == IInv /\ [Next]_vars => IInv'
<1> SUFFICES ASSUME IInv, [Next]_vars PROVE IInv'
  OBVIOUS
<1> USE DEF IInv
<1>1. CASE ClientAuthenticates
  <2> USE <1>1 DEF ClientAuthenticates, serverVars
  <2>1. Types'
    BY DEF Types
  <2>2. Wires' /\ Lockstep'
    BY DEF Wires, Lockstep, ServerGone, NothingUnderWay
  <2>3. NoAnswerAfter'
    BY DEF NoAnswerAfter, Contract!Unanswered, ServerGone
  <2> QED
    BY <2>1, <2>2, <2>3
<1>2. CASE ClientQuits
  <2> USE <1>2 DEF ClientQuits, serverVars
  <2>1. Types'
    <3>1. cur # None => <<cur, None>> \in Asked \X (Asked \cup {None})
      BY DEF Types
    <3>2. got' \in Seq(Asked \X (Asked \cup {None}))
      BY <3>1 DEF Types
    <3> QED
      BY <3>2 DEF Types
  <2>2. Wires' /\ Lockstep'
    BY DEF Wires, Lockstep, ServerGone
  <2>3. NoAnswerAfter'
    BY DEF NoAnswerAfter
  <2> QED
    BY <2>1, <2>2, <2>3
<1>3. CASE Ask
  <2> USE <1>3 DEF Ask, serverVars
  <2>1. Head(plan) \in Asked /\ Tail(plan) \in Seq(Asked)
    BY DEF Types
  <2>2. Types'
    BY <2>1 DEF Types
  <2>3. Wires' /\ Lockstep'
    <3>1. toClient' = <<>>
      BY DEF Lockstep
    <3>2. CASE ServerGone
      BY <3>1, <3>2 DEF Wires, Lockstep, ServerGone
    <3>3. CASE ~ServerGone
      <4>1. toServer = <<>> /\ cmd = None
        BY <3>3 DEF Lockstep, NothingUnderWay
      <4>2. toServer' = <<cur'>> /\ cur' = Head(plan)
        BY <3>3, <4>1
      <4> QED
        BY <2>1, <3>1, <4>1, <4>2 DEF Wires, Lockstep, OneUnderWay
    <3> QED
      BY <3>2, <3>3
  <2>4. NoAnswerAfter'
    BY DEF NoAnswerAfter, Contract!Unanswered, ServerGone
  <2> QED
    BY <2>2, <2>3, <2>4
<1>4. CASE AskFails
  <2> USE <1>4 DEF AskFails, serverVars
  <2>1. Head(plan) \in Asked /\ Tail(plan) \in Seq(Asked)
    BY DEF Types
  <2>2. Types'
    BY <2>1 DEF Types
  <2>3. Wires' /\ Lockstep'
    BY DEF Wires, Lockstep, ServerGone, NothingUnderWay
  <2>4. NoAnswerAfter'
    BY DEF NoAnswerAfter, Lockstep, ServerGone
  <2> QED
    BY <2>2, <2>3, <2>4
<1>5. CASE TakeReply
  <2> USE <1>5 DEF TakeReply, serverVars
  <2>1. toClient = <<cur>> /\ cur \in Asked /\ cur # None
    BY DEF Types, Lockstep
  <2>2. Head(toClient) = cur /\ toClient' = <<>>
    BY <2>1
  <2>3. Types'
    BY <2>1, <2>2 DEF Types
  <2>4. Wires' /\ Lockstep'
    <3>1. Wires'
      BY <2>2 DEF Wires
    <3>2. ~ServerGone' => NothingUnderWay'
      BY <2>1, <2>2 DEF Lockstep, ServerGone, OneUnderWay, NothingUnderWay
    <3> QED
      BY <2>2, <3>1, <3>2 DEF Lockstep
  <2>5. NoAnswerAfter'
    <3>1. ~Contract!Unanswered
      BY <2>1 DEF NoAnswerAfter
    <3>2. ~Contract!Unanswered'
      <4> SUFFICES ASSUME Contract!Unanswered' PROVE FALSE
        OBVIOUS
      <4> DEFINE e == <<cur, cur>>
      <4>1. got' = Append(got, e) /\ e[2] # None
        BY <2>1, <2>2
      <4>2. PICK i \in DOMAIN got' : got'[i][2] = None
        BY DEF Contract!Unanswered
      <4>3. got \in Seq(Asked \X (Asked \cup {None}))
        BY DEF Types
      <4> HIDE DEF e
      <4>4. \E j \in DOMAIN got : got[j][2] = None
        BY <4>1, <4>2, <4>3, AnsweredAppend
      <4> QED
        BY <4>4, <3>1 DEF Contract!Unanswered
    <3> QED
      BY <3>2 DEF NoAnswerAfter
  <2> QED
    BY <2>3, <2>4, <2>5
<1>6. CASE NoReply
  <2> USE <1>6 DEF NoReply, serverVars
  <2>1. Types'
    BY DEF Types
  <2>2. Wires' /\ Lockstep'
    BY DEF Wires, Lockstep, ServerGone
  <2>3. NoAnswerAfter'
    BY DEF NoAnswerAfter, ServerGone
  <2> QED
    BY <2>1, <2>2, <2>3
<1>7. CASE Goodbye
  <2> USE <1>7 DEF Goodbye, serverVars
  <2>1. Types'
    BY DEF Types
  <2>2. Wires'
    <3>1. CASE ServerGone
      BY <3>1 DEF Wires
    <3>2. CASE ~ServerGone
      <4>1. toServer = <<>>
        BY <3>2 DEF Lockstep, NothingUnderWay
      <4>2. toServer' = <<Bye>>
        BY <3>2, <4>1
      <4> QED
        BY <4>2 DEF Wires
    <3> QED
      BY <3>1, <3>2
  <2>3. Lockstep' /\ NoAnswerAfter'
    BY DEF Lockstep, NoAnswerAfter
  <2> QED
    BY <2>1, <2>2, <2>3
<1>8. CASE ServerAuthenticates \/ RefusesClient
  <2> USE <1>8 DEF ServerAuthenticates, RefusesClient, clientVars
  <2>1. Types'
    BY DEF Types
  <2>2. Wires' /\ Lockstep'
    BY DEF Wires, Lockstep, ServerGone, NothingUnderWay, OneUnderWay
  <2>3. NoAnswerAfter'
    BY DEF NoAnswerAfter, Contract!Unanswered, ServerGone
  <2> QED
    BY <2>1, <2>2, <2>3
<1>9. CASE ReceiveCmd
  <2> USE <1>9 DEF ReceiveCmd, clientVars
  <2>1. PICK c \in Asked \cup {Bye} : toServer = <<c>>
    BY DEF Wires
  <2>2. cmd' = c /\ c # None /\ toServer' = <<>>
    BY <2>1
  <2>3. Types'
    BY <2>2 DEF Types
  <2>4. Wires' /\ Lockstep'
    BY <2>1, <2>2
       DEF Wires, Lockstep, ServerGone, NothingUnderWay, OneUnderWay
  <2>5. NoAnswerAfter'
    BY DEF NoAnswerAfter, Contract!Unanswered, ServerGone
  <2> QED
    BY <2>3, <2>4, <2>5
<1>10. CASE ReceiveFails
  <2> USE <1>10 DEF ReceiveFails, clientVars
  <2>1. Types'
    BY DEF Types
  <2>2. Wires' /\ Lockstep'
    BY DEF Wires, Lockstep, ServerGone
  <2>3. NoAnswerAfter'
    BY DEF NoAnswerAfter, Contract!Unanswered, ServerGone
  <2> QED
    BY <2>1, <2>2, <2>3
<1>11. CASE SendReply
  <2> USE <1>11 DEF SendReply, clientVars
  <2>1. Types'
    BY DEF Types
  <2>2. CASE ClientGone
    <3>1. Wires' /\ Lockstep'
      BY <2>2 DEF Wires, Lockstep, ServerGone, ClientGone
    <3>2. NoAnswerAfter'
      BY <2>2 DEF NoAnswerAfter, Contract!Unanswered, ServerGone, ClientGone
    <3> QED
      BY <2>1, <3>1, <3>2
  <2>3. CASE ~ClientGone
    <3>1. ~ServerGone /\ cpc # "closed"
      BY <2>3 DEF ServerGone, ClientGone
    <3>2. cpc = "await" /\ cmd # None
      BY <3>1 DEF Types, Lockstep, NothingUnderWay
    <3>3. cmd = cur /\ toServer = <<>> /\ toClient = <<>> /\ cur \in Asked
      BY <3>1, <3>2 DEF Types, Lockstep, OneUnderWay
    <3>4. toClient' = <<cur'>>
      BY <2>3, <3>3
    <3>5. Wires' /\ Lockstep'
      BY <3>2, <3>3, <3>4 DEF Wires, Lockstep, OneUnderWay
    <3>6. NoAnswerAfter'
      BY <3>1 DEF NoAnswerAfter, Contract!Unanswered
    <3> QED
      BY <2>1, <3>5, <3>6
  <2> QED
    BY <2>2, <2>3
<1>12. CASE SendFails \/ EndOfRequests
  <2> USE <1>12 DEF SendFails, EndOfRequests, clientVars
  <2>1. Types'
    BY DEF Types
  <2>2. Wires' /\ Lockstep'
    BY DEF Wires, Lockstep, ServerGone
  <2>3. NoAnswerAfter'
    BY DEF NoAnswerAfter, Contract!Unanswered, ServerGone, Lockstep,
           OneUnderWay, NothingUnderWay
  <2> QED
    BY <2>1, <2>2, <2>3
<1>13. CASE Cut
  <2> USE <1>13 DEF Cut, clientVars, serverVars
  <2>1. Types'
    BY DEF Types
  <2>2. toServer' = <<>> \/ toServer' = toServer
    <3>1. CASE toServer = <<>>
      BY <3>1, CutPrefix
    <3>2. CASE \E c : toServer = <<c>>
      BY <3>2, CutPrefix
    <3> QED
      BY <3>1, <3>2 DEF Wires
  <2>3. toClient' = <<>> \/ toClient' = toClient
    <3>1. CASE toClient = <<>>
      BY <3>1, CutPrefix
    <3>2. CASE \E c : toClient = <<c>>
      BY <3>2, CutPrefix
    <3> QED
      BY <3>1, <3>2 DEF Wires
  <2> HIDE <1>13
  <2>4. cut' /\ UNCHANGED <<cpc, cur, got, spc, cmd>>
    BY <1>13
  <2>5. Wires' /\ Lockstep'
    BY <2>2, <2>3, <2>4 DEF Wires, Lockstep, ServerGone
  <2>6. NoAnswerAfter'
    BY <2>3, <2>4 DEF NoAnswerAfter, Contract!Unanswered, ServerGone
  <2> QED
    BY <2>1, <2>5, <2>6
<1>14. CASE Over \/ UNCHANGED vars
  BY <1>14 DEF Over, vars, Types, Wires, Lockstep, NoAnswerAfter, ServerGone,
               NothingUnderWay, OneUnderWay, Contract!Unanswered
<1> QED
  BY <1>1, <1>2, <1>3, <1>4, <1>5, <1>6, <1>7, <1>8, <1>9, <1>10, <1>11,
     <1>12, <1>13, <1>14 DEF Next, ClientStep, ServerStep

(* The invariant holds throughout. *)
LEMMA Inductive == Spec => []IInv
  BY InitInv, StepInv, PTL DEF Spec

----------------------------------------------------------------------------
(* The theorems. *)

(* Values, and the lockstep of Responder::Run with its client: never more  *)
(* than one command and one reply under way.                               *)
THEOREM TypeCorrect == Spec => []TypeOK
<1>1. IInv => TypeOK
  <2> SUFFICES ASSUME IInv PROVE TypeOK
    OBVIOUS
  <2>1. Len(toServer) <= 1
    <3>1. Len(<<>>) <= 1 /\ \A c : Len(<<c>>) <= 1
      OBVIOUS
    <3> QED
      BY <3>1, Zenon DEF IInv, Wires
  <2>2. Len(toClient) <= 1
    <3>1. Len(<<>>) <= 1 /\ \A r : Len(<<r>>) <= 1
      OBVIOUS
    <3> QED
      BY <3>1, Zenon DEF IInv, Wires
  <2>3. toClient # <<>> => cpc \in {"await", "closed"}
    BY DEF IInv, Types, Lockstep
  <2> QED
    BY <2>1, <2>2, <2>3 DEF IInv, Types, TypeOK
<1> QED
  BY <1>1, Inductive, PTL

(* What a client that asks finds is what RequestReply promises: every      *)
(* operation of the session settles a request, asks one or is invisible.   *)
LEMMA StepSimulates ==
    IInv /\ [Next]_vars => [Contract!Next]_(Contract!vars)
<1> SUFFICES ASSUME IInv, [Next]_vars
             PROVE  Contract!Next \/ UNCHANGED <<cur, got>>
  BY DEF Contract!vars
<1> USE DEF IInv
<1>1. CASE ClientQuits
  BY <1>1 DEF ClientQuits, Contract!Next, Contract!GiveUp
<1>2. CASE Ask
  <2>1. Head(plan) \in Asked /\ cur = None
    BY <1>2 DEF Types, Ask
  <2> QED
    BY <1>2, <2>1 DEF Ask, Contract!Next, Contract!Ask
<1>3. CASE AskFails
  <2>1. Head(plan) \in Asked /\ cur = None
    BY <1>3 DEF Types, AskFails
  <2> QED
    BY <1>3, <2>1 DEF AskFails, Contract!Next, Contract!AskInVain
<1>4. CASE TakeReply
  <2>1. toClient = <<cur>> /\ cur # None /\ ~Contract!Unanswered
    BY <1>4 DEF TakeReply, Types, Lockstep, NoAnswerAfter
  <2>2. Head(toClient) = cur
    BY <2>1
  <2> QED
    BY <1>4, <2>1, <2>2 DEF TakeReply, Contract!Next, Contract!Answer
<1>5. CASE NoReply
  BY <1>5 DEF NoReply, Types, Contract!Next, Contract!GiveUp
<1>6. CASE ClientAuthenticates \/ Goodbye
  BY <1>6 DEF ClientAuthenticates, Goodbye
<1>7. CASE ServerStep \/ Cut
  BY <1>7 DEF ServerStep, ServerAuthenticates, RefusesClient, ReceiveCmd,
              ReceiveFails, SendReply, SendFails, EndOfRequests, Cut,
              clientVars
<1>8. CASE Over \/ UNCHANGED vars
  BY <1>8 DEF Over, vars
<1> QED
  BY <1>1, <1>2, <1>3, <1>4, <1>5, <1>6, <1>7, <1>8 DEF Next, ClientStep

(* The session implements RequestReply: each request is settled by its own *)
(* answer or by none, in order, and nothing is answered after the first    *)
(* one without an answer, for all the ways a connection can break.  (That  *)
(* every request is settled in the end is left to TLC.)                    *)
THEOREM ImplementsRequestReply ==
    Spec => Contract!Init /\ [][Contract!Next]_(Contract!vars)
<1>1. Init => Contract!Init
  BY DEF Init, Contract!Init
<1> QED
  BY <1>1, Inductive, StepSimulates, PTL DEF Spec
----------------------------------------------------------------------------
(* That a session ends rests on these two, and on fairness.                *)

(* A bound on the steps that are left to the two ends: a request is asked, *)
(* received, answered and its answer taken, and each end closes once.      *)
(* Of these, what the place where the client is stands for. *)
ClientSteps ==
    CASE cpc = "authenticate" -> 5
      [] cpc = "next" -> 4
      [] cpc = "await" -> 5
      [] OTHER -> 0

(* The same for Responder::Run. *)
ServerSteps ==
    CASE spc = "authenticate" -> 2
      [] spc = "receive" -> 1
      [] spc = "handle" -> 3
      [] OTHER -> 0

(* Requests to be made count five, a command under way three. *)
StepsLeft ==
    ClientSteps + ServerSteps
        + 5 * Len(plan) + 3 * Len(toServer) + Len(toClient)

(* No step raises the bound, and each step of the two ends lowers it. *)
StepsRunOut ==
    [][/\ StepsLeft' <= StepsLeft
       /\ ClientStep \/ ServerStep => StepsLeft' < StepsLeft]_vars

(* The bound is a number. *)
LEMMA LengthsAreNats ==
    IInv => /\ Len(plan) \in Nat /\ Len(toServer) \in Nat
            /\ Len(toClient) \in Nat
<1> SUFFICES ASSUME IInv
             PROVE  /\ Len(plan) \in Nat /\ Len(toServer) \in Nat
                    /\ Len(toClient) \in Nat
  OBVIOUS
<1>1. Len(plan) \in Nat
  BY DEF IInv, Types
<1>2. Len(<<>>) \in Nat /\ \A c : Len(<<c>>) \in Nat
  OBVIOUS
<1>3. Len(toServer) \in Nat /\ Len(toClient) \in Nat
  BY <1>2, Zenon DEF IInv, Wires
<1> QED
  BY <1>1, <1>3

LEMMA StepsLeftIsNat == IInv => StepsLeft \in Nat
  BY LengthsAreNats DEF IInv, Types, StepsLeft, ClientSteps, ServerSteps

(* What Ask and Goodbye put on the wire, and what the other end takes off. *)
LEMMA WireLengths ==
    ASSUME NEW s, NEW x, s = <<>> \/ \E c : s = <<c>>
    PROVE  /\ Len(Append(s, x)) = Len(s) + 1
           /\ s # <<>> => Len(Tail(s)) = Len(s) - 1
           /\ \A n \in 0..Len(s) : Len(SubSeq(s, 1, n)) \in 0..Len(s)
OBVIOUS

(* Client and server are never both in Receive with nothing under way, so  *)
(* that a session in which nothing fails cannot come to rest before its    *)
(* end: the lockstep says where the request is that the client waits for.  *)
THEOREM NobodyWaitsForEver == Spec => []NeverStuck
<1>1. IInv => NeverStuck
  <2> SUFFICES ASSUME IInv, cpc = "await", toClient = <<>>, ~ServerGone
               PROVE  ServerGoesOn
    BY DEF IInv, Types, NeverStuck, ClientGoesOn, ServerGoesOn, ClientGone
  <2>1. toServer = <<cur>> \/ cmd = cur
    <3>1. <<cur>> # <<>>
      OBVIOUS
    <3> QED
      BY <3>1 DEF IInv, Lockstep, OneUnderWay
  <2>2. cur # None /\ <<cur>> # <<>>
    BY DEF IInv, Types
  <2> QED
    BY <2>1, <2>2 DEF IInv, Types, ServerGone, ServerGoesOn
<1> QED
  BY <1>1, Inductive, PTL

(* Every step of either end brings a session nearer to its end, and        *)
(* nothing that breaks sets it back: no retry, no second reply, and no     *)
(* loop of Responder::Run without a command taken.                         *)
THEOREM SessionsAreFinite == Spec => StepsRunOut
<1>1. IInv' => (StepsLeft \in Nat)'
  BY StepsLeftIsNat, PTL
<1>2. IInv /\ [Next]_vars =>
         [/\ StepsLeft' <= StepsLeft
          /\ ClientStep \/ ServerStep => StepsLeft' < StepsLeft]_vars
  <2> SUFFICES ASSUME IInv, Next
               PROVE  /\ StepsLeft' <= StepsLeft
                      /\ ClientStep \/ ServerStep => StepsLeft' < StepsLeft
    OBVIOUS
  <2>1. /\ cpc \in {"authenticate", "next", "await", "closed"}
        /\ spc \in {"authenticate", "receive", "handle", "closed"}
        /\ plan \in Seq(Asked)
        /\ toServer = <<>> \/ \E c : toServer = <<c>>
        /\ toClient = <<>> \/ \E c : toClient = <<c>>
        /\ Len(plan) \in Nat /\ Len(toServer) \in Nat
        /\ Len(toClient) \in Nat /\ StepsLeft \in Nat
    BY LengthsAreNats, StepsLeftIsNat DEF IInv, Types, Wires
  <2>2. CASE ClientAuthenticates
    BY <2>1, <2>2 DEF ClientAuthenticates, serverVars, StepsLeft, ClientSteps,
         ServerSteps
  <2>3. CASE Ask
    <3>1. /\ Len(plan') = Len(plan) - 1
          /\ ClientSteps = 4 /\ ClientSteps' = 5
          /\ ServerSteps' = ServerSteps /\ Len(toClient') = Len(toClient)
      BY <2>1, <2>3 DEF Ask, serverVars, ClientSteps, ServerSteps
    <3>2. Len(toServer') = Len(toServer) \/ Len(toServer') = Len(toServer) + 1
      BY <2>1, <2>3, WireLengths DEF Ask
    <3>3. ServerSteps \in Nat
      BY DEF ServerSteps
    <3> QED
      BY <2>1, <3>1, <3>2, <3>3 DEF StepsLeft
  <2>4. CASE AskFails
    BY <2>1, <2>4 DEF AskFails, serverVars, StepsLeft, ClientSteps,
         ServerSteps
  <2>5. CASE TakeReply
    BY <2>1, <2>5, WireLengths
       DEF TakeReply, serverVars, StepsLeft, ClientSteps, ServerSteps
  <2>6. CASE NoReply
    BY <2>1, <2>6 DEF NoReply, serverVars, StepsLeft, ClientSteps,
         ServerSteps
  <2>7. CASE Goodbye
    <3>1. /\ ClientSteps = 4 /\ ClientSteps' = 0
          /\ ServerSteps' = ServerSteps /\ Len(plan') = Len(plan)
          /\ Len(toClient') = Len(toClient)
      BY <2>7 DEF Goodbye, serverVars, ClientSteps, ServerSteps
    <3>2. Len(toServer') = Len(toServer) \/ Len(toServer') = Len(toServer) + 1
      BY <2>1, <2>7, WireLengths DEF Goodbye
    <3>3. ServerSteps \in Nat
      BY DEF ServerSteps
    <3> QED
      BY <2>1, <3>1, <3>2, <3>3 DEF StepsLeft
  <2>8. CASE ServerAuthenticates
    BY <2>1, <2>8 DEF ServerAuthenticates, clientVars, StepsLeft, ClientSteps,
         ServerSteps
  <2>9. CASE RefusesClient
    BY <2>1, <2>9 DEF RefusesClient, clientVars, StepsLeft, ClientSteps,
         ServerSteps
  <2>10. CASE ReceiveCmd
    BY <2>1, <2>10, WireLengths
       DEF ReceiveCmd, clientVars, StepsLeft, ClientSteps, ServerSteps
  <2>11. CASE ReceiveFails
    BY <2>1, <2>11 DEF ReceiveFails, clientVars, StepsLeft, ClientSteps,
         ServerSteps
  <2>12. CASE SendReply
    <3>1. /\ ServerSteps = 3 /\ ServerSteps' = 1
          /\ ClientSteps' = ClientSteps /\ Len(plan') = Len(plan)
          /\ Len(toServer') = Len(toServer)
      BY <2>12 DEF SendReply, clientVars, ClientSteps, ServerSteps
    <3>2. Len(toClient') = Len(toClient) \/ Len(toClient') = Len(toClient) + 1
      BY <2>1, <2>12, WireLengths DEF SendReply
    <3>3. ClientSteps \in Nat
      BY DEF ClientSteps
    <3> QED
      BY <2>1, <3>1, <3>2, <3>3 DEF StepsLeft
  <2>13. CASE SendFails
    BY <2>1, <2>13 DEF SendFails, clientVars, StepsLeft, ClientSteps,
         ServerSteps
  <2>14. CASE EndOfRequests
    BY <2>1, <2>14 DEF EndOfRequests, clientVars, StepsLeft, ClientSteps,
         ServerSteps
  <2>15. ASSUME ClientStep \/ ServerStep
         PROVE  StepsLeft' < StepsLeft
    BY <2>2, <2>3, <2>4, <2>5, <2>6, <2>7, <2>8, <2>9, <2>10, <2>11, <2>12,
       <2>13, <2>14, <2>15 DEF ClientStep, ServerStep
  <2>16. ASSUME ClientQuits
         PROVE  StepsLeft' <= StepsLeft
    BY <2>1, <2>16 DEF ClientQuits, serverVars, StepsLeft, ClientSteps,
         ServerSteps
  <2>17. ASSUME Cut
         PROVE  StepsLeft' <= StepsLeft
    <3>1. /\ ClientSteps' = ClientSteps /\ ServerSteps' = ServerSteps
          /\ Len(plan') = Len(plan)
      BY <2>17 DEF Cut, clientVars, serverVars, ClientSteps, ServerSteps
    <3>2. /\ Len(toServer') \in 0..Len(toServer)
          /\ Len(toClient') \in 0..Len(toClient)
      BY <2>1, <2>17, WireLengths DEF Cut
    <3>3. ClientSteps \in Nat /\ ServerSteps \in Nat
      BY DEF ClientSteps, ServerSteps
    <3> QED
      BY <2>1, <3>1, <3>2, <3>3 DEF StepsLeft
  <2>18. ASSUME Over
         PROVE  StepsLeft' <= StepsLeft
    <3>1. StepsLeft' = StepsLeft
      BY <2>18 DEF Over, vars, StepsLeft, ClientSteps,
         ServerSteps
    <3> QED
      BY <2>1, <3>1
  <2>19. StepsLeft' \in Nat
    BY <1>1, StepInv
  <2> QED
    BY <2>1, <2>15, <2>16, <2>17, <2>18, <2>19 DEF Next
<1> QED
  BY <1>2, Inductive, PTL DEF StepsRunOut, Spec

=============================================================================
