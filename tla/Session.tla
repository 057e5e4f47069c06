------------------------------ MODULE Session ------------------------------
(***************************************************************************)
(* One session between a client (mcweather, mcweathercgi) and the thread   *)
(* of its Responder, after the key exchange: authentication, requests and  *)
(* replies over one connection, and the ways it ends.                      *)
(*                                                                         *)
(* The connection delivers in order or breaks: a Receive fails when there  *)
(* is nothing left to receive and the other end is closed or the           *)
(* connection cut.  A Send to such an end fails, or succeeds and is lost.  *)
(* A reply is named after the request it was made for; what Get... found   *)
(* in the cache is the subject of CacheFile.                               *)
(***************************************************************************)
EXTENDS Naturals, Sequences

CONSTANTS
    Requests,     \* the requests a Responder answers
    Plans,        \* the sequences of requests clients come with
    Bye,          \* e_buhBye
    None          \* no request, no reply

(* Everything any client asks for. *)
Asked == UNION {{p[i] : i \in DOMAIN p} : p \in Plans}

ASSUME NamesAssumption ==
    /\ Plans \subseteq Seq(Asked)
    /\ {Bye, None} \cap (Requests \cup Asked) = {}
    /\ Bye # None

VARIABLES
    cpc,          \* where the client is
    plan,         \* the requests it has still to make
    cur,          \* the one it waits for an answer to
    got,          \* history: what became of the requests so far
    spc,          \* where Responder::Run is
    cmd,          \* the command it has received
    toServer,     \* commands under way
    toClient,     \* replies under way
    cut           \* the connection is gone

clientVars == <<cpc, plan, cur, got>>
serverVars == <<spc, cmd>>
vars == <<cpc, plan, cur, got, spc, cmd, toServer, toClient, cut>>

(* Values, and the lockstep: one command and one reply under way at most.  *)
TypeOK ==
    /\ cpc \in {"authenticate", "next", "await", "closed"}
    /\ spc \in {"authenticate", "receive", "handle", "closed"}
    /\ cpc = "await" <=> cur # None
    /\ spc = "handle" <=> cmd # None
    /\ cut \in BOOLEAN
    /\ Len(toServer) <= 1 /\ Len(toClient) <= 1
    /\ toClient # <<>> => cpc \in {"await", "closed"}

Init ==
    /\ cpc = "authenticate"
    /\ plan \in Plans
    /\ cur = None
    /\ got = <<>>
    /\ spc = "authenticate"
    /\ cmd = None
    /\ toServer = <<>>
    /\ toClient = <<>>
    /\ cut = FALSE

----------------------------------------------------------------------------
(* The client. *)

ClientGone == cut \/ cpc = "closed"
ServerGone == cut \/ spc = "closed"

(* peer.Authenticate succeeds. *)
ClientAuthenticates ==
    /\ cpc = "authenticate"
    /\ cpc' = "next"
    /\ UNCHANGED <<plan, cur, got, serverVars, toServer, toClient, cut>>

(* It fails, or the process is killed: the connection is closed, and what  *)
(* it waited for is never shown.                                           *)
ClientQuits ==
    /\ cpc # "closed"
    /\ cpc' = "closed"
    /\ got' = IF cur = None THEN got ELSE Append(got, <<cur, None>>)
    /\ cur' = None
    /\ UNCHANGED <<plan, serverVars, toServer, toClient, cut>>

(* Show... or Embed...: the request is sent, and the reply waited for. *)
Ask ==
    /\ cpc = "next" /\ plan # <<>>
    /\ cur' = Head(plan)
    /\ plan' = Tail(plan)
    /\ toServer' = IF ServerGone THEN toServer
                   ELSE Append(toServer, Head(plan))
    /\ cpc' = "await"
    /\ UNCHANGED <<got, serverVars, toClient, cut>>

(* The request cannot be sent: a message, and on to the next one. *)
AskFails ==
    /\ cpc = "next" /\ plan # <<>> /\ ServerGone
    /\ got' = Append(got, <<Head(plan), None>>)
    /\ plan' = Tail(plan)
    /\ UNCHANGED <<cpc, cur, serverVars, toServer, toClient, cut>>

TakeReply ==
    /\ cpc = "await" /\ toClient # <<>>
    /\ got' = Append(got, <<cur, Head(toClient)>>)
    /\ toClient' = Tail(toClient)
    /\ cur' = None
    /\ cpc' = "next"
    /\ UNCHANGED <<plan, serverVars, toServer, cut>>

(* A client that gives up on a slow reply without closing the connection. *)
NoReply_Impatient ==
    /\ cpc = "await" /\ toClient = <<>>
    /\ got' = Append(got, <<cur, None>>)
    /\ cur' = None
    /\ cpc' = "next"
    /\ UNCHANGED <<plan, serverVars, toServer, toClient, cut>>

(* Receive fails: a message, and on to the next request. *)
NoReply ==
    /\ cpc = "await" /\ toClient = <<>> /\ ServerGone
    /\ got' = Append(got, <<cur, None>>)
    /\ cur' = None
    /\ cpc' = "next"
    /\ UNCHANGED <<plan, serverVars, toServer, toClient, cut>>

(* peer.Send((uint8_t)255), then main() returns. *)
Goodbye ==
    /\ cpc = "next" /\ plan = <<>>
    /\ toServer' = IF ServerGone THEN toServer ELSE Append(toServer, Bye)
    /\ cpc' = "closed"
    /\ UNCHANGED <<plan, cur, got, serverVars, toClient, cut>>

----------------------------------------------------------------------------
(* Responder::Run *)

ServerAuthenticates ==
    /\ spc = "authenticate"
    /\ spc' = "receive"
    /\ UNCHANGED <<clientVars, cmd, toServer, toClient, cut>>

(* The client's key is not known, or the client has gone. *)
RefusesClient ==
    /\ spc = "authenticate"
    /\ spc' = "closed"
    /\ UNCHANGED <<clientVars, cmd, toServer, toClient, cut>>

ReceiveCmd ==
    /\ spc = "receive" /\ toServer # <<>>
    /\ cmd' = Head(toServer)
    /\ toServer' = Tail(toServer)
    /\ spc' = "handle"
    /\ UNCHANGED <<clientVars, toClient, cut>>

(* A failed Receive is taken for one that has to be repeated. *)
ReceiveFails_Retries ==
    /\ spc = "receive" /\ toServer = <<>> /\ ClientGone
    /\ UNCHANGED vars

ReceiveFails ==
    /\ spc = "receive" /\ toServer = <<>> /\ ClientGone
    /\ spc' = "closed"
    /\ UNCHANGED <<clientVars, cmd, toServer, toClient, cut>>

(* A missing break: the next case sends its reply, too. *)
SendReply_FallsThrough ==
    /\ spc = "handle" /\ cmd \in Requests
    /\ \E next \in Requests \ {cmd} :
          toClient' = IF ClientGone THEN toClient
                      ELSE toClient \o <<cmd, next>>
    /\ cmd' = None
    /\ spc' = "receive"
    /\ UNCHANGED <<clientVars, toServer, cut>>

(* Nothing is sent when the cache has nothing. *)
SendReply_OnlyIfCached ==
    /\ spc = "handle" /\ cmd \in Requests
    /\ \E cached \in BOOLEAN :
          toClient' = IF ClientGone \/ ~cached THEN toClient
                      ELSE Append(toClient, cmd)
    /\ cmd' = None
    /\ spc' = "receive"
    /\ UNCHANGED <<clientVars, toServer, cut>>

(* HandleRequest: whatever Get... found, a reply is sent. *)
SendReply ==
    /\ spc = "handle" /\ cmd \in Requests
    /\ toClient' = IF ClientGone THEN toClient ELSE Append(toClient, cmd)
    /\ cmd' = None
    /\ spc' = "receive"
    /\ UNCHANGED <<clientVars, toServer, cut>>

SendFails ==
    /\ spc = "handle" /\ cmd \in Requests /\ ClientGone
    /\ cmd' = None
    /\ spc' = "closed"
    /\ UNCHANGED <<clientVars, toServer, toClient, cut>>

(* e_buhBye, or a command nobody knows. *)
EndOfRequests ==
    /\ spc = "handle" /\ cmd \notin Requests
    /\ cmd' = None
    /\ spc' = "closed"
    /\ UNCHANGED <<clientVars, toServer, toClient, cut>>

----------------------------------------------------------------------------
(* The connection breaks: what was under way may be lost. *)
Cut ==
    /\ ~cut
    /\ cut' = TRUE
    /\ \E n \in 0..Len(toServer) : toServer' = SubSeq(toServer, 1, n)
    /\ \E n \in 0..Len(toClient) : toClient' = SubSeq(toClient, 1, n)
    /\ UNCHANGED <<clientVars, serverVars>>

ClientStep ==
    \/ ClientAuthenticates
    \/ Ask
    \/ AskFails
    \/ TakeReply
    \/ NoReply
    \/ Goodbye

ServerStep ==
    \/ ServerAuthenticates
    \/ RefusesClient
    \/ ReceiveCmd
    \/ ReceiveFails
    \/ SendReply
    \/ SendFails
    \/ EndOfRequests

Over == cpc = "closed" /\ spc = "closed" /\ UNCHANGED vars

Next ==
    \/ ClientStep
    \/ ClientQuits
    \/ ServerStep
    \/ Cut
    \/ Over

(* Both ends go on when they can: authentication ends (the exchange of     *)
(* identities has a timeout), a cut is noticed by a Receive that waits.    *)
Fairness == WF_vars(ClientStep) /\ WF_vars(ServerStep)

Spec == Init /\ [][Next]_vars /\ Fairness

----------------------------------------------------------------------------
(* Properties. *)

Contract == INSTANCE RequestReply
    WITH Requests <- Asked, pending <- cur, log <- got

(* The session keeps what RequestReply promises: answers carry no          *)
(* request's name on the wire, so it is the order alone that makes each    *)
(* answer its request's own; no request stays unsettled.                   *)
KeepsContract == Contract!Spec

(* What either end can do as it is: nothing, while it waits in a Receive   *)
(* and the other end is there and has sent nothing.                        *)
ClientGoesOn ==
    \/ cpc \in {"authenticate", "next"}
    \/ cpc = "await" /\ (toClient # <<>> \/ ServerGone)

ServerGoesOn ==
    \/ spc \in {"authenticate", "handle"}
    \/ spc = "receive" /\ (toServer # <<>> \/ ClientGone)

(* The two ends never wait in Receive for each other, which has no         *)
(* timeout: whatever HandleRequest found, it has sent a reply before it    *)
(* waits for the next command, or the session is over.                     *)
NeverStuck ==
    ClientGoesOn \/ ServerGoesOn \/ (cpc = "closed" /\ spc = "closed")

(* A session comes to its end: the client's process whichever answers fail *)
(* to come, and the Responder's thread with it, however the client ends.   *)
SessionEnds == <>(cpc = "closed" /\ spc = "closed")

=============================================================================
