--------------------------- MODULE RequestReply ---------------------------
(***************************************************************************)
(* What a client of mcweatherd may rely on, whatever becomes of the        *)
(* connection: its requests are settled one after the other, each by its   *)
(* own answer or by none, and after the first one that gets no answer      *)
(* there are no answers any more.                                          *)
(***************************************************************************)
EXTENDS Naturals, Sequences

CONSTANTS
    Requests,     \* what a client may ask for
    None          \* no request, no answer

VARIABLES
    pending,      \* the request that is not settled yet
    log           \* the settled requests, each with its answer

vars == <<pending, log>>

Init ==
    /\ pending = None
    /\ log = <<>>

Ask(r) ==
    /\ pending = None
    /\ pending' = r
    /\ UNCHANGED log

Unanswered == \E i \in DOMAIN log : log[i][2] = None

Answer ==
    /\ pending # None /\ ~Unanswered
    /\ log' = Append(log, <<pending, pending>>)
    /\ pending' = None

GiveUp ==
    /\ pending # None
    /\ log' = Append(log, <<pending, None>>)
    /\ pending' = None

(* A request that could not even be sent. *)
AskInVain(r) ==
    /\ pending = None
    /\ log' = Append(log, <<r, None>>)
    /\ UNCHANGED pending

Next ==
    \/ \E r \in Requests : Ask(r) \/ AskInVain(r)
    \/ Answer
    \/ GiveUp

(* No request stays unsettled. *)
Spec == Init /\ [][Next]_vars /\ WF_vars(Answer \/ GiveUp)

=============================================================================
