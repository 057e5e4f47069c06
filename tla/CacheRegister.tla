--------------------------- MODULE CacheRegister ---------------------------
(***************************************************************************)
(* What a request may rely on of a cache file that is saved without a lock *)
(* around it: a register that is quiet or being saved.  A load that saw it *)
(* quiet from its beginning to its end is answered with the value that was *)
(* settled then.  Any other load is answered with a part of what was saved *)
(* meanwhile, in order, from the settled value at its beginning to the     *)
(* newest one there is; the part may be empty.                             *)
(***************************************************************************)
EXTENDS Naturals, Sequences

CONSTANTS
    Readers,      \* the threads that load
    Blocks        \* the parts a value comes in

VARIABLES
    newest,       \* the number of values so far
    settled,      \* the last value that was saved as a whole
    quiet,        \* the register holds the settled value
    loading,      \* the readers with a load under way
    since,        \* the value that was settled when a load began
    calm,         \* the register was quiet all through the load
    answer        \* what a reader was given, until it is done with it

vars == <<newest, settled, quiet, loading, since, calm, answer>>

Init ==
    /\ newest = 0
    /\ settled = 0
    /\ quiet = FALSE
    /\ loading = {}
    /\ since = [r \in Readers |-> 0]
    /\ calm = [r \in Readers |-> FALSE]
    /\ answer = [r \in Readers |-> <<>>]

(* A new value, which is nowhere to be seen yet. *)
Fetch ==
    /\ newest' = newest + 1
    /\ UNCHANGED <<settled, quiet, loading, since, calm, answer>>

(* From here on loads meet parts of the newest value, or nothing. *)
BeginSave ==
    /\ quiet' = FALSE
    /\ calm' = [r \in Readers |-> FALSE]
    /\ UNCHANGED <<newest, settled, loading, since, answer>>

EndSave ==
    /\ ~quiet
    /\ quiet' = TRUE
    /\ settled' = newest
    /\ UNCHANGED <<newest, loading, since, calm, answer>>

(* The loads are gone with the process; the register is as it was. *)
Crash ==
    /\ loading' = {}
    /\ since' = [r \in Readers |-> 0]
    /\ calm' = [r \in Readers |-> FALSE]
    /\ answer' = [r \in Readers |-> <<>>]
    /\ UNCHANGED <<newest, settled, quiet>>

Ask(r) ==
    /\ r \notin loading
    /\ loading' = loading \cup {r}
    /\ since' = [since EXCEPT ![r] = settled]
    /\ calm' = [calm EXCEPT ![r] = quiet]
    /\ UNCHANGED <<newest, settled, quiet, answer>>

(* Parts of the values from the settled one on, none before an older one. *)
Torn(r) ==
    {s \in UNION {[1..n -> since[r]..newest] : n \in 0..Blocks} :
        \A i, j \in DOMAIN s : i <= j => s[i] <= s[j]}

Answers(r) == IF calm[r] THEN {[i \in 1..Blocks |-> since[r]]} ELSE Torn(r)

Answer(r) ==
    /\ r \in loading
    /\ loading' = loading \ {r}
    /\ \E s \in Answers(r) : answer' = [answer EXCEPT ![r] = s]
    /\ UNCHANGED <<newest, settled, quiet, since, calm>>

(* The answer is sent, and forgotten. *)
Done(r) ==
    /\ r \notin loading
    /\ answer' = [answer EXCEPT ![r] = <<>>]
    /\ UNCHANGED <<newest, settled, quiet, loading, since, calm>>

Next ==
    \/ Fetch
    \/ BeginSave
    \/ EndSave
    \/ Crash
    \/ \E r \in Readers : Ask(r) \/ Answer(r) \/ Done(r)

Spec == Init /\ [][Next]_vars

=============================================================================
