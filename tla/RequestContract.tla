--------------------------- MODULE RequestContract ---------------------------
(***************************************************************************)
(* What every asynchronous call of the SDK promises its caller: a call is  *)
(* made at most once, it is answered at most once, and the answer is never *)
(* taken back.  Who computes the answer, in which order, and which late or *)
(* duplicated messages are thrown away on the way is left to the           *)
(* components that implement it (the prove worker pool and the socket's    *)
(* pending registry).                                                      *)
(***************************************************************************)
CONSTANTS
  Request,   \* the calls
  Answer     \* what a call may be settled with

VARIABLES
  open,      \* calls made and not yet settled
  answer     \* the calls settled so far, with what they were settled with

vars == <<open, answer>>

Settled == DOMAIN answer

Init ==
  /\ open = {}
  /\ answer = [r \in {} |-> r]

Call(r) ==
  /\ r \notin open \cup Settled
  /\ open' = open \cup {r}
  /\ UNCHANGED answer

\* One event may settle several calls at once: a shutdown of the pool, an
\* error of the whole connection.
Settle(R) ==
  /\ R # {}
  /\ R \subseteq open
  /\ open' = open \ R
  /\ \E a \in [R -> Answer] :
       answer' = [r \in Settled \cup R |-> IF r \in R THEN a[r] ELSE answer[r]]

Next ==
  \/ \E r \in Request : Call(r)
  \/ \E R \in SUBSET Request : Settle(R)

Spec == Init /\ [][Next]_vars

=============================================================================
