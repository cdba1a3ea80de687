-------------------------- MODULE BackendContract --------------------------
(***************************************************************************)
(* What the backend interface of internal/cache promises its callers:       *)
(* "publish bytes under (namespace, id)", and a Get that succeeds returns    *)
(* bytes that were published, whole, under the id it asks for.  A miss or an *)
(* error is always allowed: the cache is best effort.                        *)
(***************************************************************************)
CONSTANTS Clients, Keys, Bodies, NoAnswer

VARIABLES
    published,  \* the (id, bytes) pairs some Put has published
    answer      \* the id of a client's Get with the bytes it returns, or NoAnswer

Init ==
    /\ published \subseteq Keys \X Bodies
    /\ answer = [c \in Clients |-> NoAnswer]

Publish(k, b) ==
    /\ published' = published \cup {<<k, b>>}
    /\ UNCHANGED answer

Serve(c, k, b) ==
    /\ answer[c] = NoAnswer
    /\ <<k, b>> \in published
    /\ answer' = [answer EXCEPT ![c] = <<k, b>>]
    /\ UNCHANGED published

\* Clients go on with their answers, or are gone.
Forget(S) ==
    /\ answer' = [c \in Clients |-> IF c \in S THEN NoAnswer ELSE answer[c]]
    /\ UNCHANGED published

Next ==
    \/ \E k \in Keys, b \in Bodies : Publish(k, b)
    \/ \E c \in Clients, k \in Keys, b \in Bodies : Serve(c, k, b)
    \/ \E S \in SUBSET Clients : Forget(S)

Spec == Init /\ [][Next]_<<published, answer>>
============================================================================
