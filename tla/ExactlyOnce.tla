---------------------------- MODULE ExactlyOnce ----------------------------
(***************************************************************************)
(* What store.RunIdempotent promises its callers: the mutation of a key    *)
(* happens at most once, for one request, and everybody who is answered    *)
(* for the key is answered with what that one execution returned.          *)
(***************************************************************************)
CONSTANTS Keys, Requests, Responses, None

VARIABLES
    done,       \* per key, the one execution: its request and its response
    answers     \* the answers callers were given

Executions == [request : Requests, response : Responses]

Init == done = [k \in Keys |-> None] /\ answers = {}

Execute(k) ==
    /\ done[k] = None
    /\ done'[k] \in Executions /\ done' = [done EXCEPT ![k] = done'[k]]
    /\ UNCHANGED answers

Answer(k) ==
    /\ done[k] # None
    /\ answers' = answers \cup {[key |-> k, request |-> done[k].request,
                                 response |-> done[k].response]}
    /\ UNCHANGED done

Next == \E k \in Keys : Execute(k) \/ Answer(k)

Spec == Init /\ [][Next]_<<done, answers>>
=============================================================================
