--------------------------- MODULE IdempotentStore ---------------------------
(***************************************************************************)
(* What POST /api/jobs promises about idempotency keys: a key belongs to   *)
(* the first request that gets a job under it, for ever, and every answer  *)
(* given for that key agrees with it.                                      *)
(***************************************************************************)
CONSTANTS Requests, NoRequest, Keys

VARIABLES
    key,      \* the Idempotency-Key each request carries
    print,    \* the fingerprint of its payload
    owner,    \* by key: the request whose job it is
    answer    \* what each request was told

storeVars == <<key, print, owner, answer>>

Init == /\ owner = [k \in Keys |-> NoRequest]
        /\ answer = [r \in Requests |-> "none"]

\* A request gets the job of its key, whether or not it comes to hear of it.
Accept(r) == /\ key[r] \in Keys
             /\ owner[key[r]] = NoRequest
             /\ owner' = [owner EXCEPT ![key[r]] = r]
             /\ UNCHANGED <<key, print, answer>>

Created(r) == /\ answer[r] = "none"
              /\ key[r] \in Keys
              /\ owner[key[r]] = NoRequest
              /\ owner' = [owner EXCEPT ![key[r]] = r]
              /\ answer' = [answer EXCEPT ![r] = "created"]
              /\ UNCHANGED <<key, print>>

Answer(r, a) == /\ answer[r] = "none"
                /\ answer' = [answer EXCEPT ![r] = a]
                /\ UNCHANGED <<key, print, owner>>

Replayed(r) == /\ Answer(r, "replayed")
               /\ key[r] \in Keys
               /\ owner[key[r]] \in Requests \ {r}
               /\ print[owner[key[r]]] = print[r]

Conflict(r) == /\ Answer(r, "conflict")
               /\ key[r] \in Keys
               /\ owner[key[r]] \in Requests \ {r}
               /\ print[owner[key[r]]] # print[r]

\* 400 for a request without a key; 500 leaves it open whether there is a job.
Refused(r)  == Answer(r, "invalid") /\ key[r] \notin Keys
Failed(r)   == Answer(r, "error")

Next == \E r \in Requests :
            Accept(r) \/ Created(r) \/ Replayed(r) \/ Conflict(r) \/ Refused(r) \/ Failed(r)

Spec == Init /\ [][Next]_storeVars
=============================================================================
