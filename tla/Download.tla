------------------------------ MODULE Download ------------------------------
(***************************************************************************)
(* Clients that download results (api/routes/files.ts) while the attempts  *)
(* and the sweeper of Retention write and delete files: the row is read    *)
(* first, and the file is opened later.                                    *)
(***************************************************************************)
EXTENDS Retention

CONSTANT MaxRequests  \* bound: how many requests are between the two at a time

ASSUME DownloadAssumption == MaxRequests \in Nat

VARIABLES
    requests,  \* those that have read the row: the job, and the attempt it named
    missing    \* the jobs whose result was not there when a request last looked for it

reader == <<requests, missing>>
allVars == <<vars, reader>>

DownloadInit == /\ Init
                /\ requests = {}
                /\ missing = {}

\* Faulty variant: the directory of any attempt of a job that has succeeded.
Lookup_AnyAttempt(j) ==
    /\ winner[j] # NoToken
    /\ Cardinality(requests) < MaxRequests
    /\ \E t \in dirs[j] : requests' = requests \cup {[job |-> j, token |-> t]}
    /\ UNCHANGED <<vars, missing>>

\* getJobResultLocation.  A job that has not succeeded is answered 404 at once.
Lookup(j) ==
    /\ winner[j] # NoToken
    /\ Cardinality(requests) < MaxRequests
    /\ requests' = requests \cup {[job |-> j, token |-> winner[j]]}
    /\ UNCHANGED <<vars, missing>>

\* sendFile opens the file and sends it, or finds none: its callback answers 404.
Send(r) ==
    /\ missing' = IF r.token \in dirs[r.job] THEN missing \ {r.job} ELSE missing \cup {r.job}
    /\ requests' = requests \ {r}
    /\ UNCHANGED vars

\* Any other error (of a read, of the connection) is answered 404 as well, or aborts.
SendFails(r) ==
    /\ requests' = requests \ {r}
    /\ UNCHANGED <<vars, missing>>

DownloadNext == \/ Next /\ UNCHANGED reader
                \/ \E j \in Jobs : Lookup(j)
                \/ \E r \in requests : Send(r) \/ SendFails(r)

DownloadSpec == DownloadInit /\ [][DownloadNext]_allVars

\* Nothing is assumed of the clients.
FairDownloadSpec == DownloadSpec /\ Fairness

-----------------------------------------------------------------------------
ReaderTypeOK ==
    /\ requests \subseteq [job : Jobs, token : Tokens]
    /\ missing \subseteq Jobs

\* A request has the winner's directory, and a result that was gone stays so.
ReaderInv ==
    /\ \A r \in requests : r.token = winner[r.job]
    /\ \A j \in missing : winner[j] # NoToken /\ winner[j] \notin dirs[j]

\* A request that gets to look finds the result of every job that has succeeded until its
\* retention expires, and once one has found it gone no later one is served with it
\* (files.ts: "whose files have since been purged by retention"): an attempt that is still
\* writing, or losing, neither takes it away nor brings it back.  A 404 alone says less:
\* a read that fails is answered the same.
GoneForGood == [][missing \subseteq missing' /\ missing' \subseteq Expired']_allVars
=============================================================================
