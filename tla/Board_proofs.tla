---------------------------- MODULE Board_proofs ----------------------------
(***************************************************************************)
(* The board does not go back as long as no poll overtakes another.        *)
(***************************************************************************)
EXTENDS Board, TLAPS

LEMMA SpendingIsCounted ==
    ASSUME faults \in [FaultKinds -> Nat], NEW k \in FaultKinds, Spend(k)
    PROVE  /\ faults' \in [FaultKinds -> Nat]
           /\ faults'[k] # 0
           /\ \A o \in FaultKinds \ {k} : faults'[o] = faults[o]
BY DEF Spend

\* Asking for a list is the first one in flight, or an overlap.
LEMMA RefreshEffects ==
    ASSUME TypeOK, RefreshJobs
    PROVE  /\ lists' = lists \cup {rows}
           /\ faults' \in [FaultKinds -> Nat]
           /\ faults'["overlap"] = 0 => lists = {} /\ faults["overlap"] = 0
<1>1. CASE lists = {}
  BY <1>1 DEF RefreshJobs, TypeOK
<1>2. CASE lists # {}
  BY <1>2, SpendingIsCounted DEF RefreshJobs, TypeOK, FaultKinds
<1> QED BY <1>1, <1>2

LEMMA RenderTyped ==
    ASSUME TypeOK, NEW j \in Jobs, RenderDetail(j)
    PROVE  details' \subseteq Details
BY DEF RenderDetail, TypeOK, Details

LEMMA TypeStep ==
    ASSUME TypeOK, [Next]_vars
    PROVE  TypeOK'
<1> USE DEF TypeOK, views, requests, FaultKinds, Versions, Absent, Queued, Running, Finished
<1>1. CASE Tick
  BY <1>1, RefreshEffects DEF Tick
<1>2. CASE RequestFails
  BY <1>2, SpendingIsCounted DEF RequestFails
<1>3. ASSUME NEW list \in lists, ListAnswered(list) PROVE TypeOK'
  BY <1>3, RenderTyped DEF ListAnswered
<1>4. ASSUME NEW d \in details, DetailAnswered(d) PROVE TypeOK'
  BY <1>4 DEF DetailAnswered
<1>5. ASSUME NEW j \in posts, Submitted(j) PROVE TypeOK'
  BY <1>5, RefreshEffects, RenderTyped DEF Submitted, SelectJob
<1>6. ASSUME NEW j \in posts, SubmitFails(j) PROVE TypeOK'
  BY <1>6, SpendingIsCounted DEF SubmitFails
<1>7. ASSUME NEW j \in Jobs, Click(j) PROVE TypeOK'
  BY <1>7, SpendingIsCounted, RenderTyped DEF Click, SelectJob
<1>8. ASSUME NEW j \in Jobs, Submit(j) PROVE TypeOK'
  BY <1>8 DEF Submit
<1>9. ASSUME NEW j \in Jobs, Work(j) PROVE TypeOK'
  BY <1>9 DEF Work
<1>10. CASE UNCHANGED vars
  BY <1>10 DEF vars
<1> QED BY <1>1, <1>2, <1>3, <1>4, <1>5, <1>6, <1>7, <1>8, <1>9, <1>10 DEF Next

-----------------------------------------------------------------------------
\* A step that asks for a list, takes one, or lets a job come further.
LEMMA ListStep ==
    ASSUME TypeOK, ListInv, [Next]_vars
    PROVE  /\ ListInv'
           /\ faults["overlap"] = 0 => \A j \in Jobs : board'[j] >= board[j]
<1> DEFINE Kept == faults["overlap"] = 0 => \A j \in Jobs : board'[j] >= board[j]
<1> USE DEF TypeOK, views, requests, FaultKinds, Versions, ListInv
<1>1. ASSUME RefreshJobs, UNCHANGED <<rows, board>> PROVE ListInv' /\ Kept
  <2>1. faults'["overlap"] = 0 => lists' = {rows} /\ faults["overlap"] = 0
    BY <1>1, RefreshEffects
  <2>2. \A j \in Jobs : rows[j] <= rows[j] /\ board[j] >= board[j]
    OBVIOUS
  <2> QED BY <1>1, <2>1, <2>2
<1>2. ASSUME lists' \subseteq lists, UNCHANGED <<rows, board>>,
             faults'["overlap"] = faults["overlap"]
      PROVE  ListInv' /\ Kept
  BY <1>2
<1>3. CASE RequestFails
  <2>1. faults'["overlap"] = faults["overlap"]
    BY <1>3, SpendingIsCounted DEF RequestFails
  <2> QED BY <1>2, <1>3, <2>1 DEF RequestFails
<1>4. ASSUME NEW list \in lists, ListAnswered(list) PROVE ListInv' /\ Kept
  <2>1. lists' = lists \ {list} /\ board' = list /\ UNCHANGED <<rows, faults>>
    BY <1>4 DEF ListAnswered
  <2>2. faults["overlap"] = 0 => lists' = {}
    BY <2>1
  <2>3. faults["overlap"] = 0 => \A j \in Jobs : board[j] <= list[j] /\ list[j] <= rows[j]
    OBVIOUS
  <2> QED BY <2>1, <2>2, <2>3
<1>5. ASSUME NEW j \in posts, SubmitFails(j) PROVE ListInv' /\ Kept
  <2>1. faults'["overlap"] = faults["overlap"]
    BY <1>5, SpendingIsCounted DEF SubmitFails
  <2> QED BY <1>2, <1>5, <2>1 DEF SubmitFails
<1>6. ASSUME NEW j \in Jobs, Click(j) PROVE ListInv' /\ Kept
  <2>1. faults'["overlap"] = faults["overlap"]
    BY <1>6, SpendingIsCounted DEF Click
  <2> QED BY <1>2, <1>6, <2>1 DEF Click
<1>7. ASSUME NEW j \in Jobs, Submit(j) \/ Work(j) PROVE ListInv' /\ Kept
  <2>1. UNCHANGED <<lists, board, faults>>
    BY <1>7 DEF Submit, Work
  <2>2. \A k \in Jobs : rows[k] <= rows'[k]
    BY <1>7 DEF Submit, Work, Absent, Queued, Running
  <2>3. ASSUME NEW n \in Versions, NEW k \in Jobs, n <= rows[k] PROVE n <= rows'[k]
    <3>1. rows[k] \in Nat /\ rows'[k] \in Nat
      BY <1>7, TypeStep
    <3> QED BY <2>2, <2>3, <3>1
  <2>4. \A list \in lists, k \in Jobs : list[k] \in Versions
    OBVIOUS
  <2> QED BY <2>1, <2>3, <2>4
<1>8. CASE Tick
  BY <1>1, <1>8 DEF Tick
<1>11. ASSUME NEW j \in posts, Submitted(j) PROVE ListInv' /\ Kept
  BY <1>1, <1>11 DEF Submitted
<1>9. ASSUME NEW d \in details, DetailAnswered(d) PROVE ListInv' /\ Kept
  BY <1>2, <1>9 DEF DetailAnswered
<1>10. CASE UNCHANGED vars
  BY <1>2, <1>10 DEF vars
<1> QED BY <1>3, <1>4, <1>5, <1>6, <1>7, <1>8, <1>9, <1>10, <1>11 DEF Next

LEMMA IInvHolds == Spec => [](TypeOK /\ ListInv)
<1>1. Init => TypeOK /\ ListInv
  BY DEF Init, TypeOK, ListInv, Versions, Absent, FaultKinds
<1>2. TypeOK /\ ListInv /\ [Next]_vars => TypeOK' /\ ListInv'
  BY TypeStep, ListStep
<1> QED BY <1>1, <1>2, PTL DEF Spec

\* The variables keep their types: the ticket detail is always one of a job, or empty.
THEOREM TypeCorrect == Spec => []TypeOK
BY IInvHolds, PTL

\* No ticket goes back on the board while no poll overtakes another, whatever visitors,
\* workers and failures do.
THEOREM TicketsDoNotGoBack == Spec => BoardNeverGoesBack
<1>1. TypeOK /\ ListInv /\ [Next]_vars
        => [faults["overlap"] = 0 => \A j \in Jobs : board'[j] >= board[j]]_vars
  BY ListStep
<1> QED BY <1>1, IInvHolds, PTL DEF Spec, BoardNeverGoesBack

-----------------------------------------------------------------------------
\* All that the page shows, or will show when an answer comes, was so in Postgres once:
\* however polls, clicks and the form overtake each other, it is behind, never ahead
\* (app.js: "Every status shown here comes from a real backend response").
PageIsBehind ==
    /\ \A j \in Jobs : board[j] <= rows[j]
    /\ \A list \in lists, j \in Jobs : list[j] <= rows[j]
    /\ \A d \in details : d.version <= rows[d.job]
    /\ detail # Nothing => detail.version <= rows[detail.job]

LEMMA BehindStep ==
    ASSUME TypeOK, PageIsBehind, [Next]_vars
    PROVE  PageIsBehind'
<1> USE DEF views, requests
\* Jobs only come further.
<1>1. \A j \in Jobs : rows[j] \in Nat /\ rows'[j] \in Nat /\ rows[j] <= rows'[j]
  <2>1. ASSUME NEW j \in Jobs, Submit(j) \/ Work(j)
        PROVE  \A k \in Jobs : rows[k] <= rows'[k]
    BY <2>1 DEF Submit, Work, TypeOK, Versions, Absent, Queued, Running
  <2>2. ASSUME ~\E j \in Jobs : Submit(j) \/ Work(j)
        PROVE  rows' = rows
    BY <2>2 DEF Next, Tick, RequestFails, ListAnswered, DetailAnswered, Submitted,
         SubmitFails, Click, vars
  <2>3. \A j \in Jobs : rows[j] \in Nat /\ rows'[j] \in Nat
    BY TypeStep DEF TypeOK, Versions
  <2> QED BY <2>1, <2>2, <2>3
<1>2. ASSUME NEW j \in Jobs, NEW n \in Nat, n <= rows[j] PROVE n <= rows'[j]
  BY <1>1, <1>2
\* What is new among the answers was read just now.
<1>3. /\ \A list \in lists' : list \in lists \/ list = rows
      /\ \A d \in details' : d \in details \/ (d.job \in Jobs /\ d.version = rows[d.job])
      /\ board' = board \/ board' \in lists
      /\ detail' = detail \/ detail' \in details
  <2>1. ASSUME NEW j \in Jobs, RenderDetail(j)
        PROVE  \A d \in details' : d \in details \/ (d.job \in Jobs /\ d.version = rows[d.job])
    BY <2>1 DEF RenderDetail
  <2>2. RefreshJobs => \A list \in lists' : list \in lists \/ list = rows
    BY DEF RefreshJobs
  <2>3. CASE Tick
    BY <2>2, <2>3 DEF Tick
  <2>4. CASE RequestFails \/ \E j \in posts : SubmitFails(j)
    BY <2>4 DEF RequestFails, SubmitFails
  <2>5. ASSUME NEW list \in lists, ListAnswered(list)
        PROVE  /\ lists' \subseteq lists
               /\ \A d \in details' : d \in details \/ (d.job \in Jobs /\ d.version = rows[d.job])
               /\ board' \in lists
               /\ detail' = detail
    BY <2>1, <2>5 DEF ListAnswered, TypeOK
  <2>6. ASSUME NEW d \in details, DetailAnswered(d)
        PROVE  /\ UNCHANGED <<lists, board>>
               /\ details' \subseteq details
               /\ detail' \in details
    BY <2>6 DEF DetailAnswered
  <2>7. ASSUME NEW j \in posts, Submitted(j)
        PROVE  /\ UNCHANGED <<board, detail>>
               /\ \A list \in lists' : list \in lists \/ list = rows
               /\ \A d \in details' : d \in details \/ (d.job \in Jobs /\ d.version = rows[d.job])
    BY <2>1, <2>2, <2>7 DEF Submitted, SelectJob, TypeOK
  <2>8. ASSUME NEW j \in Jobs, Click(j)
        PROVE  /\ UNCHANGED <<lists, board, detail>>
               /\ \A d \in details' : d \in details \/ (d.job \in Jobs /\ d.version = rows[d.job])
    BY <2>1, <2>8 DEF Click, SelectJob
  <2>9. ASSUME NEW j \in Jobs, Submit(j) \/ Work(j)
        PROVE  UNCHANGED <<lists, details, board, detail>>
    BY <2>9 DEF Submit, Work
  <2>10. CASE UNCHANGED vars
    BY <2>10 DEF vars
  <2> QED BY <2>3, <2>4, <2>5, <2>6, <2>7, <2>8, <2>9, <2>10 DEF Next
<1>4. /\ \A list \in lists, j \in Jobs : list[j] \in Nat /\ list[j] <= rows[j]
      /\ \A j \in Jobs : board[j] \in Nat /\ board[j] <= rows[j]
      /\ \A d \in details : d.job \in Jobs /\ d.version \in Nat /\ d.version <= rows[d.job]
      /\ detail # Nothing =>
            detail.job \in Jobs /\ detail.version \in Nat /\ detail.version <= rows[detail.job]
  BY DEF PageIsBehind, TypeOK, Details, Versions
<1>5. \A list \in lists', j \in Jobs : list[j] <= rows'[j]
  BY <1>1, <1>2, <1>3, <1>4
<1>6. \A j \in Jobs : board'[j] <= rows'[j]
  BY <1>2, <1>3, <1>4
<1>7. \A d \in details' : d.version <= rows'[d.job]
  BY <1>1, <1>2, <1>3, <1>4
<1>8. detail' # Nothing => detail'.version <= rows'[detail'.job]
  BY <1>2, <1>3, <1>4
<1> QED BY <1>5, <1>6, <1>7, <1>8 DEF PageIsBehind, Nothing

THEOREM NothingIsMadeUp == Spec => []PageIsBehind
<1>1. Init => PageIsBehind
  BY DEF Init, PageIsBehind, Absent
<1> QED BY <1>1, BehindStep, IInvHolds, PTL DEF Spec
=============================================================================
