--------------------------- MODULE JobList_proofs ---------------------------
(***************************************************************************)
(* Proofs about JobList, for any finite set of jobs, any page sizes, any   *)
(* time and any number of moments within a millisecond.                    *)
(***************************************************************************)
EXTENDS JobList, TLAPS

-----------------------------------------------------------------------------
\* The order of rows.

LEMMA NoTimeIsNone == NoTime \notin Times /\ NoCursor.at = NoTime
<1>1. NoTime.ms = MaxMs + 1 /\ MaxMs + 1 \notin 0..MaxMs
  BY ListAssumption DEF NoTime
<1> QED BY <1>1 DEF Times, NoCursor

LEMMA TimesAreOrdered ==
    ASSUME NEW s \in Times, NEW t \in Times
    PROVE  Earlier(s, t) \/ s = t \/ Earlier(t, s)
<1>1. /\ s.ms \in Nat /\ s.us \in Nat /\ s = [ms |-> s.ms, us |-> s.us]
      /\ t.ms \in Nat /\ t.us \in Nat /\ t = [ms |-> t.ms, us |-> t.us]
  BY ListAssumption DEF Times
<1> QED BY <1>1 DEF Earlier

LEMMA EarlierIsTransitive ==
    ASSUME NEW s \in Times, NEW t \in Times, NEW u \in Times, Earlier(s, t), Earlier(t, u)
    PROVE  Earlier(s, u)
<1>1. /\ s.ms \in Nat /\ s.us \in Nat /\ t.ms \in Nat /\ t.us \in Nat
      /\ u.ms \in Nat /\ u.us \in Nat
  BY ListAssumption DEF Times
<1> QED BY <1>1 DEF Earlier

LEMMA EarlierIsStrict ==
    ASSUME NEW s \in Times, NEW t \in Times, Earlier(s, t)
    PROVE  ~Earlier(t, s) /\ s # t
<1>1. s.ms \in Nat /\ s.us \in Nat /\ t.ms \in Nat /\ t.us \in Nat
  BY ListAssumption DEF Times
<1> QED BY <1>1 DEF Earlier

\* A row before a cursor comes after every row that is not.
LEMMA CursorSeparates ==
    ASSUME NEW s \in Times, NEW i \in Nat, NEW t \in Times, NEW j \in Nat,
           NEW c \in [at : Times, id : Nat],
           Before(t, j, c), ~Before(s, i, c)
    PROVE  Before(t, j, [at |-> s, id |-> i])
<1>1. c.at \in Times /\ c.id \in Nat
  OBVIOUS
<1>2. ~Earlier(s, c.at) /\ ~(s = c.at /\ i < c.id)
  BY DEF Before
<1>3. CASE Earlier(t, c.at)
  <2>1. Earlier(c.at, s) \/ c.at = s
    BY <1>1, <1>2, TimesAreOrdered
  <2>2. Earlier(t, s)
    BY <1>1, <1>3, <2>1, EarlierIsTransitive
  <2> QED BY <2>2 DEF Before
<1>4. CASE t = c.at /\ j < c.id
  <2>1. CASE s = c.at
    <3>1. j < i
      BY <1>1, <1>2, <1>4, <2>1
    <3> QED BY <1>4, <2>1, <3>1 DEF Before
  <2>2. CASE s # c.at
    <3>1. Earlier(t, s)
      BY <1>1, <1>2, <1>4, <2>2, TimesAreOrdered
    <3> QED BY <3>1 DEF Before
  <2> QED BY <2>1, <2>2
<1> QED BY <1>3, <1>4 DEF Before

\* A cursor is not after the row it was made from, and so not after any newer one.
LEMMA CursorIsBelow ==
    ASSUME TypeOK, NEW j \in Jobs, created[j] \in Times,
           NEW k \in Jobs, created[k] \in Times, k = j \/ Newer(k, j)
    PROVE  ~Before(created[k], k, CursorAt(j))
<1> DEFINE c == created[j].ms
<1>1. /\ created[j].ms \in Nat /\ created[j].us \in Nat
      /\ created[k].ms \in Nat /\ created[k].us \in Nat
      /\ created[j] = [ms |-> created[j].ms, us |-> created[j].us]
      /\ j \in Nat /\ k \in Nat
  BY ListAssumption DEF Times
<1>2. CursorAt(j).at = [ms |-> created[j].ms, us |-> 0] /\ CursorAt(j).id = j
  BY <1>1 DEF CursorAt
<1>3. CASE k = j
  BY <1>1, <1>2, <1>3 DEF Before, Earlier
<1>4. CASE Newer(k, j)
  <2>1. \/ Earlier(created[j], created[k])
        \/ created[j] = created[k] /\ j < k
    BY <1>4 DEF Newer, Before
  <2>2. CASE Earlier(created[j], created[k])
    <3>1. \/ created[j].ms < created[k].ms
          \/ created[j].ms = created[k].ms /\ created[j].us < created[k].us
      BY <2>2 DEF Earlier
    <3>2. ~Earlier(created[k], CursorAt(j).at)
      BY <1>1, <1>2, <3>1 DEF Earlier
    <3>3. created[k] # CursorAt(j).at
      BY <1>1, <1>2, <3>1
    <3> QED BY <3>2, <3>3 DEF Before
  <2>3. CASE created[j] = created[k] /\ j < k
    BY <1>1, <1>2, <2>3 DEF Before, Earlier
  <2> QED BY <2>1, <2>2, <2>3
<1> QED BY <1>3, <1>4

\* A row older than that of a cursor is before it, or of its millisecond.
LEMMA CursorIsClose ==
    ASSUME TypeOK, NEW j \in Jobs, created[j] \in Times,
           NEW k \in Jobs, created[k] \in Times, Newer(j, k)
    PROVE  Before(created[k], k, CursorAt(j)) \/ SameMs(k, j)
<1>1. /\ created[j].ms \in Nat /\ created[j].us \in Nat
      /\ created[k].ms \in Nat /\ created[k].us \in Nat
      /\ created[j] = [ms |-> created[j].ms, us |-> created[j].us]
  BY ListAssumption DEF Times
<1>2. CursorAt(j).at.ms = created[j].ms
  BY <1>1 DEF CursorAt
<1> QED BY <1>1, <1>2 DEF Newer, Before, Earlier, SameMs

-----------------------------------------------------------------------------
\* The invariant.

LEMMA CursorAtHasType ==
    ASSUME TypeOK, NEW j \in Jobs, created[j] \in Times
    PROVE  CursorAt(j) \in [at : Times, id : Nat] /\ CursorAt(j) # NoCursor
<1>1. [created[j] EXCEPT !.us = 0] \in Times
  BY ListAssumption DEF Times
<1>2. j \in Nat
  BY ListAssumption
<1> QED BY <1>1, <1>2, NoTimeIsNone DEF CursorAt

\* A request keeps the invariant.
LEMMA ListStep ==
    ASSUME IInv, NEW limit \in 1..MaxLimit, List(limit)
    PROVE  IInv'
<1> USE DEF IInv
<1>1. PICK P \in SUBSET Listable :
          IsPage(P, Listable, limit) /\ NextCursor(P, Listable) /\ page' = P
  BY DEF List
<1>2. /\ Listable \subseteq visible \cap matching
      /\ UNCHANGED database
      /\ seen' = Listed /\ Listed' = Listed \cup P
      /\ Listed \subseteq visible
      /\ filter' = filter
  BY <1>1 DEF List, Listable, Listed, TypeOK
<1>3. ASSUME NEW j \in visible PROVE j \in Jobs /\ j \in Nat /\ created[j] \in Times
  BY <1>3, ListAssumption DEF TypeOK, RowsInv
<1>4. ASSUME pc = "more" PROVE cursor \in [at : Times, id : Nat] /\ cursor # NoCursor
  BY <1>4, NoTimeIsNone DEF TypeOK, RowsInv
<1>5. ASSUME pc = "start" PROVE Listed = {} /\ Listable = visible \cap matching
  BY <1>5 DEF RowsInv, Listed, Listable
<1>6. ASSUME NEW j \in Listed, NEW k \in P PROVE Newer(j, k)
  <2>1. pc = "more"
    BY <1>5 DEF List
  <2>2. ~Before(created[j], j, cursor)
    BY <2>1 DEF CursorInv
  <2>3. Before(created[k], k, cursor)
    BY <1>4, <2>1 DEF Listable
  <2> QED BY <1>2, <1>3, <1>4, <2>1, <2>2, <2>3, CursorSeparates DEF Newer
<1>7. NewestFirst'
  BY <1>1, <1>2, <1>6 DEF NewestFirst, Newer, database
<1>8. due' \subseteq visible \cap matching
  BY DEF List, TypeOK
<1>9. ASSUME NEW j \in due' \ Listed
      PROVE  j \in Listable \/ \E k \in Listed : SameMs(j, k)
  <2>1. CASE pc = "start"
    BY <1>5, <1>8, <2>1
  <2>2. CASE pc = "more"
    BY <1>8, <2>2 DEF List, CursorInv, Listable
  <2> QED BY <2>1, <2>2 DEF List
<1>10. CASE P = Listable
  <2>1. cursor' = NoCursor /\ pc' = "done"
    BY <1>1, <1>10 DEF NextCursor, List
  <2>2. TypeOK' /\ RowsInv' /\ CursorInv'
    BY <1>1, <1>2, <1>8, <2>1, NoTimeIsNone
       DEF TypeOK, RowsInv, CursorInv, database, NoCursor, Listed
  <2>3. NothingSkipped'
    BY <1>2, <1>9, <1>10 DEF NothingSkipped, SameMs, database
  <2> QED BY <1>7, <2>2, <2>3
<1>11. CASE P # Listable
  <2>1. PICK j \in P : (\A k \in P : k # j => Newer(k, j)) /\ cursor' = CursorAt(j)
    BY <1>1, <1>11 DEF NextCursor
  <2>2. j \in Jobs /\ created[j] \in Times
    BY <1>1, <1>2, <1>3
  <2>3. cursor' \in [at : Times, id : Nat] /\ pc' = "more"
    BY <2>1, <2>2, CursorAtHasType DEF List
  <2>4. TypeOK' /\ RowsInv'
    BY <1>1, <1>2, <1>8, <2>3 DEF TypeOK, RowsInv, database, Listed
  <2>5. ASSUME NEW k \in Listed \cup P PROVE ~Before(created[k], k, cursor')
    <3>1. k = j \/ Newer(k, j)
      BY <1>6, <2>1
    <3> QED BY <1>1, <1>2, <1>3, <2>1, <2>2, <3>1, CursorIsBelow
  <2>6. ASSUME NEW k \in due' \ (Listed \cup P)
        PROVE  Before(created[k], k, cursor') \/ \E l \in Listed \cup P : SameMs(k, l)
    <3>1. CASE k \in Listable
      <4>1. Newer(j, k)
        BY <1>1, <3>1 DEF IsPage
      <4> QED BY <1>2, <1>3, <2>1, <2>2, <3>1, <4>1, CursorIsClose
    <3> QED BY <1>9, <3>1
  <2>7. CursorInv'
    BY <1>2, <2>5, <2>6 DEF CursorInv, SameMs, database
  <2>8. NothingSkipped'
    BY <2>3 DEF NothingSkipped
  <2> QED BY <1>7, <2>4, <2>7, <2>8
<1> QED BY <1>10, <1>11

\* So do the steps of the database.
LEMMA InvStep == IInv /\ [Next]_vars => IInv'
<1> SUFFICES ASSUME IInv, [Next]_vars PROVE IInv'
  OBVIOUS
<1> USE DEF IInv, client
<1> USE DEF TypeOK, RowsInv, CursorInv, NewestFirst, NothingSkipped, Listed, SameMs, Newer
<1>1. CASE Tick
  BY <1>1 DEF Tick
<1>2. ASSUME NEW j \in Jobs, Insert(j) PROVE IInv'
  <2>1. j \notin visible
    BY <1>2, NoTimeIsNone DEF Insert
  <2>2. \A k \in visible : created'[k] = created[k]
    BY <1>2, <2>1 DEF Insert
  <2>3. created' \in [Jobs -> Times \cup {NoTime}]
    BY <1>2 DEF Insert
  <2> QED BY <1>2, <2>2, <2>3 DEF Insert
<1>3. ASSUME NEW j \in Jobs, Commit(j) PROVE IInv'
  BY <1>3 DEF Commit
<1>4. ASSUME NEW j \in Jobs, Enter(j) PROVE IInv'
  BY <1>4 DEF Enter
<1>5. ASSUME NEW j \in Jobs, Leave(j) PROVE IInv'
  BY <1>5 DEF Leave
<1>6. ASSUME NEW limit \in 1..MaxLimit, List(limit) PROVE IInv'
  BY <1>6, ListStep
<1>7. CASE UNCHANGED vars
  BY <1>7 DEF vars, database
<1> QED BY <1>1, <1>2, <1>3, <1>4, <1>5, <1>6, <1>7 DEF Next

LEMMA IInvHolds == Spec => []IInv
<1>1. Init => IInv
  <2> SUFFICES ASSUME Init PROVE IInv
    OBVIOUS
  <2>1. now \in Times
    BY ListAssumption DEF Init, Times
  <2>2. cursor \in [at : Times \cup {NoTime}, id : Nat]
    BY DEF Init, NoCursor
  <2> QED BY <2>1, <2>2
          DEF Init, IInv, TypeOK, RowsInv, CursorInv, NewestFirst, NothingSkipped, Listed
<1> QED BY <1>1, InvStep, PTL DEF Spec

\* The variables keep their types.
THEOREM TypeCorrect == Spec => []TypeOK
BY IInvHolds, PTL DEF IInv

\* The pages go from the newest job to the oldest and repeat none.
THEOREM PagesAreInOrder == Spec => []NewestFirst
BY IInvHolds, PTL DEF IInv

\* A whole list misses no job that could be listed all the time, but for those that share
\* a millisecond with one that it has.
THEOREM ListIsComplete == Spec => []NothingSkipped
BY IInvHolds, PTL DEF IInv
=============================================================================
