---------------------------- MODULE VotingProofs ----------------------------
(***************************************************************************)
(* What TLC checks of Voting on small instances, proved for every number   *)
(* of users, nominees, categories, requests and ids.                       *)
(***************************************************************************)
EXTENDS Voting, TLAPS

Assumptions == /\ CategoryOf \in [Nominees -> Categories]
               /\ MaxVoteId \in Nat \ {0}
               /\ None \notin Users \cup Nominees \cup Categories

LEMMA AssumptionsHold == Assumptions
BY NominationAssumption, SequenceAssumption, NoneAssumption DEF Assumptions

\* The records that requests are made of.
LEMMA RecordTypes ==
    /\ Idle \in Request
    /\ \A s \in {400, 401, 403, 500} : Blank("answered", s) \in Request
    /\ \A q \in Request, i \in 0..MaxVoteId, s \in {200, 201} : Returned(q, i, s) \in Request
<1>1. 0 \in 0..MaxVoteId
  BY AssumptionsHold DEF Assumptions
<1>2. Idle \in Request
  BY <1>1 DEF Idle, Blank, Request
<1>3. ASSUME NEW s \in {400, 401, 403, 500} PROVE Blank("answered", s) \in Request
  BY <1>1, <1>3 DEF Blank, Request
<1>4. ASSUME NEW q \in Request, NEW i \in 0..MaxVoteId, NEW s \in {200, 201}
      PROVE  Returned(q, i, s) \in Request
  <2> DEFINE q1 == [q EXCEPT !.pc = "reply"]
  <2> DEFINE q2 == [q1 EXCEPT !.id = i]
  <2>1. q1 \in Request
    BY <1>4 DEF Request, Steps
  <2>2. q2 \in Request
    <3> HIDE DEF q1
    <3> QED
      BY <2>1, <1>4 DEF Request
  <2>3. [q2 EXCEPT !.status = s] \in Request
    <3> HIDE DEF q2
    <3> QED
      BY <2>2, <1>4 DEF Request
  <2>4. Returned(q, i, s) = [q2 EXCEPT !.status = s]
    BY Zenon DEF Returned
  <2> QED
    BY <2>3, <2>4
<1> QED
  BY <1>2, <1>3, <1>4

\* The types are preserved by every step.
LEMMA TypeStep == TypeOK /\ Carried /\ [Next]_vars => TypeOK'
<1> SUFFICES ASSUME TypeOK, Carried, [Next]_vars PROVE TypeOK'
  OBVIOUS
<1> USE AssumptionsHold DEF Assumptions
<1>1. ASSUME NEW r \in Requests, NEW s \in {400, 401, 403, 500},
             Fail(r, s), UNCHANGED <<tables, closed>>
      PROVE  TypeOK'
  BY <1>1, RecordTypes DEF TypeOK, Fail, tables
<1>2. ASSUME NEW r \in Requests, NEW step \in Steps \cup {"answered"},
             Goto(r, step), UNCHANGED <<tables, closed>>
      PROVE  TypeOK'
  BY <1>2 DEF TypeOK, Goto, tables, Request, Steps
<1>3. ASSUME NEW r \in Requests, Handle(r) PROVE TypeOK'
  <2>1. CASE Authenticate(r)
    BY <2>1, <1>1, <1>2 DEF Authenticate, Steps
  <2>2. CASE CheckDeadline(r)
    BY <2>2, <1>1, <1>2 DEF CheckDeadline, Steps
  <2>3. CASE CheckUser(r)
    BY <2>3, <1>1, <1>2 DEF CheckUser, Steps
  <2>4. CASE CheckRequest(r)
    BY <2>4, <1>1, <1>2 DEF CheckRequest, Steps
  <2>5. CASE GetNominee(r)
    <3>1. CASE req[r].nominee \in nominees
      BY <2>5, <3>1 DEF GetNominee, TypeOK, Request, Steps, tables
    <3>2. CASE req[r].nominee \notin nominees
      BY <2>5, <3>2, <1>1 DEF GetNominee
    <3> QED
      BY <3>1, <3>2
  <2>6. CASE InsertExhausted(r)
    BY <2>6, <1>1 DEF InsertExhausted
  <2>7. CASE InsertConflict(r)
    BY <2>7 DEF InsertConflict, NextVal, Goto, TypeOK, Request, Steps
  <2>8. CASE InsertOrphan(r)
    <3>1. lastId' \in 0..MaxVoteId
      BY <2>8 DEF InsertOrphan, NextVal, TypeOK
    <3> QED
      BY <2>8, <3>1, RecordTypes DEF InsertOrphan, Fail, TypeOK
  <2>9. CASE InsertRow(r)
    <3>1. lastId' \in 0..MaxVoteId /\ lastId' = lastId + 1 /\ lastId + 1 \in 1..MaxVoteId
      BY <2>9 DEF InsertRow, NextVal, TypeOK
    <3>2. req' \in [Requests -> Request]
      BY <2>9, <3>1, RecordTypes DEF InsertRow, Return, TypeOK
    <3>3. [id |-> lastId + 1, user |-> req[r].user,
           nominee |-> req[r].nominee, category |-> req[r].category] \in Vote
      <4>1. /\ req[r].user \in Users
            /\ req[r].nominee \in Nominees
            /\ req[r].category \in Categories
        BY <2>9 DEF InsertRow, At, ParentsExist, TypeOK, Carried, Coherent
      <4> QED
        BY <4>1, <3>1 DEF Vote
    <3> QED
      BY <2>9, <3>1, <3>2, <3>3 DEF InsertRow, TypeOK
  <2>10. CASE UpdateFails(r)
    BY <2>10, <1>1 DEF UpdateFails
  <2>11. CASE UpdateRow(r)
    <3>1. PICK v \in RowsOf(req[r].user, req[r].category) : Return(r, v.id, 200)
      BY <2>11 DEF UpdateRow
    <3>2. v.id \in 0..MaxVoteId
      BY <3>1 DEF RowsOf, TypeOK, Vote
    <3>3. req' \in [Requests -> Request]
      BY <3>1, <3>2, RecordTypes DEF Return, TypeOK
    <3>4. \A w \in votes : Rewritten(w, r) \in Vote
      BY <2>11 DEF UpdateRow, Rewritten, TypeOK, Vote
    <3>5. votes' \in SUBSET Vote
      BY <2>11, <3>4 DEF UpdateRow, RowsOf, TypeOK
    <3> QED
      BY <2>11, <3>3, <3>5 DEF UpdateRow, TypeOK
  <2>12. CASE Reply(r)
    BY <2>12, <1>2 DEF Reply
  <2> QED
    BY <1>3, <2>1, <2>2, <2>3, <2>4, <2>5, <2>6, <2>7, <2>8, <2>9, <2>10, <2>11, <2>12
       DEF Handle
<1>4. ASSUME NEW r \in Requests, Client(r) PROVE TypeOK'
  <2>1. ASSUME NEW u \in Users, NEW n \in Nominees \cup {None}, NEW c \in BOOLEAN,
               Send(r, u, n, c)
        PROVE  TypeOK'
    <3>1. [pc |-> "auth", user |-> u, csrf |-> c, nominee |-> n,
           category |-> None, id |-> 0, status |-> 0] \in Request
      BY <2>1 DEF Request, Steps
    <3> QED
      BY <2>1, <3>1 DEF Send, TypeOK, tables
  <2>2. CASE Receive(r)
    BY <2>2, RecordTypes DEF Receive, TypeOK, tables
  <2> QED
    BY <1>4, <2>1, <2>2 DEF Client
<1>5. ASSUME NEW r \in Requests, StatementLost(r) PROVE TypeOK'
  BY <1>5, <1>1 DEF StatementLost
<1>6. ASSUME Environment PROVE TypeOK'
  <2>1. ASSUME NEW u \in Users, Register(u) PROVE TypeOK'
    BY <2>1 DEF Register, TypeOK
  <2>2. ASSUME NEW u \in Users, DeleteUser(u) PROVE TypeOK'
    BY <2>2 DEF DeleteUser, TypeOK
  <2>3. ASSUME NEW n \in Nominees, AddNominee(n) PROVE TypeOK'
    BY <2>3 DEF AddNominee, TypeOK
  <2>4. ASSUME NEW S \in SUBSET nominees, DeleteNominees(S) PROVE TypeOK'
    BY <2>4 DEF DeleteNominees, TypeOK
  <2>5. CASE PassDeadline
    BY <2>5 DEF PassDeadline, TypeOK, tables
  <2>6. CASE Crash
    BY <2>6, RecordTypes DEF Crash, TypeOK, tables
  <2> QED
    BY <1>6, <2>1, <2>2, <2>3, <2>4, <2>5, <2>6 DEF Environment
<1>7. CASE UNCHANGED vars
  BY <1>7 DEF vars, TypeOK
<1> QED
  BY <1>3, <1>4, <1>5, <1>6, <1>7 DEF Next

\* What requests carry stays coherent.
LEMMA CarriedStep == TypeOK /\ Carried /\ [Next]_vars => Carried'
<1> SUFFICES ASSUME TypeOK, Carried, [Next]_vars PROVE Carried'
  OBVIOUS
<1> USE AssumptionsHold DEF Assumptions
<1>1. ASSUME NEW r \in Requests, NEW s \in {400, 401, 403, 500}, Fail(r, s)
      PROVE  Carried'
  <2>1. Coherent(Blank("answered", s))
    BY <1>1 DEF Coherent, Blank, Steps
  <2> QED
    BY <1>1, <2>1 DEF Fail, Carried, TypeOK
<1>2. ASSUME NEW r \in Requests, NEW step \in Steps \cup {"answered"}, Goto(r, step),
             Coherent([req[r] EXCEPT !.pc = step])
      PROVE  Carried'
  BY <1>2 DEF Goto, Carried, TypeOK
<1>3. ASSUME NEW r \in Requests, Handle(r) PROVE Carried'
  <2> USE DEF At, Coherent, Steps
  <2>0. /\ req[r] \in Request
        /\ Coherent(req[r])
    BY DEF TypeOK, Carried
  <2>1. CASE Authenticate(r)
    BY <2>1, <2>0, <1>1, <1>2 DEF Authenticate, Request
  <2>2. CASE CheckDeadline(r)
    BY <2>2, <2>0, <1>1, <1>2 DEF CheckDeadline, Request
  <2>3. CASE CheckUser(r)
    BY <2>3, <2>0, <1>1, <1>2 DEF CheckUser, Request
  <2>4. CASE CheckRequest(r)
    BY <2>4, <2>0, <1>1, <1>2 DEF CheckRequest, Request
  <2>5. CASE GetNominee(r)
    <3>1. CASE req[r].nominee \in nominees
      BY <2>5, <3>1, <2>0 DEF GetNominee, TypeOK, Request, Carried
    <3>2. CASE req[r].nominee \notin nominees
      BY <2>5, <3>2, <1>1 DEF GetNominee
    <3> QED
      BY <3>1, <3>2
  <2>6. CASE InsertExhausted(r)
    BY <2>6, <1>1 DEF InsertExhausted
  <2>7. CASE InsertConflict(r)
    BY <2>7, <2>0, <1>2 DEF InsertConflict, Request
  <2>8. CASE InsertOrphan(r)
    BY <2>8, <1>1 DEF InsertOrphan
  <2>9. CASE InsertRow(r)
    <3>1. Coherent(Returned(req[r], lastId + 1, 201))
      BY <2>9, <2>0 DEF InsertRow, Returned, Request
    <3> QED
      BY <2>9, <3>1 DEF InsertRow, Return, Carried, TypeOK
  <2>10. CASE UpdateFails(r)
    BY <2>10, <1>1 DEF UpdateFails
  <2>11. CASE UpdateRow(r)
    <3>1. PICK v \in RowsOf(req[r].user, req[r].category) : Return(r, v.id, 200)
      BY <2>11 DEF UpdateRow
    <3>2. Coherent(Returned(req[r], v.id, 200))
      BY <2>11, <2>0 DEF UpdateRow, Returned, Request
    <3> QED
      BY <3>1, <3>2 DEF Return, Carried, TypeOK
  <2>12. CASE Reply(r)
    BY <2>12, <2>0, <1>2 DEF Reply, Request
  <2> QED
    BY <1>3, <2>1, <2>2, <2>3, <2>4, <2>5, <2>6, <2>7, <2>8, <2>9, <2>10, <2>11, <2>12
       DEF Handle
<1>4. Coherent(Idle)
  BY DEF Coherent, Idle, Blank, Steps
<1>5. ASSUME NEW r \in Requests, Client(r) PROVE Carried'
  <2>1. ASSUME NEW u \in Users, NEW n \in Nominees \cup {None}, NEW c \in BOOLEAN,
               Send(r, u, n, c)
        PROVE  Carried'
    <3>1. Coherent([pc |-> "auth", user |-> u, csrf |-> c, nominee |-> n,
                    category |-> None, id |-> 0, status |-> 0])
      BY <2>1 DEF Coherent, Steps
    <3> QED
      BY <2>1, <3>1 DEF Send, Carried, TypeOK
  <2>2. CASE Receive(r)
    BY <2>2, <1>4 DEF Receive, Carried, TypeOK
  <2> QED
    BY <1>5, <2>1, <2>2 DEF Client
<1>6. ASSUME NEW r \in Requests, StatementLost(r) PROVE Carried'
  BY <1>6, <1>1 DEF StatementLost
<1>7. ASSUME Environment PROVE Carried'
  <2>1. CASE Crash
    BY <2>1, <1>4 DEF Crash, Carried
  <2>2. CASE req' = req
    BY <2>2 DEF Carried
  <2> QED
    BY <1>7, <2>1, <2>2
       DEF Environment, Register, DeleteUser, AddNominee, DeleteNominees, PassDeadline
<1>8. CASE UNCHANGED vars
  BY <1>8 DEF vars, Carried
<1> QED
  BY <1>3, <1>5, <1>6, <1>7, <1>8 DEF Next

-----------------------------------------------------------------------------
(* Only InsertRow and UpdateRow write votes or hand out receipts; every     *)
(* other step at most deletes votes with their user or nominee, and at most *)
(* drops receipts.                                                          *)

SameReceipt(p, q) == /\ p.status = q.status
                     /\ p.id = q.id
                     /\ p.user = q.user
                     /\ p.category = q.category

Inert == /\ votes' \subseteq votes
         /\ \A v \in votes' : /\ v.user \in users => v.user \in users'
                              /\ v.nominee \in nominees => v.nominee \in nominees'
         /\ \A v \in votes \ votes' : v.user \notin users' \/ v.nominee \notin nominees'
         /\ lastId <= lastId' /\ lastId' \in Nat
         /\ \A r \in Requests : req'[r].id \in {0, req[r].id}
         /\ \A r \in Requests : req'[r].status \in {200, 201} => SameReceipt(req'[r], req[r])

LEMMA StepKinds ==
    TypeOK /\ Carried /\ [Next]_vars =>
        (\E r \in Requests : InsertRow(r) \/ UpdateRow(r)) \/ Inert
<1> SUFFICES ASSUME TypeOK, Carried, [Next]_vars,
                    ~ \E r \in Requests : InsertRow(r) \/ UpdateRow(r)
             PROVE  Inert
  OBVIOUS
<1> USE AssumptionsHold DEF Assumptions
<1> DEFINE VotesStay == votes' = votes /\ users' = users /\ nominees' = nominees
           IdsGrow == lastId <= lastId' /\ lastId' \in Nat
           Ids == \A r \in Requests : req'[r].id \in {0, req[r].id}
           Kept == \A r \in Requests : req'[r].status \in {200, 201}
                                        => SameReceipt(req'[r], req[r])
<1>1. ASSUME VotesStay, IdsGrow, Ids, Kept PROVE Inert
  BY <1>1 DEF Inert
<1>2. lastId \in Nat /\ (lastId' = lastId => IdsGrow)
  BY DEF TypeOK
<1>3. ASSUME NEW r \in Requests, NEW s \in {400, 401, 403, 500}, Fail(r, s)
      PROVE  Ids /\ Kept
  BY <1>3 DEF Fail, Blank, TypeOK, SameReceipt
<1>4. ASSUME NEW r \in Requests, NEW step \in Steps \cup {"answered"}, Goto(r, step)
      PROVE  Ids /\ Kept
  BY <1>4 DEF Goto, TypeOK, Request, SameReceipt
<1>5. ASSUME NEW r \in Requests, req' = [req EXCEPT ![r] = Idle]
      PROVE  Ids /\ Kept
  BY <1>5 DEF Idle, Blank, TypeOK, SameReceipt
<1>6. ASSUME NEW r \in Requests, Handle(r) PROVE Inert
  <2> USE DEF tables, Steps
  <2>1. CASE Authenticate(r)
    BY <2>1, <1>1, <1>2, <1>3, <1>4 DEF Authenticate
  <2>2. CASE CheckDeadline(r)
    BY <2>2, <1>1, <1>2, <1>3, <1>4 DEF CheckDeadline
  <2>3. CASE CheckUser(r)
    BY <2>3, <1>1, <1>2, <1>3, <1>4 DEF CheckUser
  <2>4. CASE CheckRequest(r)
    BY <2>4, <1>1, <1>2, <1>3, <1>4 DEF CheckRequest
  <2>5. CASE GetNominee(r)
    <3>1. CASE req[r].nominee \in nominees
      <4>1. req[r].status = 0 /\ req[r] \in Request
        BY <2>5 DEF GetNominee, At, Carried, Coherent, TypeOK
      <4>2. Ids /\ Kept
        BY <2>5, <3>1, <4>1 DEF GetNominee, TypeOK, Request, SameReceipt
      <4> QED
        BY <2>5, <4>2, <1>1, <1>2 DEF GetNominee
    <3>2. CASE req[r].nominee \notin nominees
      BY <2>5, <3>2, <1>1, <1>2, <1>3 DEF GetNominee
    <3> QED
      BY <3>1, <3>2
  <2>6. CASE InsertExhausted(r)
    BY <2>6, <1>1, <1>2, <1>3 DEF InsertExhausted
  <2>7. CASE InsertConflict(r)
    <3>1. IdsGrow
      BY <2>7, <1>2 DEF InsertConflict, NextVal
    <3> QED
      BY <2>7, <3>1, <1>1, <1>4 DEF InsertConflict
  <2>8. CASE InsertOrphan(r)
    <3>1. IdsGrow
      BY <2>8, <1>2 DEF InsertOrphan, NextVal
    <3> QED
      BY <2>8, <3>1, <1>1, <1>3 DEF InsertOrphan
  <2>9. CASE UpdateFails(r)
    BY <2>9, <1>1, <1>2, <1>3 DEF UpdateFails
  <2>10. CASE Reply(r)
    BY <2>10, <1>1, <1>2, <1>4 DEF Reply
  <2> QED
    BY <1>6, <2>1, <2>2, <2>3, <2>4, <2>5, <2>6, <2>7, <2>8, <2>9, <2>10 DEF Handle
<1>7. ASSUME NEW r \in Requests, Client(r) PROVE Inert
  <2>1. ASSUME NEW u \in Users, NEW n \in Nominees \cup {None}, NEW c \in BOOLEAN,
               Send(r, u, n, c)
        PROVE  Inert
    <3>1. Ids /\ Kept
      BY <2>1 DEF Send, TypeOK, SameReceipt
    <3> QED
      BY <2>1, <3>1, <1>1, <1>2 DEF Send, tables
  <2>2. CASE Receive(r)
    BY <2>2, <1>1, <1>2, <1>5 DEF Receive, tables
  <2> QED
    BY <1>7, <2>1, <2>2 DEF Client
<1>8. ASSUME NEW r \in Requests, StatementLost(r) PROVE Inert
  BY <1>8, <1>1, <1>2, <1>3 DEF StatementLost, tables
<1>9. ASSUME Environment PROVE Inert
  <2>1. ASSUME req' = req PROVE Ids /\ Kept
    BY <2>1 DEF SameReceipt
  <2>2. ASSUME NEW u \in Users, Register(u) PROVE Inert
    BY <2>2, <2>1, <1>2 DEF Register, Inert
  <2>3. ASSUME NEW u \in Users, DeleteUser(u) PROVE Inert
    BY <2>3, <2>1, <1>2 DEF DeleteUser, Inert
  <2>4. ASSUME NEW n \in Nominees, AddNominee(n) PROVE Inert
    BY <2>4, <2>1, <1>2 DEF AddNominee, Inert
  <2>5. ASSUME NEW S \in SUBSET nominees, DeleteNominees(S) PROVE Inert
    BY <2>5, <2>1, <1>2 DEF DeleteNominees, VotesFor, Inert
  <2>6. CASE PassDeadline
    BY <2>6, <2>1, <1>1, <1>2 DEF PassDeadline, tables
  <2>7. CASE Crash
    <3>1. Ids /\ Kept
      BY <2>7 DEF Crash, Idle, Blank, SameReceipt
    <3> QED
      BY <2>7, <3>1, <1>1, <1>2 DEF Crash, tables
  <2> QED
    BY <1>9, <2>2, <2>3, <2>4, <2>5, <2>6, <2>7 DEF Environment
<1>10. CASE UNCHANGED vars
  <2>1. Ids /\ Kept
    BY <1>10 DEF vars, SameReceipt
  <2> QED
    BY <1>10, <2>1, <1>1, <1>2 DEF vars
<1> QED
  BY <1>6, <1>7, <1>8, <1>9, <1>10 DEF Next

-----------------------------------------------------------------------------
(* What the two writing steps do, spelled out once.                         *)

LEMMA InsertEffect ==
    ASSUME TypeOK, Carried, NEW r \in Requests, InsertRow(r)
    PROVE  LET new == [id |-> lastId + 1, user |-> req[r].user,
                       nominee |-> req[r].nominee, category |-> req[r].category]
           IN  /\ votes' = votes \cup {new}
               /\ lastId \in Nat /\ lastId' = lastId + 1
               /\ req[r].user \in users /\ req[r].nominee \in nominees
               /\ req[r].category = CategoryOf[req[r].nominee]
               /\ \A v \in votes : v.user # req[r].user \/ v.category # req[r].category
               /\ users' = users /\ nominees' = nominees
               /\ \A s \in Requests \ {r} : req'[s] = req[s]
               /\ /\ req'[r].id = lastId + 1 /\ req'[r].status = 201
                  /\ req'[r].user = req[r].user /\ req'[r].category = req[r].category
<1>1. lastId \in Nat
  BY AssumptionsHold DEF TypeOK, Assumptions
<1>2. req[r].category = CategoryOf[req[r].nominee]
  BY DEF InsertRow, At, Carried, Coherent
<1>3. req' = [req EXCEPT ![r] = Returned(req[r], lastId + 1, 201)]
  BY DEF InsertRow, Return
<1>4. \A s \in Requests \ {r} : req'[s] = req[s]
  BY <1>3 DEF TypeOK
<1>5. /\ req'[r].id = lastId + 1 /\ req'[r].status = 201
      /\ req'[r].user = req[r].user /\ req'[r].category = req[r].category
  BY <1>3 DEF TypeOK, Returned, Request
<1>6. \A v \in votes : v.user # req[r].user \/ v.category # req[r].category
  BY DEF InsertRow, Conflicts, RowsOf
<1> QED
  BY <1>1, <1>2, <1>4, <1>5, <1>6 DEF InsertRow, NextVal, ParentsExist

LEMMA UpdateEffect ==
    ASSUME TypeOK, Carried, OneVotePerCategory, NEW r \in Requests, UpdateRow(r)
    PROVE  \E v \in votes :
             /\ v.user = req[r].user /\ v.category = req[r].category
             /\ votes' = (votes \ {v}) \cup {Rewritten(v, r)}
             /\ /\ Rewritten(v, r).id = v.id
                /\ Rewritten(v, r).user = v.user
                /\ Rewritten(v, r).category = v.category
                /\ Rewritten(v, r).nominee = req[r].nominee
             /\ req[r].nominee \in nominees
             /\ req[r].category = CategoryOf[req[r].nominee]
             /\ lastId' = lastId /\ users' = users /\ nominees' = nominees
             /\ \A s \in Requests \ {r} : req'[s] = req[s]
             /\ /\ req'[r].id = v.id /\ req'[r].status = 200
                /\ req'[r].user = req[r].user /\ req'[r].category = req[r].category
<1> DEFINE R == RowsOf(req[r].user, req[r].category)
<1>1. PICK v \in R : /\ votes' = (votes \ R) \cup {Rewritten(w, r) : w \in R}
                     /\ Return(r, v.id, 200)
  BY DEF UpdateRow
<1>2. v \in votes /\ v.user = req[r].user /\ v.category = req[r].category
  BY DEF RowsOf
<1>3. R = {v}
  BY <1>2 DEF OneVotePerCategory, RowsOf
<1>4. votes' = (votes \ {v}) \cup {Rewritten(v, r)}
  <2> HIDE DEF R
  <2> QED
    BY <1>1, <1>3
<1>5. /\ Rewritten(v, r).id = v.id
      /\ Rewritten(v, r).user = v.user
      /\ Rewritten(v, r).category = v.category
      /\ Rewritten(v, r).nominee = req[r].nominee
  BY <1>2 DEF Rewritten, TypeOK, Vote
<1>6. req' = [req EXCEPT ![r] = Returned(req[r], v.id, 200)]
  BY <1>1 DEF Return
<1>7. \A s \in Requests \ {r} : req'[s] = req[s]
  BY <1>6 DEF TypeOK
<1>8. /\ req'[r].id = v.id /\ req'[r].status = 200
      /\ req'[r].user = req[r].user /\ req'[r].category = req[r].category
  BY <1>6 DEF TypeOK, Returned, Request
<1>9. req[r].nominee \in nominees /\ req[r].category = CategoryOf[req[r].nominee]
  BY DEF UpdateRow, At, Carried, Coherent
<1> QED
  BY <1>2, <1>4, <1>5, <1>7, <1>8, <1>9 DEF UpdateRow

-----------------------------------------------------------------------------
(* The inductive invariant, conjunct by conjunct.                           *)

LEMMA VotesStandStep == IInv /\ [Next]_vars => VotesStand'
<1> SUFFICES ASSUME IInv, [Next]_vars PROVE VotesStand'
  OBVIOUS
<1> USE DEF IInv
<1>1. ASSUME NEW r \in Requests, InsertRow(r) PROVE VotesStand'
  BY <1>1, InsertEffect DEF VotesStand
<1>2. ASSUME NEW r \in Requests, UpdateRow(r) PROVE VotesStand'
  BY <1>2, UpdateEffect DEF VotesStand
<1>3. CASE Inert
  <2> SUFFICES ASSUME NEW v \in votes'
               PROVE  v.user \in users' /\ v.nominee \in nominees' /\ v.category = CategoryOf[v.nominee]
    BY DEF VotesStand
  <2>1. v \in votes
    BY <1>3 DEF Inert
  <2>2. v.user \in users /\ v.nominee \in nominees /\ v.category = CategoryOf[v.nominee]
    BY <2>1 DEF VotesStand
  <2>3. /\ v.user \in users => v.user \in users'
        /\ v.nominee \in nominees => v.nominee \in nominees'
    BY <1>3 DEF Inert
  <2> QED
    BY <2>2, <2>3
<1> QED
  BY <1>1, <1>2, <1>3, StepKinds

LEMMA OneVoteStep == IInv /\ [Next]_vars => OneVotePerCategory'
<1> SUFFICES ASSUME IInv, [Next]_vars PROVE OneVotePerCategory'
  OBVIOUS
<1> USE DEF IInv
<1>1. ASSUME NEW r \in Requests, InsertRow(r) PROVE OneVotePerCategory'
  <2>1. \A v \in votes : v.id \in Nat /\ v.id < lastId + 1
    BY AssumptionsHold DEF Assumptions, IdsTaken, TypeOK, Vote
  <2> QED
    BY <1>1, <2>1, InsertEffect DEF OneVotePerCategory
<1>2. ASSUME NEW r \in Requests, UpdateRow(r) PROVE OneVotePerCategory'
  BY <1>2, UpdateEffect DEF OneVotePerCategory
<1>3. CASE Inert
  BY <1>3 DEF Inert, OneVotePerCategory
<1> QED
  BY <1>1, <1>2, <1>3, StepKinds

LEMMA IdsTakenStep == IInv /\ [Next]_vars => IdsTaken'
<1> SUFFICES ASSUME IInv, [Next]_vars PROVE IdsTaken'
  OBVIOUS
<1> USE DEF IInv
<1>0. /\ lastId \in Nat
      /\ \A v \in votes : v.id \in Nat
      /\ \A r \in Requests : req[r].id \in Nat
  BY AssumptionsHold DEF Assumptions, TypeOK, Vote, Request
<1>1. ASSUME NEW r \in Requests, InsertRow(r) PROVE IdsTaken'
  BY <1>0, <1>1, InsertEffect DEF IdsTaken
<1>2. ASSUME NEW r \in Requests, UpdateRow(r) PROVE IdsTaken'
  BY <1>0, <1>2, UpdateEffect DEF IdsTaken
<1>3. CASE Inert
  BY <1>0, <1>3 DEF Inert, IdsTaken
<1> QED
  BY <1>1, <1>2, <1>3, StepKinds

LEMMA ReceiptsStep == IInv /\ [Next]_vars => ReceiptsAgree'
<1> SUFFICES ASSUME IInv, [Next]_vars PROVE ReceiptsAgree'
  OBVIOUS
<1> USE DEF IInv
<1>0. /\ lastId \in Nat
      /\ \A v \in votes : v.id \in Nat /\ v.id # lastId + 1
      /\ \A r \in Requests : req[r].id \in Nat /\ req[r].id # lastId + 1
  BY AssumptionsHold DEF Assumptions, IdsTaken, TypeOK, Vote, Request
<1>1. ASSUME NEW r \in Requests, InsertRow(r) PROVE ReceiptsAgree'
  BY <1>0, <1>1, InsertEffect DEF ReceiptsAgree, Receipts
<1>2. ASSUME NEW r \in Requests, UpdateRow(r) PROVE ReceiptsAgree'
  <2>1. PICK v \in votes :
          /\ v.user = req[r].user /\ v.category = req[r].category
          /\ votes' = (votes \ {v}) \cup {Rewritten(v, r)}
          /\ /\ Rewritten(v, r).id = v.id
             /\ Rewritten(v, r).user = v.user
             /\ Rewritten(v, r).category = v.category
          /\ \A s \in Requests \ {r} : req'[s] = req[s]
          /\ /\ req'[r].id = v.id /\ req'[r].status = 200
             /\ req'[r].user = req[r].user /\ req'[r].category = req[r].category
    BY <1>2, UpdateEffect
  <2>2. \A s \in Receipts' : s = r \/ (s \in Receipts /\ req'[s] = req[s])
    BY <2>1 DEF Receipts
  <2>3. \A s \in Receipts : req[s].id = v.id
                            => req[s].user = v.user /\ req[s].category = v.category
    BY DEF ReceiptsAgree
  <2>4. \A w \in votes' : \E o \in votes : w.id = o.id /\ w.user = o.user /\ w.category = o.category
    BY <2>1
  <2>5. \A o \in votes : o.id = v.id => o = v
    BY DEF OneVotePerCategory
  <2>6. \A s, t \in Receipts' :
           (req'[s].id = req'[t].id /\ req'[s].status = 201 /\ req'[t].status = 201) => s = t
    BY <2>1, <2>2 DEF ReceiptsAgree
  <2>7. \A s, t \in Receipts' :
           req'[s].id = req'[t].id => req'[s].user = req'[t].user /\ req'[s].category = req'[t].category
    BY <2>1, <2>2, <2>3 DEF ReceiptsAgree
  <2>8. \A s \in Receipts', w \in votes' :
           req'[s].id = w.id => req'[s].user = w.user /\ req'[s].category = w.category
    <3> SUFFICES ASSUME NEW s \in Receipts', NEW w \in votes', req'[s].id = w.id
                 PROVE  req'[s].user = w.user /\ req'[s].category = w.category
      OBVIOUS
    <3>1. PICK o \in votes : w.id = o.id /\ w.user = o.user /\ w.category = o.category
      BY <2>4
    <3>2. CASE s = r
      BY <3>1, <3>2, <2>1, <2>5
    <3>3. CASE s \in Receipts /\ req'[s] = req[s]
      BY <3>1, <3>3 DEF ReceiptsAgree
    <3> QED
      BY <3>2, <3>3, <2>2
  <2> QED
    BY <2>6, <2>7, <2>8 DEF ReceiptsAgree
<1>3. CASE Inert
  <2>1. \A r \in Receipts' : r \in Receipts /\ SameReceipt(req'[r], req[r])
    BY <1>3 DEF Inert, Receipts, SameReceipt
  <2> QED
    BY <1>3, <2>1 DEF Inert, ReceiptsAgree, SameReceipt
<1> QED
  BY <1>1, <1>2, <1>3, StepKinds

LEMMA InitIInv == Init => IInv
<1> SUFFICES ASSUME Init PROVE IInv
  OBVIOUS
<1> USE AssumptionsHold DEF Assumptions, Init
<1>1. TypeOK
  <2>1. lastId \in 0..MaxVoteId
    OBVIOUS
  <2>2. req \in [Requests -> Request]
    BY RecordTypes
  <2> QED
    BY <2>1, <2>2 DEF TypeOK
<1>2. VotesStand /\ OneVotePerCategory
  BY DEF VotesStand, OneVotePerCategory
<1>3. Carried
  BY DEF Carried, Coherent, Idle, Blank, Steps
<1>4. IdsTaken
  BY DEF IdsTaken, Idle, Blank
<1>5. ReceiptsAgree
  BY DEF ReceiptsAgree, Receipts, Idle, Blank
<1> QED
  BY <1>1, <1>2, <1>3, <1>4, <1>5 DEF IInv

LEMMA IInvStep == IInv /\ [Next]_vars => IInv'
BY TypeStep, CarriedStep, VotesStandStep, OneVoteStep, IdsTakenStep, ReceiptsStep DEF IInv

\* The conjunction of all that ties rows, ids and answers together is invariant.
THEOREM Invariance == Spec => []IInv
BY InitIInv, IInvStep, PTL DEF Spec

-----------------------------------------------------------------------------
(* The theorems about the properties that the runs check.                   *)

\* Every variable of the vote endpoint keeps its type.
THEOREM TypeCorrect == Spec => []TypeOK
<1>1. IInv => TypeOK
  BY DEF IInv
<1> QED
  BY <1>1, Invariance, PTL

\* A vote is always of an existing user for an existing nominee of its category.
THEOREM VotesAlwaysStand == Spec => []VotesStand
<1>1. IInv => VotesStand
  BY DEF IInv
<1> QED
  BY <1>1, Invariance, PTL

\* However the two statements of the store interleave, there is one row per
\* user and category.
THEOREM OneVoteAlways == Spec => []OneVotePerCategory
<1>1. IInv => OneVotePerCategory
  BY DEF IInv
<1> QED
  BY <1>1, Invariance, PTL

\* An id is announced as created once, and answers and rows agree on its owner.
THEOREM ReceiptsAlwaysAgree == Spec => []ReceiptsAgree
<1>1. IInv => ReceiptsAgree
  BY DEF IInv
<1> QED
  BY <1>1, Invariance, PTL

\* Changing a vote keeps its row: only a deleted user or nominee removes one.
THEOREM RowsAlwaysPersist == Spec => RowsPersist
<1> DEFINE Persist ==
      \A v \in votes :
          \/ v.user \notin users' \/ v.nominee \notin nominees'
          \/ \E w \in votes' : w.id = v.id /\ w.user = v.user /\ w.category = v.category
<1>1. IInv /\ [Next]_vars => Persist
  <2> SUFFICES ASSUME IInv, [Next]_vars PROVE Persist
    OBVIOUS
  <2> USE DEF IInv
  <2>1. ASSUME NEW r \in Requests, InsertRow(r) PROVE Persist
    BY <2>1, InsertEffect
  <2>2. ASSUME NEW r \in Requests, UpdateRow(r) PROVE Persist
    BY <2>2, UpdateEffect
  <2>3. CASE Inert
    BY <2>3 DEF Inert
  <2> QED
    BY <2>1, <2>2, <2>3, StepKinds
<1>2. IInv /\ [Next]_vars => [Persist]_vars
  BY <1>1
<1> QED
  BY <1>2, Invariance, PTL DEF Spec, RowsPersist

-----------------------------------------------------------------------------
(* After the deadline.                                                      *)

WriteSteps == {"user", "check", "nominee", "insert", "update"}

\* A step of the request r keeps the writers few if r writes only if it did before.
LEMMA OneRequestMoves ==
    ASSUME TypeOK, NEW r \in Requests, NEW q, req' = [req EXCEPT ![r] = q],
           q.pc \in WriteSteps => req[r].pc \in WriteSteps
    PROVE  MayWrite' \subseteq MayWrite
<1>1. \A s \in Requests : req'[s] = IF s = r THEN q ELSE req[s]
  BY DEF TypeOK
<1> QED
  BY <1>1 DEF MayWrite, WriteSteps

\* Nobody is let in after the deadline, which has no end.
LEMMA WritersShrink == TypeOK /\ closed /\ [Next]_vars => closed' /\ MayWrite' \subseteq MayWrite
<1> SUFFICES ASSUME TypeOK, closed, [Next]_vars
             PROVE  closed' /\ MayWrite' \subseteq MayWrite
  OBVIOUS
<1> DEFINE Fewer == MayWrite' \subseteq MayWrite
<1>1. ASSUME NEW r \in Requests, NEW s, Fail(r, s) PROVE Fewer
  <2>1. Blank("answered", s).pc \notin WriteSteps
    BY DEF Blank, WriteSteps
  <2> QED
    BY <1>1, <2>1, OneRequestMoves DEF Fail
<1>2. ASSUME NEW r \in Requests, NEW step, Goto(r, step),
             step \in WriteSteps => req[r].pc \in WriteSteps
      PROVE  Fewer
  <2>1. /\ req' = [req EXCEPT ![r] = [req[r] EXCEPT !.pc = step]]
        /\ [req[r] EXCEPT !.pc = step].pc = step
    BY <1>2 DEF Goto, TypeOK, Request
  <2> QED
    BY <1>2, <2>1, OneRequestMoves
<1>3. ASSUME NEW r \in Requests, NEW id, NEW status, req[r].pc \in WriteSteps,
             Return(r, id, status)
      PROVE  Fewer
  BY <1>3, OneRequestMoves DEF Return
<1>4. ASSUME UNCHANGED req PROVE Fewer
  BY <1>4 DEF MayWrite
<1>5. ASSUME NEW r \in Requests, Handle(r) PROVE closed' /\ Fewer
  <2> USE DEF At, WriteSteps
  <2>1. CASE Authenticate(r)
    BY <1>1, <1>2, <2>1 DEF Authenticate
  <2>2. CASE CheckDeadline(r)
    BY <1>1, <2>2 DEF CheckDeadline
  <2>3. CASE CheckUser(r)
    BY <1>1, <1>2, <2>3 DEF CheckUser
  <2>4. CASE CheckRequest(r)
    BY <1>1, <1>2, <2>4 DEF CheckRequest
  <2>5. CASE GetNominee(r)
    <3>1. CASE req[r].nominee \in nominees
      <4>1. req' = [req EXCEPT ![r] = [req[r] EXCEPT !.pc = "insert",
                                                     !.category = CategoryOf[req[r].nominee]]]
        BY <2>5, <3>1 DEF GetNominee
      <4> QED
        BY <2>5, <4>1, OneRequestMoves DEF GetNominee
    <3>2. CASE req[r].nominee \notin nominees
      BY <1>1, <2>5, <3>2 DEF GetNominee
    <3> QED
      BY <2>5, <3>1, <3>2 DEF GetNominee
  <2>6. CASE InsertExhausted(r) \/ InsertOrphan(r) \/ UpdateFails(r)
    BY <1>1, <2>6 DEF InsertExhausted, InsertOrphan, UpdateFails
  <2>7. CASE InsertConflict(r)
    BY <1>2, <2>7 DEF InsertConflict
  <2>8. CASE InsertRow(r)
    BY <1>3, <2>8 DEF InsertRow
  <2>9. CASE UpdateRow(r)
    BY <1>3, <2>9 DEF UpdateRow
  <2>10. CASE Reply(r)
    BY <1>2, <2>10 DEF Reply
  <2> QED
    BY <1>5, <2>1, <2>2, <2>3, <2>4, <2>5, <2>6, <2>7, <2>8, <2>9, <2>10 DEF Handle
<1>6. ASSUME NEW r \in Requests, Client(r) PROVE closed' /\ Fewer
  <2>1. Idle.pc \notin WriteSteps
    BY DEF Idle, Blank, WriteSteps
  <2>2. ASSUME NEW u, NEW n, NEW c, Send(r, u, n, c) PROVE closed' /\ Fewer
    <3> DEFINE q == [pc |-> "auth", user |-> u, csrf |-> c, nominee |-> n,
                     category |-> None, id |-> 0, status |-> 0]
    <3>1. req' = [req EXCEPT ![r] = q]
      BY <2>2 DEF Send
    <3>2. q.pc \notin WriteSteps
      BY DEF WriteSteps
    <3> HIDE DEF q
    <3> QED
      BY <2>2, <3>1, <3>2, OneRequestMoves DEF Send, tables
  <2>3. CASE Receive(r)
    BY <2>1, <2>3, OneRequestMoves DEF Receive
  <2> QED
    BY <1>6, <2>2, <2>3 DEF Client
<1>7. ASSUME NEW r \in Requests, StatementLost(r) PROVE closed' /\ Fewer
  BY <1>1, <1>7 DEF StatementLost
<1>8. CASE Environment
  <2>1. CASE Crash
    <3>1. Idle.pc \notin WriteSteps
      BY DEF Idle, Blank, WriteSteps
    <3>2. \A r \in Requests : req'[r] = IF r \in InProgress THEN Idle ELSE req[r]
      BY <2>1 DEF Crash
    <3>3. Fewer
      BY <3>1, <3>2 DEF MayWrite, WriteSteps
    <3> QED
      BY <2>1, <3>3 DEF Crash
  <2>2. CASE PassDeadline
    BY <1>4, <2>2 DEF PassDeadline
  <2> QED
    BY <1>4, <1>8, <2>1, <2>2 DEF Environment, Register, DeleteUser, AddNominee, DeleteNominees
<1>9. CASE UNCHANGED vars
  BY <1>4, <1>9 DEF vars
<1> QED
  BY <1>5, <1>6, <1>7, <1>8, <1>9 DEF Next

\* However late the votes are that the endpoint writes after the deadline, they are
\* of requests admitted before it, and when these are done the tally stays.
THEOREM LateWritersAlwaysShrink == Spec => LateWritersShrink
<1> DEFINE Shrink == closed => /\ closed'
                               /\ MayWrite' \subseteq MayWrite
                               /\ MayWrite = {} => votes' \subseteq votes
<1>1. IInv /\ [Next]_vars => Shrink
  <2> SUFFICES ASSUME IInv, [Next]_vars, closed PROVE Shrink
    OBVIOUS
  <2> USE DEF IInv
  <2>1. closed' /\ MayWrite' \subseteq MayWrite
    BY WritersShrink
  <2>2. ASSUME NEW r \in Requests, InsertRow(r) \/ UpdateRow(r) PROVE MayWrite # {}
    BY <2>2 DEF InsertRow, UpdateRow, At, MayWrite
  <2>3. MayWrite = {} => votes' \subseteq votes
    BY <2>2, StepKinds DEF Inert
  <2> QED
    BY <2>1, <2>3
<1>2. IInv /\ [Next]_vars => [Shrink]_vars
  BY <1>1
<1> QED
  BY <1>2, Invariance, PTL DEF Spec, LateWritersShrink
=============================================================================
