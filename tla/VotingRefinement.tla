-------------------------- MODULE VotingRefinement --------------------------
(***************************************************************************)
(* Voting implements BallotBox: the reads, the INSERT and the UPDATE of    *)
(* every request take effect as one atomic cast, for every number of       *)
(* users, nominees, categories and requests.                               *)
(***************************************************************************)
EXTENDS VotingProofs

\* A request that is not under way asks for nothing.
IdleBlank == \A r \in Requests : req[r].pc = "idle" => req[r].nominee = None

-----------------------------------------------------------------------------
(* What is seen of one request *)

AskedBy(q) == IF q.nominee = None THEN None ELSE <<q.user, q.nominee>>

OutcomeOf(q) == CASE q.status = 201 -> "created"
                  [] q.status = 200 -> "changed"
                  [] OTHER -> "none"

LEMMA OutcomeValues == ASSUME NEW q
                       PROVE  /\ q.status = 201 => OutcomeOf(q) = "created"
                              /\ q.status = 200 /\ q.status # 201 => OutcomeOf(q) = "changed"
                              /\ q.status # 200 /\ q.status # 201 => OutcomeOf(q) = "none"
  <1>1. ASSUME q.status = 201 PROVE OutcomeOf(q) = "created"
    BY <1>1 DEF OutcomeOf
  <1>2. ASSUME q.status = 200, q.status # 201 PROVE OutcomeOf(q) = "changed"
    BY <1>2 DEF OutcomeOf
  <1>3. ASSUME q.status # 200, q.status # 201 PROVE OutcomeOf(q) = "none"
    BY <1>3 DEF OutcomeOf
  <1> QED
    BY <1>1, <1>2, <1>3

Refusals == {400, 401, 403, 500}

LEMMA Views == /\ Asked = [r \in Requests |-> AskedBy(req[r])]
               /\ Outcomes = [r \in Requests |-> OutcomeOf(req[r])]
  BY DEF Asked, AskedBy, Outcomes, OutcomeOf

LEMMA SlotChange ==
    ASSUME TypeOK, NEW r \in Requests, NEW q, req' = [req EXCEPT ![r] = q]
    PROVE  /\ Asked' = [s \in Requests |-> IF s = r THEN AskedBy(q) ELSE Asked[s]]
           /\ Outcomes' = [s \in Requests |-> IF s = r THEN OutcomeOf(q) ELSE Outcomes[s]]
  <1>1. \A s \in Requests : req'[s] = IF s = r THEN q ELSE req[s]
    BY DEF TypeOK
  <1>2. Asked' = [s \in Requests |-> AskedBy(req'[s])]
    BY DEF Asked, AskedBy
  <1>3. Outcomes' = [s \in Requests |-> OutcomeOf(req'[s])]
    BY DEF Outcomes, OutcomeOf
  <1>4. \A s \in Requests : AskedBy(req'[s]) = IF s = r THEN AskedBy(q) ELSE Asked[s]
    BY <1>1, Views
  <1>5. \A s \in Requests : OutcomeOf(req'[s]) = IF s = r THEN OutcomeOf(q) ELSE Outcomes[s]
    BY <1>1, Views
  <1> QED
    BY <1>2, <1>3, <1>4, <1>5

\* A step that changes nothing that is seen.
LEMMA Unseen ==
    ASSUME TypeOK, NEW r \in Requests, NEW q, req' = [req EXCEPT ![r] = q],
           AskedBy(q) = AskedBy(req[r]), OutcomeOf(q) = OutcomeOf(req[r])
    PROVE  Asked' = Asked /\ Outcomes' = Outcomes
  <1>1. Asked[r] = AskedBy(q) /\ Outcomes[r] = OutcomeOf(q)
    BY Views
  <1>2. Asked = [s \in Requests |-> Asked[s]] /\ Outcomes = [s \in Requests |-> Outcomes[s]]
    BY Views
  <1>3. /\ Asked' = [s \in Requests |-> IF s = r THEN AskedBy(q) ELSE Asked[s]]
        /\ Outcomes' = [s \in Requests |-> IF s = r THEN OutcomeOf(q) ELSE Outcomes[s]]
    BY SlotChange
  <1> QED
    BY <1>1, <1>2, <1>3

LEMMA SeenAlike ==
    ASSUME NEW p, NEW q, p.user = q.user, p.nominee = q.nominee, p.status = q.status
    PROVE  AskedBy(p) = AskedBy(q) /\ OutcomeOf(p) = OutcomeOf(q)
  <1>1. AskedBy(p) = AskedBy(q)
    BY DEF AskedBy
  <1>2. OutcomeOf(p) = OutcomeOf(q)
    BY Zenon DEF OutcomeOf
  <1> QED
    BY <1>1, <1>2

LEMMA GotoUnseen ==
    ASSUME TypeOK, NEW r \in Requests, NEW step, Goto(r, step)
    PROVE  Asked' = Asked /\ Outcomes' = Outcomes
  <1> DEFINE q == [req[r] EXCEPT !.pc = step]
  <1>1. q.nominee = req[r].nominee /\ q.user = req[r].user /\ q.status = req[r].status
    BY DEF TypeOK, Request
  <1>2. req' = [req EXCEPT ![r] = q]
    BY DEF Goto
  <1>3. AskedBy(q) = AskedBy(req[r]) /\ OutcomeOf(q) = OutcomeOf(req[r])
    <2> HIDE DEF q
    <2> QED
      BY <1>1, SeenAlike
  <1> HIDE DEF q
  <1> QED
    BY <1>2, <1>3, Unseen

-----------------------------------------------------------------------------
(* The ballot of a user in a category *)

BallotIn(V, u, c) == IF {v \in V : v.user = u /\ v.category = c} = {} THEN None
                     ELSE (CHOOSE v \in {v \in V : v.user = u /\ v.category = c} : TRUE).nominee

\* A row of V is the only one of its user and category.
Unique(V) == \A v, w \in V : v.user = w.user /\ v.category = w.category => v = w

LEMMA BallotViews == /\ Ballots = [k \in Users \X Categories |-> BallotIn(votes, k[1], k[2])]
                     /\ Ballots' = [k \in Users \X Categories |-> BallotIn(votes', k[1], k[2])]
  BY DEF Ballots, RowsOf, BallotIn

LEMMA BallotIs ==
    ASSUME NEW V, Unique(V), NEW u, NEW c
    PROVE  /\ \A v \in V : v.user = u /\ v.category = c => BallotIn(V, u, c) = v.nominee
           /\ (\A v \in V : v.user # u \/ v.category # c) => BallotIn(V, u, c) = None
  <1> DEFINE R == {v \in V : v.user = u /\ v.category = c}
  <1>1. ASSUME NEW v \in V, v.user = u, v.category = c
        PROVE  BallotIn(V, u, c) = v.nominee
    <2>1. R = {v}
      BY <1>1 DEF Unique
    <2>2. BallotIn(V, u, c) = (CHOOSE w \in {v} : TRUE).nominee
      BY <2>1 DEF BallotIn
    <2>3. (CHOOSE w \in {v} : TRUE) = v
      OBVIOUS
    <2> QED
      BY <2>2, <2>3
  <1>2. ASSUME \A v \in V : v.user # u \/ v.category # c
        PROVE  BallotIn(V, u, c) = None
    <2>1. R = {}
      BY <1>2
    <2> QED
      BY <2>1 DEF BallotIn
  <1> QED
    BY <1>1, <1>2

\* A row that is added or rewritten decides the ballot of its user and category.
LEMMA BallotOfRow ==
    ASSUME NEW V, NEW W, Unique(V), Unique(W), NEW new \in W,
           \A w \in W : w = new \/ w \in V,
           \A v \in V : v \in W \/ (v.user = new.user /\ v.category = new.category),
           NEW u, NEW c
    PROVE  BallotIn(W, u, c) = IF u = new.user /\ c = new.category THEN new.nominee
                               ELSE BallotIn(V, u, c)
  <1>1. CASE u = new.user /\ c = new.category
    BY <1>1, BallotIs
  <1>2. CASE ~(u = new.user /\ c = new.category)
    <2>1. CASE \E v \in V : v.user = u /\ v.category = c
      <3>1. PICK v \in V : v.user = u /\ v.category = c
        BY <2>1
      <3>2. v \in W
        BY <1>2, <3>1
      <3> QED
        BY <1>2, <3>1, <3>2, BallotIs
    <2>2. CASE \A v \in V : v.user # u \/ v.category # c
      <3>1. \A w \in W : w.user # u \/ w.category # c
        BY <1>2, <2>2
      <3> QED
        BY <1>2, <2>2, <3>1, BallotIs
    <2> QED
      BY <2>1, <2>2
  <1> QED
    BY <1>1, <1>2

\* Rows that go take their ballots with them.
LEMMA BallotsGo ==
    ASSUME NEW V, NEW W, Unique(V), W \subseteq V, NEW u, NEW c
    PROVE  /\ \A v \in V : v.user = u /\ v.category = c
                 => BallotIn(W, u, c) = IF v \in W THEN v.nominee ELSE None
           /\ (\A v \in V : v.user # u \/ v.category # c) => BallotIn(W, u, c) = None
  <1>1. Unique(W)
    BY DEF Unique
  <1>2. ASSUME NEW v \in V, v.user = u, v.category = c
        PROVE  BallotIn(W, u, c) = IF v \in W THEN v.nominee ELSE None
    <2>1. CASE v \in W
      BY <1>1, <1>2, <2>1, BallotIs
    <2>2. CASE v \notin W
      <3>1. \A w \in W : w.user # u \/ w.category # c
        BY <1>2, <2>2 DEF Unique
      <3> QED
        BY <1>1, <2>2, <3>1, BallotIs
    <2> QED
      BY <2>1, <2>2
  <1>3. ASSUME \A v \in V : v.user # u \/ v.category # c
        PROVE  BallotIn(W, u, c) = None
    <2>1. \A w \in W : w.user # u \/ w.category # c
      BY <1>3
    <2> QED
      BY <1>1, <2>1, BallotIs
  <1> QED
    BY <1>2, <1>3

LEMMA UniqueVotes == IInv => Unique(votes)
  BY DEF IInv, OneVotePerCategory, Unique

LEMMA UniqueVotesNext == IInv /\ [Next]_vars => Unique(votes')
  BY IInvStep DEF IInv, OneVotePerCategory, Unique

-----------------------------------------------------------------------------
(* The steps of requests *)

LEMMA ForgetMaps ==
    ASSUME TypeOK, NEW r \in Requests, NEW q, req' = [req EXCEPT ![r] = q],
           AskedBy(q) = None, OutcomeOf(q) = "none", UNCHANGED <<users, nominees, votes>>
    PROVE  Box!Forget({r})
  <1>1. /\ Asked' = [s \in Requests |-> IF s = r THEN None ELSE Asked[s]]
        /\ Outcomes' = [s \in Requests |-> IF s = r THEN "none" ELSE Outcomes[s]]
    <2>1. /\ Asked' = [s \in Requests |-> IF s = r THEN AskedBy(q) ELSE Asked[s]]
          /\ Outcomes' = [s \in Requests |-> IF s = r THEN OutcomeOf(q) ELSE Outcomes[s]]
      BY SlotChange
    <2> QED
      BY <2>1
  <1>2. UNCHANGED <<users, nominees, Ballots>>
    BY DEF Ballots, RowsOf
  <1> QED
    BY <1>1, <1>2 DEF Box!Forget

LEMMA FailMaps ==
    ASSUME TypeOK, NEW r \in Requests, NEW code \in Refusals, Fail(r, code),
           UNCHANGED <<users, nominees, votes>>
    PROVE  Box!Forget({r})
  <1>1. Blank("answered", code).nominee = None /\ Blank("answered", code).status = code
    BY DEF Blank
  <1>2. AskedBy(Blank("answered", code)) = None /\ OutcomeOf(Blank("answered", code)) = "none"
    BY <1>1, OutcomeValues DEF AskedBy, Refusals
  <1>3. req' = [req EXCEPT ![r] = Blank("answered", code)]
    BY DEF Fail
  <1> QED
    BY <1>2, <1>3, ForgetMaps

\* A step that decides what a request achieves.
LEMMA WroteMaps ==
    ASSUME TypeOK, NEW r \in Requests, NEW q, req' = [req EXCEPT ![r] = q],
           AskedBy(q) = AskedBy(req[r])
    PROVE  Asked' = Asked /\ Outcomes' = [Outcomes EXCEPT ![r] = OutcomeOf(q)]
  <1>1. Asked[r] = AskedBy(q)
    BY Views
  <1>2. Asked = [s \in Requests |-> Asked[s]] /\ Outcomes = [s \in Requests |-> Outcomes[s]]
    BY Views
  <1>3. /\ Asked' = [s \in Requests |-> IF s = r THEN AskedBy(q) ELSE Asked[s]]
        /\ Outcomes' = [s \in Requests |-> IF s = r THEN OutcomeOf(q) ELSE Outcomes[s]]
    BY SlotChange
  <1> QED
    BY <1>1, <1>2, <1>3

LEMMA IdleMaps ==
    ASSUME TypeOK, NEW S \in SUBSET Requests, UNCHANGED <<tables, closed>>,
           req' = [r \in Requests |-> IF r \in S THEN Idle ELSE req[r]]
    PROVE  Box!Forget(S)
  <1>1. AskedBy(Idle) = None /\ OutcomeOf(Idle) = "none"
    <2>1. Idle.nominee = None /\ Idle.status = 0
      BY DEF Idle, Blank
    <2> QED
      BY <2>1, OutcomeValues DEF AskedBy
  <1>2. Asked' = [r \in Requests |-> AskedBy(req'[r])]
    BY DEF Asked, AskedBy
  <1>3. Outcomes' = [r \in Requests |-> OutcomeOf(req'[r])]
    BY DEF Outcomes, OutcomeOf
  <1>4. \A r \in Requests : AskedBy(req'[r]) = IF r \in S THEN None ELSE Asked[r]
    BY <1>1, Views
  <1>5. \A r \in Requests : OutcomeOf(req'[r]) = IF r \in S THEN "none" ELSE Outcomes[r]
    BY <1>1, Views
  <1>6. UNCHANGED <<users, nominees, Ballots>>
    BY DEF tables, Ballots, RowsOf
  <1> QED
    BY <1>2, <1>3, <1>4, <1>5, <1>6 DEF Box!Forget

LEMMA SendMaps ==
    ASSUME TypeOK, Carried, IdleBlank, NEW r \in Requests, NEW u \in Users,
           NEW n \in Nominees \cup {None}, NEW c \in BOOLEAN, Send(r, u, n, c)
    PROVE  Box!Next \/ UNCHANGED Box!vars
  <1> DEFINE q == [pc |-> "auth", user |-> u, csrf |-> c, nominee |-> n,
                   category |-> None, id |-> 0, status |-> 0]
  <1>1. req[r].nominee = None /\ req[r].status = 0
    BY DEF Send, At, IdleBlank, Carried, Coherent, Steps
  <1>2. q.nominee = n /\ q.user = u /\ q.status = 0 /\ req' = [req EXCEPT ![r] = q]
    BY DEF Send
  <1> HIDE DEF q
  <1>3. OutcomeOf(q) = "none" /\ OutcomeOf(req[r]) = "none"
    BY <1>1, <1>2, OutcomeValues
  <1>4. AskedBy(req[r]) = None /\ Asked[r] = None /\ Outcomes[r] = "none"
    BY <1>1, <1>3, Views DEF AskedBy
  <1>5. UNCHANGED <<users, nominees, Ballots>>
    BY DEF Send, tables, Ballots, RowsOf
  <1>6. CASE n = None
    <2>1. AskedBy(q) = None
      BY <1>2, <1>6 DEF AskedBy
    <2> QED
      BY <1>2, <1>3, <1>4, <1>5, <2>1, Unseen DEF Box!vars
  <1>7. CASE n \in Nominees /\ n # None
    <2>1. AskedBy(q) = <<u, n>>
      BY <1>2, <1>7 DEF AskedBy
    <2>2. Asked' = [s \in Requests |-> IF s = r THEN <<u, n>> ELSE Asked[s]]
      BY <1>2, <2>1, SlotChange
    <2>3. Outcomes' = [s \in Requests |-> IF s = r THEN "none" ELSE Outcomes[s]]
      BY <1>2, <1>3, SlotChange
    <2>4. Asked' = [Asked EXCEPT ![r] = <<u, n>>] /\ Outcomes' = Outcomes
      <3>1. Asked = [s \in Requests |-> Asked[s]] /\ Outcomes = [s \in Requests |-> Outcomes[s]]
        BY Views
      <3> QED
        BY <1>4, <2>2, <2>3, <3>1
    <2> QED
      BY <1>4, <1>5, <1>7, <2>4 DEF Box!Next, Box!Ask
  <1> QED
    BY <1>6, <1>7

-----------------------------------------------------------------------------
(* The two statements that write *)

\* What a request does to the ballots when it writes the row new.
LEMMA CastMaps ==
    ASSUME IInv, Unique(votes'), NEW r \in Requests, NEW new \in votes',
           new.user = req[r].user, new.category = CategoryOf[req[r].nominee],
           new.nominee = req[r].nominee,
           req[r].user \in users, req[r].nominee \in nominees,
           \A w \in votes' : w = new \/ w \in votes,
           \A v \in votes : v \in votes' \/ (v.user = new.user /\ v.category = new.category),
           UNCHANGED <<users, nominees>>,
           NEW q, req' = [req EXCEPT ![r] = q],
           q.user = req[r].user, q.nominee = req[r].nominee, OutcomeOf(req[r]) = "none",
           OutcomeOf(q) = IF \A v \in votes : v.user # new.user \/ v.category # new.category
                          THEN "created" ELSE "changed"
    PROVE  Box!Cast(r)
  <1> DEFINE u == req[r].user
             n == req[r].nominee
             c == CategoryOf[n]
  <1>1. u \in Users /\ n \in Nominees /\ c \in Categories /\ TypeOK
    BY AssumptionsHold DEF IInv, TypeOK, Assumptions
  <1>2. n # None /\ <<u, n>> # None
    BY <1>1, NoneAssumption
  <1>3. \A k \in Users \X Categories :
           BallotIn(votes', k[1], k[2]) = IF k[1] = u /\ k[2] = c THEN n
                                          ELSE BallotIn(votes, k[1], k[2])
    BY UniqueVotes, BallotOfRow
  <1>4. Ballots' = [k \in Users \X Categories |-> IF k[1] = u /\ k[2] = c THEN n ELSE Ballots[k]]
    BY <1>3, BallotViews
  <1>5. Ballots' = [Ballots EXCEPT ![<<u, c>>] = n]
    <2>1. \A k \in Users \X Categories : k = <<u, c>> <=> k[1] = u /\ k[2] = c
      BY <1>1
    <2>2. DOMAIN Ballots = Users \X Categories
      BY BallotViews
    <2>3. [Ballots EXCEPT ![<<u, c>>] = n]
             = [k \in Users \X Categories |-> IF k = <<u, c>> THEN n ELSE Ballots[k]]
      <3> HIDE DEF u, c, n
      <3> QED
        BY <2>2
    <2> HIDE DEF u, c, n
    <2> QED
      BY <1>4, <2>1, <2>3
  <1>6. OutcomeOf(q) = IF Ballots[<<u, c>>] = None THEN "created" ELSE "changed"
    <2>1. Ballots[<<u, c>>] = BallotIn(votes, u, c)
      BY <1>1, BallotViews
    <2>2. \A v \in votes : v.nominee # None
      BY NoneAssumption DEF IInv, TypeOK, Vote
    <2>3. Ballots[<<u, c>>] = None <=> \A v \in votes : v.user # u \/ v.category # c
      BY <2>1, <2>2, UniqueVotes, BallotIs
    <2> QED
      BY <2>3
  <1>7. AskedBy(q) = <<u, n>> /\ AskedBy(req[r]) = <<u, n>>
    BY <1>2 DEF AskedBy
  <1>8. Asked[r] = <<u, n>> /\ Outcomes[r] = "none"
    BY <1>7, Views
  <1>9. Asked' = Asked /\ Outcomes' = [Outcomes EXCEPT ![r] = OutcomeOf(q)]
    BY <1>1, <1>7, WroteMaps
  <1>10. Asked[r][1] = u /\ Asked[r][2] = n /\ Asked[r] # None
    BY <1>2, <1>8
  <1>11. Outcomes' = [Outcomes EXCEPT ![r] = IF Ballots[<<u, c>>] = None THEN "created" ELSE "changed"]
    BY <1>6, <1>9
  <1> QED
    BY <1>5, <1>8, <1>9, <1>10, <1>11 DEF Box!Cast

LEMMA InsertMaps == ASSUME IInv, Unique(votes'), NEW r \in Requests, InsertRow(r)
                    PROVE  Box!Cast(r)
  <1> DEFINE new == [id |-> lastId + 1, user |-> req[r].user,
                     nominee |-> req[r].nominee, category |-> req[r].category]
  <1>1. /\ votes' = votes \cup {new}
        /\ req[r].user \in users /\ req[r].nominee \in nominees
        /\ req[r].category = CategoryOf[req[r].nominee]
        /\ \A v \in votes : v.user # req[r].user \/ v.category # req[r].category
        /\ UNCHANGED <<users, nominees>>
    BY InsertEffect DEF IInv
  <1>2. /\ new.user = req[r].user /\ new.category = req[r].category
        /\ new.nominee = req[r].nominee
    OBVIOUS
  <1>3. PICK q : /\ req' = [req EXCEPT ![r] = q]
                 /\ q.user = req[r].user /\ q.nominee = req[r].nominee
                 /\ OutcomeOf(q) = "created" /\ OutcomeOf(req[r]) = "none"
    <2>1. req' = [req EXCEPT ![r] = Returned(req[r], lastId + 1, 201)]
      BY DEF InsertRow, Return
    <2>2. /\ Returned(req[r], lastId + 1, 201).user = req[r].user
          /\ Returned(req[r], lastId + 1, 201).nominee = req[r].nominee
          /\ Returned(req[r], lastId + 1, 201).status = 201
      BY DEF Returned, IInv, TypeOK, Request
    <2>3. req[r].status = 0
      BY DEF InsertRow, At, IInv, Carried, Coherent
    <2> DEFINE q == Returned(req[r], lastId + 1, 201)
    <2> HIDE DEF q, new
    <2>4. OutcomeOf(q) = "created"
      BY <2>2, OutcomeValues DEF q
    <2>5. OutcomeOf(req[r]) = "none"
      BY <2>3, OutcomeValues
    <2>6. req' = [req EXCEPT ![r] = q] /\ q.user = req[r].user /\ q.nominee = req[r].nominee
      BY <2>1, <2>2 DEF q
    <2> QED
      BY <2>4, <2>5, <2>6
  <1> HIDE DEF new
  <1> QED
    BY <1>1, <1>2, <1>3, CastMaps

LEMMA UpdateMaps == ASSUME IInv, Unique(votes'), NEW r \in Requests, UpdateRow(r)
                    PROVE  Box!Cast(r)
  <1>1. PICK v \in votes :
          /\ v.user = req[r].user /\ v.category = req[r].category
          /\ votes' = (votes \ {v}) \cup {Rewritten(v, r)}
          /\ /\ Rewritten(v, r).user = v.user
             /\ Rewritten(v, r).category = v.category
             /\ Rewritten(v, r).nominee = req[r].nominee
          /\ req[r].nominee \in nominees
          /\ req[r].category = CategoryOf[req[r].nominee]
          /\ UNCHANGED <<users, nominees>>
    BY UpdateEffect DEF IInv
  <1>2. PICK q : /\ req' = [req EXCEPT ![r] = q]
                 /\ q.user = req[r].user /\ q.nominee = req[r].nominee
                 /\ OutcomeOf(q) = "changed" /\ OutcomeOf(req[r]) = "none"
    <2>1. PICK id : req' = [req EXCEPT ![r] = Returned(req[r], id, 200)]
      BY DEF UpdateRow, Return
    <2>2. /\ Returned(req[r], id, 200).user = req[r].user
          /\ Returned(req[r], id, 200).nominee = req[r].nominee
          /\ Returned(req[r], id, 200).status = 200
      BY DEF Returned, IInv, TypeOK, Request
    <2>3. req[r].status = 0
      BY DEF UpdateRow, At, IInv, Carried, Coherent
    <2> DEFINE q == Returned(req[r], id, 200)
    <2> HIDE DEF q
    <2>4. OutcomeOf(q) = "changed"
      BY <2>2, OutcomeValues DEF q
    <2>5. OutcomeOf(req[r]) = "none"
      BY <2>3, OutcomeValues
    <2>6. req' = [req EXCEPT ![r] = q] /\ q.user = req[r].user /\ q.nominee = req[r].nominee
      BY <2>1, <2>2 DEF q
    <2> QED
      BY <2>4, <2>5, <2>6
  <1>3. v.user \in users
    BY DEF IInv, VotesStand
  <1> QED
    BY <1>1, <1>2, <1>3, CastMaps

-----------------------------------------------------------------------------
(* Every step *)

LEMMA HandleMaps == ASSUME IInv, Unique(votes'), NEW r \in Requests, Handle(r)
                    PROVE  Box!Next \/ UNCHANGED Box!vars
  <1> USE DEF IInv
  <1>1. ASSUME NEW s \in Refusals, Fail(r, s), UNCHANGED <<users, nominees, votes>>
        PROVE  Box!Next
    <2>1. Box!Forget({r})
      BY <1>1, FailMaps
    <2>2. {r} \in SUBSET Requests
      OBVIOUS
    <2> QED
      BY <2>1, <2>2 DEF Box!Next
  <1>2. ASSUME NEW step, Goto(r, step), UNCHANGED <<users, nominees, votes>>
        PROVE  UNCHANGED Box!vars
    <2>1. UNCHANGED <<users, nominees, Ballots>>
      BY <1>2 DEF Ballots, RowsOf
    <2> QED
      BY <1>2, <2>1, GotoUnseen DEF Box!vars
  <1>3. CASE Authenticate(r) \/ CheckDeadline(r) \/ CheckUser(r) \/ Reply(r)
    BY <1>1, <1>2, <1>3 DEF Authenticate, CheckDeadline, CheckUser, Reply, tables, Refusals
  <1>4. CASE CheckRequest(r)
    BY <1>1, <1>2, <1>4 DEF CheckRequest, tables, Refusals
  <1>5. CASE GetNominee(r)
    <2>1. CASE req[r].nominee \notin nominees
      BY <1>1, <1>5, <2>1 DEF GetNominee, tables, Refusals
    <2>2. CASE req[r].nominee \in nominees
      <3> DEFINE q == [req[r] EXCEPT !.pc = "insert", !.category = CategoryOf[req[r].nominee]]
      <3>1. req' = [req EXCEPT ![r] = q]
        BY <1>5, <2>2 DEF GetNominee
      <3>2. q.user = req[r].user /\ q.nominee = req[r].nominee /\ q.status = req[r].status
        BY DEF TypeOK, Request
      <3> HIDE DEF q
      <3>3. UNCHANGED <<users, nominees, Ballots>>
        BY <1>5 DEF GetNominee, tables, Ballots, RowsOf
      <3> QED
        BY <3>1, <3>2, <3>3, SeenAlike, Unseen DEF Box!vars
    <2> QED
      BY <2>1, <2>2
  <1>6. CASE InsertExhausted(r) \/ UpdateFails(r)
    BY <1>1, <1>6 DEF InsertExhausted, UpdateFails, tables, Refusals
  <1>7. CASE InsertConflict(r)
    BY <1>2, <1>7 DEF InsertConflict
  <1>8. CASE InsertOrphan(r)
    BY <1>1, <1>8 DEF InsertOrphan, Refusals
  <1>9. CASE InsertRow(r) \/ UpdateRow(r)
    BY <1>9, InsertMaps, UpdateMaps DEF Box!Next
  <1> QED
    BY <1>3, <1>4, <1>5, <1>6, <1>7, <1>8, <1>9 DEF Handle

LEMMA EnvironmentMaps == ASSUME IInv, Unique(votes'), Environment
                         PROVE  Box!Next \/ UNCHANGED Box!vars
  <1> USE DEF IInv
  <1>1. ASSUME UNCHANGED req PROVE Asked' = Asked /\ Outcomes' = Outcomes
    BY <1>1 DEF Asked, Outcomes
  <1>2. ASSUME UNCHANGED votes PROVE Ballots' = Ballots
    BY <1>2 DEF Ballots, RowsOf
  <1>3. Unique(votes)
    BY UniqueVotes
  <1>4. ASSUME NEW u \in Users, Register(u) PROVE Box!Next
    BY <1>1, <1>2, <1>4 DEF Register, Box!Next, Box!Enrol
  <1>5. ASSUME NEW n \in Nominees, AddNominee(n) PROVE Box!Next
    BY <1>1, <1>2, <1>5 DEF AddNominee, Box!Next, Box!Nominate
  <1>6. ASSUME NEW u \in Users, DeleteUser(u) PROVE Box!Next
    <2>1. votes' = {v \in votes : v.user # u}
      BY <1>6 DEF DeleteUser
    <2>2. \A k \in Users \X Categories :
             BallotIn(votes', k[1], k[2]) = IF k[1] = u THEN None ELSE BallotIn(votes, k[1], k[2])
      <3> SUFFICES ASSUME NEW k \in Users \X Categories
                   PROVE  BallotIn(votes', k[1], k[2])
                             = IF k[1] = u THEN None ELSE BallotIn(votes, k[1], k[2])
        OBVIOUS
      <3>1. votes' \subseteq votes
        BY <2>1
      <3>2. CASE \E v \in votes : v.user = k[1] /\ v.category = k[2]
        <4>1. PICK v \in votes : v.user = k[1] /\ v.category = k[2]
          BY <3>2
        <4>2. BallotIn(votes', k[1], k[2]) = IF v \in votes' THEN v.nominee ELSE None
          BY <1>3, <3>1, <4>1, BallotsGo
        <4>3. BallotIn(votes, k[1], k[2]) = v.nominee
          BY <1>3, <4>1, BallotIs
        <4> QED
          BY <2>1, <4>1, <4>2, <4>3
      <3>3. CASE \A v \in votes : v.user # k[1] \/ v.category # k[2]
        BY <1>3, <3>1, <3>3, BallotsGo, BallotIs
      <3> QED
        BY <3>2, <3>3
    <2>3. Ballots' = [k \in Users \X Categories |-> IF k[1] = u THEN None ELSE Ballots[k]]
      BY <2>2, BallotViews
    <2> QED
      BY <1>1, <1>6, <2>3 DEF DeleteUser, Box!Next, Box!Expel
  <1>7. ASSUME NEW S \in SUBSET nominees, DeleteNominees(S) PROVE Box!Next
    <2>1. votes' = {v \in votes : v.nominee \notin S}
      BY <1>7 DEF DeleteNominees, VotesFor
    <2>2. S \in SUBSET Nominees /\ None \notin S
      BY NoneAssumption DEF TypeOK
    <2>3. \A k \in Users \X Categories :
             BallotIn(votes', k[1], k[2]) = IF BallotIn(votes, k[1], k[2]) \in S THEN None
                                            ELSE BallotIn(votes, k[1], k[2])
      <3> SUFFICES ASSUME NEW k \in Users \X Categories
                   PROVE  BallotIn(votes', k[1], k[2])
                             = IF BallotIn(votes, k[1], k[2]) \in S THEN None
                               ELSE BallotIn(votes, k[1], k[2])
        OBVIOUS
      <3>1. votes' \subseteq votes
        BY <2>1
      <3>2. CASE \E v \in votes : v.user = k[1] /\ v.category = k[2]
        <4>1. PICK v \in votes : v.user = k[1] /\ v.category = k[2]
          BY <3>2
        <4>2. BallotIn(votes', k[1], k[2]) = IF v \in votes' THEN v.nominee ELSE None
          BY <1>3, <3>1, <4>1, BallotsGo
        <4>3. BallotIn(votes, k[1], k[2]) = v.nominee
          BY <1>3, <4>1, BallotIs
        <4> QED
          BY <2>1, <4>1, <4>2, <4>3
      <3>3. CASE \A v \in votes : v.user # k[1] \/ v.category # k[2]
        <4>1. BallotIn(votes', k[1], k[2]) = None /\ BallotIn(votes, k[1], k[2]) = None
          BY <1>3, <3>1, <3>3, BallotsGo, BallotIs
        <4> QED
          BY <2>2, <4>1
      <3> QED
        BY <3>2, <3>3
    <2>4. Ballots' = [k \in Users \X Categories |-> IF Ballots[k] \in S THEN None ELSE Ballots[k]]
      BY <2>3, BallotViews
    <2> QED
      BY <1>1, <1>7, <2>2, <2>4 DEF DeleteNominees, Box!Next, Box!Strike
  <1>8. CASE PassDeadline
    BY <1>1, <1>2, <1>8 DEF PassDeadline, tables, Box!vars
  <1>9. CASE Crash
    <2>1. InProgress \in SUBSET Requests
      BY DEF InProgress
    <2>2. Box!Forget(InProgress)
      BY <1>9, <2>1, IdleMaps DEF Crash
    <2> QED
      BY <2>1, <2>2 DEF Box!Next
  <1> QED
    BY <1>4, <1>5, <1>6, <1>7, <1>8, <1>9 DEF Environment

LEMMA StepMaps == ASSUME IInv, IdleBlank, [Next]_vars
                  PROVE  [Box!Next]_Box!vars
  <1>1. Unique(votes')
    BY UniqueVotesNext
  <1>2. ASSUME NEW r \in Requests, Client(r) PROVE Box!Next \/ UNCHANGED Box!vars
    <2>1. CASE Receive(r)
      <3>1. Idle = Blank("idle", 0) /\ req' = [req EXCEPT ![r] = Idle]
        BY <2>1 DEF Receive, Idle
      <3>2. req' = [s \in Requests |-> IF s \in {r} THEN Idle ELSE req[s]]
        BY <3>1 DEF IInv, TypeOK
      <3>3. {r} \in SUBSET Requests
        OBVIOUS
      <3>4. Box!Forget({r})
        BY <2>1, <3>2, <3>3, IdleMaps DEF Receive, IInv
      <3> QED
        BY <3>3, <3>4 DEF Box!Next
    <2> QED
      BY <1>2, <2>1, SendMaps DEF Client, IInv
  <1>3. ASSUME NEW r \in Requests, StatementLost(r) PROVE Box!Next
    <2>1. PICK code \in Refusals : Fail(r, code) /\ UNCHANGED <<users, nominees, votes>>
      BY <1>3 DEF StatementLost, tables, Refusals
    <2>2. {r} \in SUBSET Requests
      OBVIOUS
    <2>3. Box!Forget({r})
      BY <2>1, FailMaps DEF IInv
    <2> QED
      BY <2>2, <2>3 DEF Box!Next
  <1>4. CASE UNCHANGED vars
    <2>1. UNCHANGED Box!vars
      BY <1>4 DEF vars, Box!vars, Ballots, RowsOf, Asked, Outcomes
    <2> QED
      BY <2>1
  <1> QED
    BY <1>1, <1>2, <1>3, <1>4, HandleMaps, EnvironmentMaps DEF Next

-----------------------------------------------------------------------------
LEMMA IdleBlankStep == ASSUME TypeOK, IdleBlank, [Next]_vars
                       PROVE  IdleBlank'
  <1>1. ASSUME NEW r \in Requests, NEW code, Fail(r, code) PROVE IdleBlank'
    BY <1>1 DEF Fail, Blank, TypeOK, IdleBlank
  <1>2. ASSUME NEW r \in Requests, NEW step, step # "idle", Goto(r, step) PROVE IdleBlank'
    BY <1>2 DEF Goto, TypeOK, Request, IdleBlank
  <1>3. ASSUME NEW r \in Requests, NEW id, NEW status, Return(r, id, status) PROVE IdleBlank'
    <2>1. req'[r].pc = "reply"
      BY <1>3 DEF Return, Returned, TypeOK, Request
    <2>2. \A s \in Requests \ {r} : req'[s] = req[s]
      BY <1>3 DEF Return, TypeOK
    <2> QED
      BY <2>1, <2>2 DEF IdleBlank
  <1>4. ASSUME NEW r \in Requests, Handle(r) PROVE IdleBlank'
    <2>1. CASE GetNominee(r)
      BY <1>1, <2>1 DEF GetNominee, TypeOK, Request, IdleBlank
    <2>2. CASE InsertRow(r) \/ UpdateRow(r)
      BY <1>3, <2>2 DEF InsertRow, UpdateRow
    <2>3. CASE Authenticate(r) \/ CheckDeadline(r) \/ CheckUser(r) \/ CheckRequest(r)
      BY <1>1, <1>2, <2>3 DEF Authenticate, CheckDeadline, CheckUser, CheckRequest
    <2>4. CASE InsertExhausted(r) \/ InsertConflict(r) \/ InsertOrphan(r) \/ UpdateFails(r) \/ Reply(r)
      BY <1>1, <1>2, <2>4 DEF InsertExhausted, InsertConflict, InsertOrphan, UpdateFails, Reply
    <2> QED
      BY <1>4, <2>1, <2>2, <2>3, <2>4 DEF Handle
  <1>5. Idle.nominee = None
    BY DEF Idle, Blank
  <1>6. ASSUME NEW r \in Requests, Client(r) PROVE IdleBlank'
    <2>1. CASE Receive(r)
      BY <1>5, <2>1 DEF Receive, TypeOK, IdleBlank
    <2>2. ASSUME NEW u, NEW n, NEW c, Send(r, u, n, c) PROVE IdleBlank'
      BY <2>2 DEF Send, TypeOK, IdleBlank
    <2> QED
      BY <1>6, <2>1, <2>2 DEF Client
  <1>7. ASSUME NEW r \in Requests, StatementLost(r) PROVE IdleBlank'
    BY <1>1, <1>7 DEF StatementLost
  <1>8. CASE Crash
    BY <1>5, <1>8 DEF Crash, IdleBlank
  <1>9. CASE UNCHANGED req
    BY <1>9 DEF IdleBlank
  <1> QED
    BY <1>4, <1>6, <1>7, <1>8, <1>9
       DEF Next, Environment, Register, DeleteUser, AddNominee, DeleteNominees, PassDeadline, vars

LEMMA InitMaps == Init => Box!Init /\ IdleBlank
  <1> SUFFICES ASSUME Init PROVE Box!Init /\ IdleBlank
    OBVIOUS
  <1>1. Idle.nominee = None /\ Idle.status = 0
    BY DEF Idle, Blank
  <1>2. IdleBlank
    BY <1>1 DEF Init, IdleBlank
  <1>3. Ballots = [k \in Users \X Categories |-> None]
    BY DEF Init, Ballots, RowsOf
  <1>4. AskedBy(Idle) = None /\ OutcomeOf(Idle) = "none"
    BY <1>1, OutcomeValues DEF AskedBy
  <1>5. Asked = [r \in Requests |-> None] /\ Outcomes = [r \in Requests |-> "none"]
    BY <1>4, Views DEF Init
  <1> QED
    BY <1>2, <1>3, <1>5 DEF Init, Box!Init

\* The statements of the vote endpoint, with everything that happens between them,
\* look from outside like single casts whose answers are truthful.
THEOREM VotingImplementsBallotBox == Spec => BoxSpec
  <1>1. Spec => []IdleBlank
    <2>1. Init => IdleBlank
      BY InitMaps
    <2>2. TypeOK /\ IdleBlank /\ [Next]_vars => IdleBlank'
      BY IdleBlankStep
    <2> QED
      BY <2>1, <2>2, TypeCorrect, PTL DEF Spec
  <1>2. Init => Box!Init
    BY InitMaps
  <1>3. IInv /\ IdleBlank /\ [Next]_vars => [Box!Next]_Box!vars
    BY StepMaps
  <1> QED
    BY <1>1, <1>2, <1>3, Invariance, PTL DEF Spec, BoxSpec, Box!Spec
=============================================================================
