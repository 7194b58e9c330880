------------------------------- MODULE Voting -------------------------------
(***************************************************************************)
(* POST /add_vote: RequireAuth and Handler.AddVote over SQLVoteStore, with *)
(* one goroutine per request and a Postgres database whose autocommitted   *)
(* statements are atomic.  A request advances one database access or one   *)
(* clock reading per step, so anything may happen between two of them:     *)
(* other requests, the deadline, the loss of a statement, a server crash,  *)
(* and the deletions that the migration scripts make while it runs.        *)
(***************************************************************************)
EXTENDS Naturals, FiniteSets

CONSTANTS Users,       \* user UUIDs that may ever be handed out
          Nominees,    \* nominee UUIDs that may ever be handed out
          Categories,
          CategoryOf,  \* nominees.category_id, which nothing updates
          Requests,    \* requests the server handles at the same time
          MaxVoteId,   \* last value of the sequence behind votes.id
          None

ASSUME NominationAssumption == CategoryOf \in [Nominees -> Categories]
ASSUME SequenceAssumption == MaxVoteId \in Nat \ {0}
ASSUME NoneAssumption == None \notin Users \cup Nominees \cup Categories \cup (Users \X Nominees)
ASSUME UuidAssumption == Users \cap Nominees = {}

VARIABLES users,     \* rows of users
          nominees,  \* rows of nominees
          issued,    \* every UUID handed out so far; UUIDs are never handed out twice
          votes,     \* rows of votes
          lastId,    \* last value taken from the sequence
          closed,    \* the server's clock has passed VotingDeadline
          req        \* the requests in progress, and the answers not yet read

tables == <<users, nominees, issued, votes, lastId>>
vars == <<users, nominees, issued, votes, lastId, closed, req>>

-----------------------------------------------------------------------------
(* Requests *)

Steps == {"auth", "deadline", "user", "check", "nominee", "insert", "update", "reply"}

Request == [pc : {"idle", "answered"} \cup Steps,
            user : Users \cup {None},          \* subject of the token
            csrf : BOOLEAN,                    \* header or form value equals the cookie
            nominee : Nominees \cup {None},    \* None: the body names no nominee
            category : Categories \cup {None}, \* read from the nominee
            id : 0..MaxVoteId,                 \* vote id returned by the store
            status : {0, 200, 201, 400, 401, 403, 500}]

Vote == [id : 1..MaxVoteId, user : Users, nominee : Nominees, category : Categories]

Blank(pc, status) == [pc |-> pc, user |-> None, csrf |-> FALSE, nominee |-> None,
                      category |-> None, id |-> 0, status |-> status]
Idle == Blank("idle", 0)

Init == /\ users = {}
        /\ nominees \in SUBSET Nominees
        /\ issued = nominees
        /\ votes = {}
        /\ lastId = 0
        /\ closed = FALSE
        /\ req = [r \in Requests |-> Idle]

At(r, step) == req[r].pc = step
Goto(r, step) == req' = [req EXCEPT ![r].pc = step]

\* http.Error followed by return: the answer carries a status only.
Fail(r, status) == req' = [req EXCEPT ![r] = Blank("answered", status)]

\* A client sends a vote.  Its token was signed for a user that existed then.
Send(r, u, n, c) ==
    /\ At(r, "idle")
    /\ u \in issued
    /\ req' = [req EXCEPT ![r] = [pc |-> "auth", user |-> u, csrf |-> c, nominee |-> n,
                                   category |-> None, id |-> 0, status |-> 0]]
    /\ UNCHANGED <<tables, closed>>

\* RequireAuth looks the token's subject up.
Authenticate(r) ==
    /\ At(r, "auth")
    /\ IF req[r].user \in users THEN Goto(r, "deadline") ELSE Fail(r, 401)
    /\ UNCHANGED <<tables, closed>>

\* Mutant: the deadline is not enforced.
DeadlineIgnored(r) ==
    /\ At(r, "deadline")
    /\ Goto(r, "user")
    /\ UNCHANGED <<tables, closed>>

\* The one reading of the clock.
CheckDeadline(r) ==
    /\ At(r, "deadline")
    /\ IF closed THEN Fail(r, 403) ELSE Goto(r, "user")
    /\ UNCHANGED <<tables, closed>>

\* AddVote looks the user up again.
CheckUser(r) ==
    /\ At(r, "user")
    /\ IF req[r].user \in users THEN Goto(r, "check") ELSE Fail(r, 401)
    /\ UNCHANGED <<tables, closed>>

\* The CSRF token and the body: nothing shared is read.
CheckRequest(r) ==
    /\ At(r, "check")
    /\ CASE ~req[r].csrf           -> Fail(r, 403)
         [] req[r].csrf /\ req[r].nominee = None -> Fail(r, 400)
         [] OTHER                  -> Goto(r, "nominee")
    /\ UNCHANGED <<tables, closed>>

\* nominatedStore.Get: the category is remembered for the rows written below.
GetNominee(r) ==
    /\ At(r, "nominee")
    /\ IF req[r].nominee \in nominees
       THEN req' = [req EXCEPT ![r].pc = "insert", ![r].category = CategoryOf[req[r].nominee]]
       ELSE Fail(r, 400)
    /\ UNCHANGED <<tables, closed>>

-----------------------------------------------------------------------------
(* SQLVoteStore.Insert: INSERT, and UPDATE when the INSERT meets a row of   *)
(* the same user and category.  The sequence is advanced before any         *)
(* constraint is looked at, and the unique index before the foreign keys.   *)

\* Mutants: an UPDATE whose WHERE forgets the category, or the user.
RowsOfUser(u, c) == {v \in votes : v.user = u}
RowsOfCategory(u, c) == {v \in votes : v.category = c}

RowsOf(u, c) == {v \in votes : v.user = u /\ v.category = c}

\* Mutant: votes without UNIQUE(user_id, category_id).
NoConflict(r) == FALSE

Conflicts(r) == RowsOf(req[r].user, req[r].category) # {}

\* Mutant: votes without its foreign keys.
NoForeignKeys(r) == TRUE

ParentsExist(r) == req[r].user \in users /\ req[r].nominee \in nominees

\* Mutant: the sequence hands out one value too many.
NextValTooFar == /\ lastId <= MaxVoteId
                 /\ lastId' = lastId + 1

NextVal == /\ lastId < MaxVoteId
           /\ lastId' = lastId + 1

Returned(q, id, status) == [q EXCEPT !.pc = "reply", !.id = id, !.status = status]

\* Mutant: Insert reports every vote as created.
ReturnCreated(r, id, status) ==
    req' = [req EXCEPT ![r] = Returned(@, id, 201)]

\* Insert returns; the handler turns created into 201 and its negation into 200.
Return(r, id, status) ==
    req' = [req EXCEPT ![r] = Returned(@, id, status)]

\* nextval fails once the sequence is used up, whether or not a row exists.
InsertExhausted(r) ==
    /\ At(r, "insert")
    /\ lastId = MaxVoteId
    /\ Fail(r, 500)
    /\ UNCHANGED <<tables, closed>>

\* Mutant: ON CONFLICT DO NOTHING, taken for a changed vote.
ConflictIgnored(r) ==
    /\ At(r, "insert")
    /\ NextVal
    /\ Conflicts(r)
    /\ \E v \in RowsOf(req[r].user, req[r].category) : Return(r, v.id, 200)
    /\ UNCHANGED <<users, nominees, issued, votes, closed>>

\* SQLSTATE 23505: on to the UPDATE; the id taken is gone.
InsertConflict(r) ==
    /\ At(r, "insert")
    /\ NextVal
    /\ Conflicts(r)
    /\ Goto(r, "update")
    /\ UNCHANGED <<users, nominees, issued, votes, closed>>

\* SQLSTATE 23503: the user or the nominee has gone since it was read.
InsertOrphan(r) ==
    /\ At(r, "insert")
    /\ NextVal
    /\ ~Conflicts(r)
    /\ ~ParentsExist(r)
    /\ Fail(r, 500)
    /\ UNCHANGED <<users, nominees, issued, votes, closed>>

InsertRow(r) ==
    /\ At(r, "insert")
    /\ NextVal
    /\ ~Conflicts(r)
    /\ ParentsExist(r)
    /\ votes' = votes \cup {[id |-> lastId + 1, user |-> req[r].user,
                             nominee |-> req[r].nominee, category |-> req[r].category]}
    /\ Return(r, lastId + 1, 201)
    /\ UNCHANGED <<users, nominees, issued, closed>>

\* Mutant: an UPDATE that meets no row is waited for.
UpdateWaits(r) ==
    /\ At(r, "update")
    /\ Conflicts(r)
    /\ req[r].nominee \notin nominees
    /\ Fail(r, 500)
    /\ UNCHANGED <<tables, closed>>

\* No row to return (it was deleted since the INSERT), or the nominee has gone.
UpdateFails(r) ==
    /\ At(r, "update")
    /\ ~Conflicts(r) \/ req[r].nominee \notin nominees
    /\ Fail(r, 500)
    /\ UNCHANGED <<tables, closed>>

\* Mutant: the row is replaced and takes the id that the INSERT wasted.
Replaced(v, r) == [v EXCEPT !.nominee = req[r].nominee, !.id = lastId]

Rewritten(v, r) == [v EXCEPT !.nominee = req[r].nominee]

UpdateRow(r) ==
    /\ At(r, "update")
    /\ req[r].nominee \in nominees
    /\ \E v \in RowsOf(req[r].user, req[r].category) :
          /\ votes' = (votes \ RowsOf(req[r].user, req[r].category))
                        \cup {Rewritten(w, r) : w \in RowsOf(req[r].user, req[r].category)}
          /\ Return(r, v.id, 200)
    /\ UNCHANGED <<users, nominees, issued, lastId, closed>>

Reply(r) == /\ At(r, "reply")
            /\ Goto(r, "answered")
            /\ UNCHANGED <<tables, closed>>

\* The statement, or the word that it was committed ("reply"), is lost.
StatementLost(r) ==
    \/ /\ At(r, "auth")
       /\ Fail(r, 401)
       /\ UNCHANGED <<tables, closed>>
    \/ /\ req[r].pc \in {"user", "nominee", "insert", "update", "reply"}
       /\ Fail(r, 500)
       /\ UNCHANGED <<tables, closed>>

\* The client reads the answer, after which the slot may serve another request.
Receive(r) == /\ At(r, "answered")
              /\ req' = [req EXCEPT ![r] = Idle]
              /\ UNCHANGED <<tables, closed>>

-----------------------------------------------------------------------------
(* What happens around the requests *)

\* userStore.Insert and nominatedStore.Insert, with a UUID never used before.
Register(u) == /\ u \notin issued
               /\ users' = users \cup {u}
               /\ issued' = issued \cup {u}
               /\ UNCHANGED <<nominees, votes, lastId, closed, req>>

AddNominee(n) == /\ n \notin issued
                 /\ nominees' = nominees \cup {n}
                 /\ issued' = issued \cup {n}
                 /\ UNCHANGED <<users, votes, lastId, closed, req>>

\* Mutant: the cascade takes every vote of the category along.
VotesInCategoryOf(S) == {v \in votes : v.category \in {CategoryOf[n] : n \in S}}

VotesFor(S) == {v \in votes : v.nominee \in S}

\* ON DELETE CASCADE from users and from nominees to votes.
DeleteUser(u) == /\ u \in users
                 /\ users' = users \ {u}
                 /\ votes' = {v \in votes : v.user # u}
                 /\ UNCHANGED <<nominees, issued, lastId, closed, req>>

DeleteNominees(S) == /\ S # {}
                     /\ nominees' = nominees \ S
                     /\ votes' = votes \ VotesFor(S)
                     /\ UNCHANGED <<users, issued, lastId, closed, req>>

PassDeadline == /\ ~closed
                /\ closed' = TRUE
                /\ UNCHANGED <<tables, req>>

InProgress == {r \in Requests : req[r].pc \in Steps}

\* The server process dies: requests in progress get no answer, the database stays.
Crash == /\ InProgress # {}
         /\ req' = [r \in Requests |-> IF r \in InProgress THEN Idle ELSE req[r]]
         /\ UNCHANGED <<tables, closed>>

-----------------------------------------------------------------------------
Handle(r) == \/ Authenticate(r) \/ CheckDeadline(r) \/ CheckUser(r)
             \/ CheckRequest(r) \/ GetNominee(r)
             \/ InsertExhausted(r) \/ InsertConflict(r) \/ InsertOrphan(r) \/ InsertRow(r)
             \/ UpdateFails(r) \/ UpdateRow(r)
             \/ Reply(r)

Client(r) == \/ \E u \in Users, n \in Nominees \cup {None}, c \in BOOLEAN : Send(r, u, n, c)
             \/ Receive(r)

Environment == \/ \E u \in Users : Register(u) \/ DeleteUser(u)
               \/ \E n \in Nominees : AddNominee(n)
               \/ \E S \in SUBSET nominees : DeleteNominees(S)
               \/ PassDeadline
               \/ Crash

Next == \/ \E r \in Requests : Handle(r) \/ Client(r) \/ StatementLost(r)
        \/ Environment

Spec == Init /\ [][Next]_vars

\* Time passes, the Go scheduler runs every goroutine, every statement returns.
FairSpec == Spec /\ WF_vars(PassDeadline) /\ \A r \in Requests : WF_vars(Handle(r))

-----------------------------------------------------------------------------
(* Properties *)

TypeOK == /\ users \in SUBSET Users
          /\ nominees \in SUBSET Nominees
          /\ issued \in SUBSET (Users \cup Nominees)
          /\ votes \in SUBSET Vote
          /\ lastId \in 0..MaxVoteId
          /\ closed \in BOOLEAN
          /\ req \in [Requests -> Request]

\* Every vote is of a user that exists, for a nominee that exists, in the
\* category of that nominee, although AddVote read the three in earlier
\* statements than the one that writes the row.
VotesStand ==
    \A v \in votes : /\ v.user \in users
                     /\ v.nominee \in nominees
                     /\ v.category = CategoryOf[v.nominee]

\* However many requests race through INSERT and UPDATE, a user has at most one
\* row per category, and no two rows share an id.
OneVotePerCategory ==
    \A v, w \in votes : v.id = w.id \/ (v.user = w.user /\ v.category = w.category) => v = w

Receipts == {r \in Requests : req[r].status \in {200, 201}}

\* What successful answers say of ids can be relied on: an id is announced as
\* created at most once, and every answer and every row with one id are of the
\* same user and category.
ReceiptsAgree ==
    /\ \A r \in Receipts : \A s \in Receipts :
          (req[r].id = req[s].id /\ req[r].status = 201 /\ req[s].status = 201) => r = s
    /\ \A r \in Receipts : \A s \in Receipts :
          req[r].id = req[s].id => req[r].user = req[s].user /\ req[r].category = req[s].category
    /\ \A r \in Receipts : \A v \in votes :
          req[r].id = v.id => req[r].user = v.user /\ req[r].category = v.category

\* Changing a vote keeps its row: a row leaves the table only together with its
\* user or its nominee, and never passes to another user or category.
RowsPersist ==
    [][\A v \in votes :
          \/ v.user \notin users' \/ v.nominee \notin nominees'
          \/ \E w \in votes' : w.id = v.id /\ w.user = v.user /\ w.category = v.category]_vars

\* The steps at which a request may still write a vote.
MayWrite == {r \in Requests : req[r].pc \in {"user", "check", "nominee", "insert", "update"}}

\* Once the deadline has passed, the requests admitted before it drain and the
\* tally is final: from some point on no request can write a vote, whatever
\* clients keep sending.
TallyFreezes == <>[](closed /\ MayWrite = {})

\* What a vote that is written too late (NoLateVote) cannot do: after the deadline
\* only requests admitted before it write, ever fewer of them, and when none is left
\* a vote can only go with its user or nominee.
LateWritersShrink ==
    [][closed => /\ closed'
                 /\ MayWrite' \subseteq MayWrite
                 /\ MayWrite = {} => votes' \subseteq votes]_vars

\* Every request the server takes in is answered, or the server crashes.
RequestsEnd == \A r \in Requests : At(r, "auth") ~> req[r].pc \in {"answered", "idle"}

\* "Votes allowed only until 19:00 ...  After that time, voting is closed": no
\* vote is created or changed after the deadline.  The code checks the time
\* once, several statements before it writes.
NoLateVote == [][closed => votes' \subseteq votes]_vars

-----------------------------------------------------------------------------
(* The inductive invariant behind VotesStand, OneVotePerCategory and         *)
(* ReceiptsAgree.                                                            *)

\* What a request carries agrees with the steps it has taken: past GetNominee
\* the category it writes is the nominee's, an answer of success carries all
\* that was written, and no other request claims one.
Coherent(q) ==
    /\ q.pc \in Steps => q.user \in Users
    /\ q.pc \in {"nominee", "insert", "update", "reply"} => q.nominee \in Nominees
    /\ q.pc \in {"insert", "update", "reply"} => q.category = CategoryOf[q.nominee]
    /\ q.pc \notin {"reply", "answered"} => q.status = 0
    /\ q.status \in {200, 201} => q.user \in Users /\ q.category \in Categories

Carried == \A r \in Requests : Coherent(req[r])

\* Every id in a row or an answer has been taken from the sequence.
IdsTaken == /\ \A v \in votes : v.id <= lastId
            /\ \A r \in Requests : req[r].id <= lastId

IInv == /\ TypeOK
        /\ VotesStand
        /\ OneVotePerCategory
        /\ Carried
        /\ IdsTaken
        /\ ReceiptsAgree

-----------------------------------------------------------------------------
(* The vote endpoint implements the ballot box. *)

Ballots == [k \in Users \X Categories |->
              IF RowsOf(k[1], k[2]) = {} THEN None
              ELSE (CHOOSE v \in RowsOf(k[1], k[2]) : TRUE).nominee]

Asked == [r \in Requests |-> IF req[r].nominee = None THEN None
                             ELSE <<req[r].user, req[r].nominee>>]

Outcomes == [r \in Requests |-> CASE req[r].status = 201 -> "created"
                                  [] req[r].status = 200 -> "changed"
                                  [] OTHER -> "none"]

Box == INSTANCE BallotBox WITH enrolled <- users, standing <- nominees,
                               ballot <- Ballots, asked <- Asked, outcome <- Outcomes

\* Seen from outside, the two statements of the store and the reads before them
\* are one atomic cast whose answer is truthful.
BoxSpec == Box!Spec
=============================================================================
