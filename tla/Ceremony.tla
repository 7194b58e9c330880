------------------------------ MODULE Ceremony ------------------------------
(***************************************************************************)
(* The night of the awards: administrators select and remove winners       *)
(* (AddWinner, DeleteWinner) while users still vote, read their own score  *)
(* (GetMyScore, two queries) and the leaderboard (one query).  A vote is   *)
(* one atomic cast here, which is what Voting is shown to implement.       *)
(***************************************************************************)
EXTENDS Scoring

CONSTANTS Admins,     \* AddWinner requests handled at the same time
          Readers,    \* GetMyScore requests handled at the same time
          WinnerIds,  \* UUIDs for winners; bounds how many are ever selected
          None

VARIABLES nominees,  \* rows of nominees
          votes,     \* rows of votes
          winners,   \* rows of winners
          spent,     \* winner UUIDs handed out
          final,     \* no request may write votes any more
          add,       \* AddWinner requests
          read       \* GetMyScore requests

vars == <<nominees, votes, winners, spent, final, add, read>>

Quiet == [pc |-> "idle", nominee |-> None]
Unread == [pc |-> "idle", user |-> None, max |-> 0, points |-> 0, final |-> FALSE]

Init == /\ nominees = Nominees
        /\ votes = {}
        /\ winners = {}
        /\ spent = {}
        /\ final = FALSE
        /\ add = [a \in Admins |-> Quiet]
        /\ read = [r \in Readers |-> Unread]

-----------------------------------------------------------------------------
Cast(u, n) ==
    /\ ~final
    /\ n \in nominees
    /\ votes' = {v \in votes : v.user # u \/ v.category # CategoryOf[n]}
                  \cup {[user |-> u, nominee |-> n, category |-> CategoryOf[n]]}
    /\ UNCHANGED <<nominees, winners, spent, final, add, read>>

\* The deadline has passed and the requests admitted before it are done.
Freeze == /\ ~final
          /\ final' = TRUE
          /\ UNCHANGED <<nominees, votes, winners, spent, add, read>>

\* A migration script deletes nominees; votes and winners go with them.
DeleteNominees(S) ==
    /\ S # {}
    /\ nominees' = nominees \ S
    /\ votes' = {v \in votes : v.nominee \notin S}
    /\ winners' = {w \in winners : w.nominee \notin S}
    /\ UNCHANGED <<spent, final, add, read>>

-----------------------------------------------------------------------------
(* AddWinner and DeleteWinner *)

\* None: a request without a nominee, or without its CSRF token.
AskWinner(a, n) ==
    /\ add[a].pc = "idle"
    /\ add' = [add EXCEPT ![a] = [pc |-> "get", nominee |-> n]]
    /\ UNCHANGED <<nominees, votes, winners, spent, final, read>>

\* 201, 400, 403, 404 or 500: nothing here depends on the answer, which ends the request.
AnswerAdmin(a) == add' = [add EXCEPT ![a] = Quiet]

\* CSRF token, body, then nominatedStore.Get.
GetNominee(a) ==
    /\ add[a].pc = "get"
    /\ \/ add[a].nominee \notin nominees /\ AnswerAdmin(a)
       \/ add[a].nominee \in nominees /\ add' = [add EXCEPT ![a].pc = "insert"]
    /\ UNCHANGED <<nominees, votes, winners, spent, final, read>>

\* Mutant: winners without UNIQUE(nominated_id).
SelectedNever(n) == FALSE

Selected(n) == \E w \in winners : w.nominee = n

\* Mutant: winners without its foreign key.
MayReferAny(n) == TRUE

MayRefer(n) == n \in nominees

\* Mutant: the columns are scanned in the wrong order.
WinnerSwapped(id, n) == [id |-> n, nominee |-> id]

WinnerRow(id, n) == [id |-> id, nominee |-> n]

\* winnerStore.Insert; if the word that the row was committed is lost, the answer is 500.
InsertWinner(a) ==
    LET n == add[a].nominee IN
    /\ add[a].pc = "insert"
    /\ \/ /\ MayRefer(n) /\ ~Selected(n)
          /\ \E id \in WinnerIds \ spent :
                /\ winners' = winners \cup {WinnerRow(id, n)}
                /\ spent' = spent \cup {id}
       \/ /\ ~MayRefer(n) \/ Selected(n)
          /\ UNCHANGED <<winners, spent>>
    /\ AnswerAdmin(a)
    /\ UNCHANGED <<nominees, votes, final, read>>

\* A statement is lost before it takes effect.
AdminFails(a) == /\ add[a].pc \in {"get", "insert"}
                 /\ AnswerAdmin(a)
                 /\ UNCHANGED <<nominees, votes, winners, spent, final, read>>

\* One statement; an id that is gone is no error (204).
DeleteWinner(id) == /\ id \in spent
                    /\ winners' = {w \in winners : w.id # id}
                    /\ UNCHANGED <<nominees, votes, spent, final, add, read>>

-----------------------------------------------------------------------------
(* GetMyScore *)

ReadMax(r, u) ==
    /\ read[r].pc = "idle"
    /\ read' = [read EXCEPT ![r] = [pc |-> "points", user |-> u, points |-> 0,
                                    max |-> MaxPoints(votes, u), final |-> final]]
    /\ UNCHANGED <<nominees, votes, winners, spent, final, add>>

ReadPoints(r) ==
    /\ read[r].pc = "points"
    /\ read' = [read EXCEPT ![r].pc = "answered", ![r].user = None,
                            ![r].points = Points(votes, winners, read[r].user)]
    /\ UNCHANGED <<nominees, votes, winners, spent, final, add>>

\* The answer is read, or the second query has failed.
ReceiveScore(r) == /\ read[r].pc \in {"points", "answered"}
                   /\ read' = [read EXCEPT ![r] = Unread]
                   /\ UNCHANGED <<nominees, votes, winners, spent, final, add>>

-----------------------------------------------------------------------------
Next == \/ \E u \in Voters, n \in Nominees : Cast(u, n)
        \/ Freeze
        \/ \E S \in SUBSET nominees : DeleteNominees(S)
        \/ \E a \in Admins : \/ \E n \in Nominees \cup {None} : AskWinner(a, n)
                             \/ GetNominee(a) \/ InsertWinner(a) \/ AdminFails(a)
        \/ \E id \in WinnerIds : DeleteWinner(id)
        \/ \E r \in Readers : \/ \E u \in Voters : ReadMax(r, u)
                              \/ ReadPoints(r) \/ ReceiveScore(r)

Spec == Init /\ [][Next]_vars

-----------------------------------------------------------------------------
(* Properties *)

TypeOK == /\ nominees \subseteq Nominees
          /\ votes \subseteq [user : Voters, nominee : Nominees, category : Categories]
          /\ winners \subseteq [id : WinnerIds, nominee : Nominees]
          /\ spent \subseteq WinnerIds
          /\ final \in BOOLEAN
          /\ add \in [Admins -> [pc : {"idle", "get", "insert"}, nominee : Nominees \cup {None}]]
          /\ read \in [Readers -> [pc : {"idle", "points", "answered"}, user : Voters \cup {None},
                                   max : Nat, points : Nat, final : BOOLEAN]]

\* Administrators who select the same nominee at the same time, or one that is
\* being deleted, leave one row per winner, each for a nominee that exists.
WinnersStand == /\ \A w \in winners : w.nominee \in nominees
                /\ \A w, x \in winners : w.nominee = x.nominee => w = x

\* The leaderboard counts every vote once: its row agrees with what GetUserScore
\* computes on the same tables, nobody has more points than his votes are worth,
\* even when a category has two winners.
BoardAgrees ==
    \A row \in AllScores(votes, winners) :
       /\ row.total = Cardinality(VotesOf(votes, row.user))
       /\ row.max = MaxPoints(votes, row.user)
       /\ row.points = Points(votes, winners, row.user)
       /\ row.correct <= row.total
       /\ row.points <= row.max

\* Whatever order the database gives ties, the page ranks a user one below the
\* number of users with more points.
RanksCountBetter ==
    \A board \in Leaderboards(votes, winners) :
       \A i \in 1..Len(board) :
          Ranks(board)[i] = 1 + Cardinality({j \in 1..Len(board) : board[j].points > board[i].points})

\* A score whose reading starts after the tally is final does not exceed what the
\* votes are worth, whatever administrators do between its two queries.
FinalScoreWithin ==
    \A r \in Readers : read[r].pc = "answered" /\ read[r].final => read[r].points <= read[r].max

\* "points" are the "correct votes" among the "categories the user voted in",
\* so an answer never has more points than the maximum.  The code reads the two
\* in separate statements.
ScoreWithin == \A r \in Readers : read[r].pc = "answered" => read[r].points <= read[r].max
=============================================================================
