------------------------------ MODULE Scoring ------------------------------
(***************************************************************************)
(* The score queries of SQLVoteStore and the ranks of the leaderboard      *)
(* page, as functions of the rows of votes and winners.                    *)
(***************************************************************************)
EXTENDS Naturals, Sequences, FiniteSets, FiniteSetsExt

CONSTANTS Voters, Nominees, Categories, CategoryOf, NameOf

ASSUME ScoringAssumption == /\ CategoryOf \in [Nominees -> Categories]
                            /\ DOMAIN NameOf = Categories

\* CASE WHEN c.name = ...
Weight(c) == CASE NameOf[c] = "Best Picture" -> 3
               [] NameOf[c] \in {"Actor in a Leading Role", "Actress in a Leading Role"} -> 2
               [] OTHER -> 1

VotesOf(votes, u) == {v \in votes : v.user = u}

\* Mutant: winners are joined by their category.
MatchesCategory(v, w) == v.category = CategoryOf[w.nominee]

\* ON v.nominated_id = w.nominated_id
Matches(v, w) == v.nominee = w.nominee

\* votes INNER JOIN winners
Correct(votes, winners, u) == {vw \in VotesOf(votes, u) \X winners : Matches(vw[1], vw[2])}

\* votes LEFT JOIN winners: a vote without a match stands alone.
Joined(votes, winners, u) ==
    Correct(votes, winners, u)
      \cup {<<v>> : v \in {x \in VotesOf(votes, u) : \A w \in winners : ~Matches(x, w)}}

\* SUM(CASE WHEN c.name = ...) over joined rows
RowPoints(rows) == MapThenSumSet(LAMBDA row : Weight(row[1].category), rows)

\* Mutant: the CASE of the points has no ELSE 0.
WonAlways(row) == TRUE

\* w.id IS NOT NULL
Won(row) == Len(row) = 2

\* SUM(CASE WHEN w.id IS NOT NULL THEN CASE WHEN c.name = ... ELSE 0)
Earned(row) == IF Won(row) THEN Weight(row[1].category) ELSE 0
EarnedPoints(rows) == MapThenSumSet(Earned, rows)

\* GetUserScore, first query and second query.
MaxPoints(votes, u) == MapThenSumSet(LAMBDA v : Weight(v.category), VotesOf(votes, u))
Points(votes, winners, u) == RowPoints(Correct(votes, winners, u))

\* GetAllScores: one row per user with a vote, aggregated over the joined rows.
ScoreRow(votes, winners, u) ==
    LET rows == Joined(votes, winners, u)
    IN  [user |-> u,
         total |-> Cardinality(rows),
         correct |-> Cardinality({row \in rows : Won(row)}),
         points |-> EarnedPoints(rows),
         max |-> RowPoints(rows)]

AllScores(votes, winners) ==
    {ScoreRow(votes, winners, u) : u \in {x \in Voters : VotesOf(votes, x) # {}}}

\* Mutant: the points ascend.
Ascending(a, b) == \/ a.points < b.points
                   \/ a.points = b.points /\ a.correct >= b.correct

\* ORDER BY points DESC, correct_votes DESC, total_votes DESC
NotAfter(a, b) == \/ a.points > b.points
                  \/ a.points = b.points /\ a.correct > b.correct
                  \/ a.points = b.points /\ a.correct = b.correct /\ a.total >= b.total

\* Every order in which the database may return the rows.
Leaderboards(votes, winners) ==
    LET rows == AllScores(votes, winners)
        n == Cardinality(rows)
    IN  {board \in [1..n -> rows] :
            /\ \A i, j \in 1..n : i # j => board[i] # board[j]
            /\ \A i \in 1..(n - 1) : NotAfter(board[i], board[i + 1])}

\* The page: equal points share the rank, the next rank is the position.
Ranks(board) ==
    LET rank[i \in 1..Len(board)] ==
          IF i > 1 /\ board[i].points = board[i - 1].points THEN rank[i - 1] ELSE i
    IN  rank
=============================================================================
