----------------------------- MODULE BallotBox -----------------------------
(***************************************************************************)
(* What the vote endpoint promises to the outside: every user has at most  *)
(* one ballot per category, a cast takes effect at one instant between the *)
(* request and its answer, the answer tells truthfully whether a ballot    *)
(* was created or changed, and a ballot never names a nominee or a user    *)
(* that has gone.  Nothing here knows about rows, ids or statements.       *)
(***************************************************************************)
CONSTANTS Users, Nominees, Categories, CategoryOf, Requests, None

VARIABLES enrolled,  \* users that exist
          standing,  \* nominees that exist
          ballot,    \* the nominee a user stands by in a category, or None
          asked,     \* the user and the nominee of each request under way, or None
          outcome    \* what each request achieved so far

vars == <<enrolled, standing, ballot, asked, outcome>>

Init == /\ enrolled \in SUBSET Users
        /\ standing \in SUBSET Nominees
        /\ ballot = [k \in Users \X Categories |-> None]
        /\ asked = [r \in Requests |-> None]
        /\ outcome = [r \in Requests |-> "none"]

Ask(r, u, n) ==
    /\ asked[r] = None
    /\ asked' = [asked EXCEPT ![r] = <<u, n>>]
    /\ UNCHANGED <<enrolled, standing, ballot, outcome>>

\* The store contract: "inserts or updates", true for a new vote, false for a changed one.
Cast(r) ==
    /\ asked[r] # None
    /\ outcome[r] = "none"
    /\ LET u == asked[r][1]
           n == asked[r][2]
           k == <<u, CategoryOf[n]>>
       IN  /\ u \in enrolled
           /\ n \in standing
           /\ ballot' = [ballot EXCEPT ![k] = n]
           /\ outcome' = [outcome EXCEPT ![r] = IF ballot[k] = None THEN "created" ELSE "changed"]
    /\ UNCHANGED <<enrolled, standing, asked>>

\* Answers are read, refused, or lost with the server.
Forget(S) ==
    /\ asked' = [r \in Requests |-> IF r \in S THEN None ELSE asked[r]]
    /\ outcome' = [r \in Requests |-> IF r \in S THEN "none" ELSE outcome[r]]
    /\ UNCHANGED <<enrolled, standing, ballot>>

Enrol(u) == /\ enrolled' = enrolled \cup {u}
            /\ UNCHANGED <<standing, ballot, asked, outcome>>

Nominate(n) == /\ standing' = standing \cup {n}
               /\ UNCHANGED <<enrolled, ballot, asked, outcome>>

\* A user or nominee that goes takes the ballots that name it along.
Expel(u) ==
    /\ enrolled' = enrolled \ {u}
    /\ ballot' = [k \in Users \X Categories |-> IF k[1] = u THEN None ELSE ballot[k]]
    /\ UNCHANGED <<standing, asked, outcome>>

Strike(S) ==
    /\ standing' = standing \ S
    /\ ballot' = [k \in Users \X Categories |-> IF ballot[k] \in S THEN None ELSE ballot[k]]
    /\ UNCHANGED <<enrolled, asked, outcome>>

Next == \/ \E r \in Requests, u \in Users, n \in Nominees : Ask(r, u, n)
        \/ \E r \in Requests : Cast(r)
        \/ \E S \in SUBSET Requests : Forget(S)
        \/ \E u \in Users : Enrol(u) \/ Expel(u)
        \/ \E n \in Nominees : Nominate(n)
        \/ \E S \in SUBSET Nominees : Strike(S)

Spec == Init /\ [][Next]_vars
=============================================================================
