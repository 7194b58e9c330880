------------------------------ MODULE Listing ------------------------------
(***************************************************************************)
(* The lists of nominees that pages are drawn from: NomineesByCategory,    *)
(* which reads three tables one after the other, and                       *)
(* ListNominatedsByCategory, which looks the movie of each nominee up,     *)
(* while rows come and go.  The reads of the first are limited, and they   *)
(* take a connection that breaks in the middle for the end of the rows.    *)
(***************************************************************************)
EXTENDS Naturals, Sequences, FiniteSets, SequencesExt

CONSTANTS Categories, Movies, Nominees,  \* ids; each is given to one row at most
          CategoryOf, MovieOf,           \* foreign keys of the nominees
          Limit                          \* LIMIT 100

ASSUME KeysAssumption == /\ CategoryOf \in [Nominees -> Categories]
                         /\ MovieOf \in [Nominees -> Movies]
                         /\ Categories \cap Movies = {}
                         /\ Nominees \cap (Categories \cup Movies) = {}
ASSUME LimitAssumption == Limit \in Nat \ {0}

Tables == {"categories", "movies", "nominees"}

VARIABLES table,  \* the ids of each table, in the order in which its List has them
          spent,  \* ids handed out
          read    \* a request that lists nominees

listingVars == <<table, spent, read>>

\* todo: what is still to be read.  For the properties only: begun, the nominees
\* that the request should list when it begins, and whole, nothing was left out.
NoRead == [kind |-> "none", todo |-> <<>>, categories |-> {}, nominees |-> {}, movies |-> {},
           begun |-> {}, whole |-> TRUE]

ListingInit == /\ table = [t \in Tables |-> <<>>]
               /\ spent = {}
               /\ read = NoRead

Present(t) == ToSet(table[t])

-----------------------------------------------------------------------------
(* Writers, each one committed transaction *)

\* The newest nominee comes first, a movie anywhere (random id), a category where
\* its sequence_order puts it.
Add(t, id, k) == /\ id \notin spent
                 /\ table' = [table EXCEPT ![t] = InsertAt(@, k, id)]
                 /\ spent' = spent \cup {id}
                 /\ UNCHANGED read

AddRow == \/ \E c \in Categories, k \in 1..(Len(table["categories"]) + 1) : Add("categories", c, k)
          \/ \E m \in Movies, k \in 1..(Len(table["movies"]) + 1) : Add("movies", m, k)
          \/ \E n \in Nominees : /\ CategoryOf[n] \in Present("categories")
                                 /\ MovieOf[n] \in Present("movies")
                                 /\ Add("nominees", n, 1)

\* The elements of s that are in K, in their order: SelectSeq, as a function.
Keep(s, K) ==
    LET kept[i \in 0..Len(s)] == IF i = 0 THEN <<>>
                                 ELSE IF s[i] \in K THEN Append(kept[i - 1], s[i])
                                 ELSE kept[i - 1]
    IN  kept[Len(s)]

\* A row and, by the foreign keys, the nominees that refer to it.
Gone(id) == {id} \cup {n \in Nominees : id \in {CategoryOf[n], MovieOf[n]}}

Delete(id) ==
    /\ \E t \in Tables : id \in Present(t)
    /\ table' = [t \in Tables |-> Keep(table[t], Present(t) \ Gone(id))]
    /\ UNCHANGED <<spent, read>>

-----------------------------------------------------------------------------
(* NomineesByCategory *)

\* Mutant: titles are fetched before the nominees that need them.
ReadsTitlesFirst == <<"categories", "movies", "nominees">>

Reads == <<"categories", "nominees", "movies">>

AskAll == /\ read.kind = "none"
          /\ read' = [NoRead EXCEPT !.kind = "all", !.todo = Reads, !.begun = Present("nominees")]
          /\ UNCHANGED <<table, spent>>

\* Mutant: one row less.
OneLess(rows) == SubSeq(rows, 1, IF Len(rows) < Limit THEN Len(rows) ELSE Limit - 1)

\* Mutant: ORDER BY created_at without DESC.
OldestFirst(rows) == SubSeq(rows, 1 + (IF Len(rows) <= Limit THEN 0 ELSE Len(rows) - Limit), Len(rows))

Limited(rows) == SubSeq(rows, 1, IF Len(rows) <= Limit THEN Len(rows) ELSE Limit)

\* List of the store at the head of todo.  It does not ask rows.Err, so that it
\* returns the rows it has when the connection breaks.
ReadTable ==
    /\ read.kind = "all" /\ read.todo # <<>>
    /\ LET t == Head(read.todo)
           rows == Limited(table[t])
       IN \E k \in 0..Len(rows) :
             read' = [read EXCEPT ![t] = ToSet(SubSeq(rows, 1, k)), !.todo = Tail(@),
                                  !.whole = @ /\ (k = Len(rows)) /\ Len(table[t]) <= Limit]
    /\ UNCHANGED <<table, spent>>

-----------------------------------------------------------------------------
(* ListNominatedsByCategory *)

In(c) == Keep(table["nominees"], {n \in Nominees : CategoryOf[n] = c})

AskCategory(c) == /\ read.kind = "none"
                  /\ read' = [NoRead EXCEPT !.kind = "category", !.categories = {c},
                                            !.todo = <<"nominees">>, !.begun = ToSet(In(c))]
                  /\ UNCHANGED <<table, spent>>

\* ListByCategory asks rows.Err.
ReadCategory ==
    /\ read.kind = "category" /\ read.todo = <<"nominees">>
    /\ \E c \in read.categories :
          read' = [read EXCEPT !.nominees = ToSet(Limited(In(c))), !.todo = Limited(In(c)),
                               !.whole = Len(In(c)) <= Limit]
    /\ UNCHANGED <<table, spent>>

\* movieStore.Get for the next nominee; an error leaves the title out.
LookUp ==
    /\ read.kind = "category" /\ read.todo \notin {<<>>, <<"nominees">>}
    /\ \/ read' = [read EXCEPT !.todo = Tail(@),
                               !.movies = @ \cup ({MovieOf[Head(read.todo)]} \cap Present("movies"))]
       \/ read' = [read EXCEPT !.todo = Tail(@), !.whole = FALSE]
    /\ UNCHANGED <<table, spent>>

-----------------------------------------------------------------------------
Done == read.kind # "none" /\ read.todo = <<>>

\* What the answer shows: nominees under a category of the answer, with the title
\* of their movie or without.
Shown == {n \in read.nominees : CategoryOf[n] \in read.categories}
Titled == {n \in Shown : MovieOf[n] \in read.movies}

\* A query fails (500), or the answer has arrived.
EndRead == /\ read.kind # "none"
           /\ read' = NoRead
           /\ UNCHANGED <<table, spent>>

ListingTypeOK ==
    /\ table \in [Tables -> Seq(Categories) \cup Seq(Movies) \cup Seq(Nominees)]
    /\ spent \subseteq Categories \cup Movies \cup Nominees
    /\ read.kind \in {"none", "all", "category"}
    /\ read.categories \subseteq Categories
    /\ read.movies \subseteq Movies
    /\ read.nominees \cup read.begun \subseteq Nominees

\* A nominee that was there when the request began and still is does not fall between
\* its reads, unless a table was longer than the limit or a read was cut short.
StableListed ==
    Done /\ read.whole => read.begun \cap Present("nominees") \subseteq Shown

\* m comes before n in the list of nominees.
Newer(m, n) == \E i \in 1..Len(table["nominees"]) :
                  /\ table["nominees"][i] = m
                  /\ \A j \in 1..i : table["nominees"][j] # n

\* What the limit or a broken connection takes from a page are the oldest nominees of a
\* category: whoever is listed did not push out a newer one that was there all along.
NewestListed ==
    Done /\ read.kind = "all" =>
       \A n \in Shown \cap Present("nominees"), m \in read.begun \cap Present("nominees") :
          CategoryOf[m] = CategoryOf[n] /\ Newer(m, n) => m \in Shown

\* Nor does a nominee lose its title, not even one that was added between two of
\* the reads: whoever is shown without one has gone with the movie.
TitlesKnown ==
    Done /\ read.whole => Shown \cap Present("nominees") \subseteq Titled
=============================================================================
