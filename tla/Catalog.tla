------------------------------- MODULE Catalog -------------------------------
(***************************************************************************)
(* The write side of the catalogue: AddMovie(s), AddCategory/-ies,         *)
(* AddNominated(s) and AddNominatedsByNames over the InsertMany of the     *)
(* three stores.  InsertMany is a transaction of one INSERT per list       *)
(* element; under read committed isolation an INSERT fails on a committed  *)
(* row with its key and waits for a transaction that holds an uncommitted  *)
(* one, so transactions can wait for each other in a circle.  The single-  *)
(* row handlers are lists of length one.                                   *)
(***************************************************************************)
EXTENDS Naturals, Sequences, FiniteSets, SequencesExt

CONSTANTS Requests,  \* requests the server handles at the same time
          Bodies,    \* what clients send
          Ids,       \* UUIDs that movies and categories may get
          Names,     \* titles, category names and nominee names, except the empty one
          Seeds,     \* rows of categories that a migration inserted
          Empty,     \* the empty name
          None

Kinds == {"movies", "categories", "nominees", "names"}

Lists == Seq(Names \cup {Empty})

\* What the handlers read from their requests.  A nomination carries the movie of
\* each name and, here, one category for the whole list.
NamedBody == [kind : {"movies", "categories"}, csrf : BOOLEAN, category : {None},
              names : Lists, movies : {<<>>}]
NomineesBody == [kind : {"nominees"}, csrf : BOOLEAN, category : Ids \cup {None},
                 names : Lists, movies : Seq(Ids \cup {None})]
NamesBody == [kind : {"names"}, csrf : BOOLEAN, category : Ids \cup {None},
              names : Lists, movies : {<<>>}]
Body == NamedBody \cup NomineesBody \cup NamesBody

Named == [id : Ids, name : Names]
Nominee == [movie : Ids, category : Ids, name : Names]

ASSUME BodiesAssumption == /\ Bodies \subseteq Body
                           /\ \A b \in Bodies : b.kind = "nominees" => Len(b.movies) = Len(b.names)
ASSUME SeedsAssumption == /\ Seeds \subseteq Named
                          /\ \A x, y \in Seeds : x.name = y.name \/ x.id = y.id => x = y
ASSUME EmptyAssumption == Empty \notin Names

VARIABLES movies, categories, nominees,  \* committed rows
          issued,                        \* ids of the rows ever committed
          req                            \* requests and their open transactions

tables == <<movies, categories, nominees, issued>>
vars == <<movies, categories, nominees, issued, req>>

\* rows: what the open transaction has inserted, in the order of the list.
Blank(pc, status) == [pc |-> pc, kind |-> "movies", csrf |-> FALSE, category |-> None,
                      names |-> <<>>, movies |-> <<>>, rows |-> <<>>, status |-> status]
Idle == Blank("idle", 0)

Init == /\ movies = {}
        /\ categories = Seeds
        /\ nominees = {}
        /\ issued = {c.id : c \in Seeds}
        /\ req = [r \in Requests |-> Idle]

At(r, pc) == req[r].pc = pc
Goto(r, pc) == req' = [req EXCEPT ![r].pc = pc]
InProgress == {r \in Requests : req[r].pc \notin {"idle", "answered"}}

\* http.Error; an open transaction is rolled back, what an earlier one of the
\* same request committed stays.
Fail(r, status) ==
    req' = [req EXCEPT ![r] = [@ EXCEPT !.pc = "answered", !.rows = <<>>, !.status = status]]

Lengths == {Len(b.names) : b \in Bodies}

\* Bound: a request is sent only while there are ids for the lists in progress.
IdsLeft == \A n \in Lengths : (Cardinality(InProgress) + 1) * n <= Cardinality(Ids \ issued)

Send(r, b) ==
    /\ At(r, "idle")
    /\ IdsLeft
    /\ req' = [req EXCEPT ![r] = [pc |-> "check", kind |-> b.kind, csrf |-> b.csrf,
                                  category |-> b.category, names |-> b.names,
                                  movies |-> b.movies, rows |-> <<>>, status |-> 0]]
    /\ UNCHANGED tables

\* Mutant: the elements are not looked at.
EmptyPasses(r) == FALSE

HasEmpty(r) == Empty \in ToSet(req[r].names) \/ None \in ToSet(req[r].movies)

\* CSRF token and body.
Check(r) ==
    /\ At(r, "check")
    /\ IF ~req[r].csrf THEN Fail(r, 403)
       ELSE IF \/ req[r].names = <<>>
               \/ req[r].kind \in {"nominees", "names"} /\ req[r].category = None
            THEN Fail(r, 400)
       ELSE IF req[r].kind = "names" THEN Goto(r, "category")
       ELSE IF HasEmpty(r) THEN Fail(r, 400)
       ELSE Goto(r, IF req[r].kind = "nominees" THEN "link" ELSE "name")
    /\ UNCHANGED tables

\* AddNominatedsByNames looks the category up before it looks at the names.
GetCategory(r) ==
    /\ At(r, "category")
    /\ IF \/ \A c \in categories : c.id # req[r].category
          \/ HasEmpty(r)
       THEN Fail(r, 400)
       ELSE Goto(r, "name")
    /\ UNCHANGED tables

-----------------------------------------------------------------------------
(* The transaction of InsertMany: pc "name" for a list of movies or          *)
(* categories, "link" for a list of nominees.                                *)

InTransaction(r) == req[r].pc \in {"name", "link"}
Table(r) == IF At(r, "link") THEN "nominees"
            ELSE IF req[r].kind = "categories" THEN "categories" ELSE "movies"
Rows(table) == CASE table = "movies" -> movies
                 [] table = "categories" -> categories
                 [] table = "nominees" -> nominees

Remaining(r) == InTransaction(r) /\ Len(req[r].rows) < Len(req[r].names)
Name(r) == req[r].names[Len(req[r].rows) + 1]
Link(r) == [movie |-> req[r].movies[Len(req[r].rows) + 1],
            category |-> req[r].category, name |-> Name(r)]

\* UNIQUE (title), UNIQUE (name), UNIQUE (movie_id, category_id, nominee_name).
SameKey(r, row) == IF At(r, "link") THEN row = Link(r) ELSE row.name = Name(r)

\* Mutant: tables without their UNIQUE constraints.
NeverTaken(r) == FALSE

Taken(r) == \E row \in Rows(Table(r)) \cup ToSet(req[r].rows) : SameKey(r, row)

\* The transactions that the next INSERT of r must wait for.
WaitsFor(r) ==
    IF ~Remaining(r) \/ Taken(r) THEN {}
    ELSE {s \in Requests \ {r} : /\ InTransaction(s)
                                 /\ Table(s) = Table(r)
                                 /\ \E row \in ToSet(req[s].rows) : SameKey(r, row)}

\* Mutant: nominees without foreign keys.
AlwaysExist(r) == TRUE

ParentsExist(r) == /\ \E m \in movies : m.id = Link(r).movie
                   /\ \E c \in categories : c.id = Link(r).category

InsertFails(r) ==
    /\ Remaining(r)
    /\ Taken(r) \/ (At(r, "link") /\ WaitsFor(r) = {} /\ ~ParentsExist(r))
    /\ Fail(r, 500)
    /\ UNCHANGED tables

\* gen_random_uuid: an id in no committed row and no open transaction.  One that
\* was rolled back has never been seen, so it may stand for a new one.
FreshIds == Ids \ (issued \cup UNION {{row.id : row \in ToSet(req[s].rows)} :
                                       s \in {x \in Requests : At(x, "name")}})

InsertRow(r) ==
    /\ Remaining(r)
    /\ ~Taken(r)
    /\ WaitsFor(r) = {}
    /\ \/ /\ At(r, "link")
          /\ ParentsExist(r)
          /\ req' = [req EXCEPT ![r].rows = Append(@, Link(r))]
       \/ /\ At(r, "name")
          /\ \E id \in FreshIds :
                req' = [req EXCEPT ![r].rows = Append(@, [id |-> id, name |-> Name(r)])]
    /\ UNCHANGED tables

\* The transactions that wait for each other in a circle through r.
Circles(r) == {S \in SUBSET Requests : /\ r \in S
                                       /\ \A s \in S : WaitsFor(s) \cap S # {}
                                       /\ \A s \in S : \E t \in S : s \in WaitsFor(t)}

\* Mutant: Postgres does not look for deadlocks.
CircleIgnored(r) == FALSE /\ UNCHANGED vars

\* SQLSTATE 40P01, after deadlock_timeout, for one of the waiting transactions.
DeadlockDetected(r) == /\ Circles(r) # {}
                       /\ Fail(r, 500)
                       /\ UNCHANGED tables

\* Mutant: only the first INSERT makes it into the commit.
PublishSome(r) == ToSet(SubSeq(req[r].rows, 1, 1))

Publish(r) == ToSet(req[r].rows)

Store(r) ==
    /\ movies' = IF Table(r) = "movies" THEN movies \cup Publish(r) ELSE movies
    /\ categories' = IF Table(r) = "categories" THEN categories \cup Publish(r) ELSE categories
    /\ nominees' = IF Table(r) = "nominees" THEN nominees \cup Publish(r) ELSE nominees
    /\ issued' = IF At(r, "name") THEN issued \cup {row.id : row \in Publish(r)} ELSE issued

\* Mutant: the ids come back in the order of the index.
ReturnedBackwards(r) == Reverse([k \in 1..Len(req[r].rows) |-> req[r].rows[k].id])

\* The ids that InsertMany returns.
Returned(r) == [k \in 1..Len(req[r].rows) |-> req[r].rows[k].id]

Commit(r) ==
    /\ InTransaction(r)
    /\ ~Remaining(r)
    /\ Store(r)
    /\ req' = [req EXCEPT ![r] =
                 IF @.kind = "names" /\ @.pc = "name"
                 THEN [@ EXCEPT !.pc = "link", !.movies = Returned(r), !.rows = <<>>]
                 ELSE [@ EXCEPT !.pc = "answered", !.rows = <<>>, !.status = 201]]

\* A statement fails, or the word that a transaction was committed is lost.
DatabaseFails(r) ==
    \/ /\ At(r, "category") \/ InTransaction(r)
       /\ Fail(r, 500)
       /\ UNCHANGED tables
    \/ /\ InTransaction(r)
       /\ ~Remaining(r)
       /\ Store(r)
       /\ Fail(r, 500)

Receive(r) == /\ At(r, "answered")
              /\ req' = [req EXCEPT ![r] = Idle]
              /\ UNCHANGED tables

-----------------------------------------------------------------------------
(* What happens around the requests *)

Crash == /\ InProgress # {}
         /\ req' = [r \in Requests |-> IF r \in InProgress THEN Idle ELSE req[r]]
         /\ UNCHANGED tables

Linked == UNION {ToSet(req[r].rows) : r \in {x \in Requests : At(x, "link")}}

\* The DELETEs of the migration scripts.  Those of movies and categories wait for
\* the transactions that have inserted a nominee of theirs.
DeleteNominees(c) == /\ nominees' = {n \in nominees : n.category # c}
                     /\ UNCHANGED <<movies, categories, issued, req>>

DeleteCategories == /\ Linked = {}
                    /\ categories' = {}
                    /\ nominees' = {}
                    /\ UNCHANGED <<movies, issued, req>>

DeleteMovies == /\ Linked = {}
                /\ movies' = {}
                /\ nominees' = {}
                /\ UNCHANGED <<categories, issued, req>>

-----------------------------------------------------------------------------
Handle(r) == \/ Check(r) \/ GetCategory(r) \/ InsertFails(r) \/ InsertRow(r)
             \/ DeadlockDetected(r) \/ Commit(r)

Next == \/ \E r \in Requests : \/ Handle(r) \/ DatabaseFails(r) \/ Receive(r)
                               \/ \E b \in Bodies : Send(r, b)
        \/ Crash
        \/ \E c \in categories : DeleteNominees(c.id)
        \/ DeleteCategories
        \/ DeleteMovies

Spec == Init /\ [][Next]_vars

\* Goroutines run, statements return, Postgres looks for deadlocks.
FairSpec == Spec /\ \A r \in Requests : WF_vars(Handle(r))

-----------------------------------------------------------------------------
(* Properties *)

Request == [pc : {"idle", "check", "category", "name", "link", "answered"},
            kind : Kinds, csrf : BOOLEAN, category : Ids \cup {None},
            names : Lists, movies : Seq(Ids \cup {None}),
            rows : Seq(Named \cup Nominee), status : {0, 201, 400, 403, 500}]

TypeOK == /\ movies \subseteq Named
          /\ categories \subseteq Named
          /\ nominees \subseteq Nominee
          /\ issued \subseteq Ids
          /\ req \in [Requests -> Request]

\* No two movies have a title in common and no two categories a name, although
\* the transactions that insert them overlap.
KeysUnique == \A T \in {movies, categories} : \A x, y \in T :
                 x.name = y.name \/ x.id = y.id => x = y

\* A nominee's movie and category exist, although a request learns of them from
\* earlier statements and commits its nominees in a transaction of its own.
NomineesStand == \A n \in nominees : /\ \E m \in movies : m.id = n.movie
                                     /\ \E c \in categories : c.id = n.category

\* "InsertMany inserts multiple movies in a transaction": rows appear as a whole
\* list or not at all, whatever fails in the middle of it.
WholeLists ==
    [][\A new \in {movies' \ movies, categories' \ categories, nominees' \ nominees} :
          new # {} => \E r \in Requests : /\ {row.name : row \in new} = ToSet(req[r].names)
                                          /\ Cardinality(new) = Len(req[r].names)]_vars

\* "... and returns their IDs in order": AddNominatedsByNames pairs the ids with
\* the names by position, so each name is nominated for the movie of that title.
NamesMatchTitles ==
    \A r \in Requests : req[r].kind = "names" =>
       \A k \in 1..Len(req[r].movies) : \A m \in movies :
          m.id = req[r].movies[k] => m.name = req[r].names[k]

\* Lists that wait for each other's titles do not hang their requests, once
\* clients send no more (new requests could take a title ahead of a waiting one
\* for ever).
RequestsEnd == <>[][\A r \in Requests, b \in Bodies : ~Send(r, b)]_vars =>
                  <>[](InProgress = {})

\* "It will create movies for each provided name, then create nominated entries
\* linking the created movies to the given category": a request that fails does
\* not leave movies behind.  The code commits the movies first.
NoOrphanMovies ==
    \A r \in Requests : At(r, "answered") /\ req[r].kind = "names" /\ req[r].status = 500 =>
       \A m \in movies : m.id \notin ToSet(req[r].movies)
=============================================================================
