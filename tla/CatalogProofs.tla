--------------------------- MODULE CatalogProofs ---------------------------
(***************************************************************************)
(* The catalogue for any number of requests and lists of any length: what  *)
(* overlapping transactions hold is distinct from what is committed and    *)
(* from what the others hold, so that every commit keeps the keys unique.  *)
(***************************************************************************)
EXTENDS Catalog, FiniteSetTheorems, TLAPS

Open(r) == ToSet(req[r].rows)

\* The UNIQUE constraint of a table.
Clash(t, x, y) == IF t = "nominees" THEN x = y ELSE x.name = y.name

-----------------------------------------------------------------------------
(* What one transaction holds *)

Prepared(r) == /\ At(r, "name") => req[r].rows \in Seq(Named)
               /\ At(r, "link") => req[r].rows \in Seq(Nominee)
               /\ ~InTransaction(r) => req[r].rows = <<>>
               /\ InTransaction(r) => Empty \notin ToSet(req[r].names)

\* Its rows are the first of the list.
InListOrder(r) == /\ Len(req[r].rows) <= Len(req[r].names)
                  /\ \A k \in 1..Len(req[r].rows) : req[r].rows[k].name = req[r].names[k]

Distinct(r) == \A i, j \in 1..Len(req[r].rows) :
                  \/ Clash(Table(r), req[r].rows[i], req[r].rows[j])
                  \/ At(r, "name") /\ req[r].rows[i].id = req[r].rows[j].id
                  => i = j

\* Nothing of it is committed, although others commit all the time.
Fresh(r) == \A x \in Open(r) : /\ \A y \in Rows(Table(r)) : ~Clash(Table(r), x, y)
                               /\ At(r, "name") => x.id \notin issued

\* Nor does another transaction hold it.
Apart(r, s) == \A x \in Open(r), y \in Open(s) :
                  /\ Table(r) = Table(s) => ~Clash(Table(r), x, y)
                  /\ At(r, "name") /\ At(s, "name") => x.id # y.id

HasParents(n) == /\ \E m \in movies : m.id = n.movie
                 /\ \E c \in categories : c.id = n.category

Linkable(r) == At(r, "link") => \A x \in Open(r) : HasParents(x)

\* The movies of AddNominatedsByNames are those that it has committed.
Given(r) == req[r].kind = "names" =>
               /\ req[r].pc \in {"check", "category", "name"} => req[r].movies = <<>>
               /\ ToSet(req[r].movies) \subseteq issued

Holds(r) == /\ Distinct(r) /\ Fresh(r) /\ Linkable(r)
            /\ \A s \in Requests \ {r} : Apart(r, s)

CommittedIssued == \A x \in movies \cup categories : x.id \in issued

CInv == /\ TypeOK /\ KeysUnique /\ NomineesStand /\ NamesMatchTitles
        /\ CommittedIssued
        /\ \A r \in Requests : Prepared(r) /\ InListOrder(r) /\ Given(r) /\ Holds(r)

-----------------------------------------------------------------------------
(* Sequences *)

LEMMA SetOfSeq == ASSUME NEW S, NEW s \in Seq(S)
                  PROVE  /\ ToSet(s) = {s[i] : i \in 1..Len(s)}
                         /\ ToSet(s) \subseteq S
  BY DEF ToSet

LEMMA EmptySet == ToSet(<<>>) = {}
  BY DEF ToSet

LEMMA AppendSet == ASSUME NEW S, NEW s \in Seq(S), NEW e \in S
                   PROVE  /\ Append(s, e) \in Seq(S) /\ Len(Append(s, e)) = Len(s) + 1
                          /\ \A i \in 1..Len(s) : Append(s, e)[i] = s[i]
                          /\ Append(s, e)[Len(s) + 1] = e
                          /\ ToSet(Append(s, e)) = ToSet(s) \cup {e}
  <1> DEFINE a == Append(s, e)
  <1>1. a \in Seq(S) /\ Len(a) = Len(s) + 1
    OBVIOUS
  <1>2. \A i \in 1..Len(s) : a[i] = s[i]
    OBVIOUS
  <1>3. a[Len(s) + 1] = e
    OBVIOUS
  <1>4. Len(s) \in Nat
    OBVIOUS
  <1> HIDE DEF a
  <1>5. \A i \in 1..Len(a) : a[i] \in ToSet(s) \cup {e}
    <2> TAKE i \in 1..Len(a)
    <2>1. CASE i = Len(s) + 1
      BY <1>3, <2>1
    <2>2. CASE i # Len(s) + 1
      <3>1. i \in 1..Len(s)
        BY <1>1, <1>4, <2>2
      <3> QED
        BY <1>2, <3>1, SetOfSeq
    <2> QED
      BY <2>1, <2>2
  <1>6. \A i \in 1..Len(s) : i \in 1..Len(a)
    BY <1>1, <1>4
  <1>7. ToSet(s) \subseteq ToSet(a)
    BY <1>1, <1>2, <1>6, SetOfSeq
  <1>8. e \in ToSet(a)
    <2>1. Len(s) + 1 \in 1..Len(a)
      BY <1>1, <1>4
    <2> QED
      BY <1>1, <1>3, <2>1, SetOfSeq
  <1>9. ToSet(a) \subseteq ToSet(s) \cup {e}
    BY <1>1, <1>5, SetOfSeq
  <1>10. ToSet(a) = ToSet(s) \cup {e}
    BY <1>7, <1>8, <1>9
  <1> QED
    BY <1>1, <1>2, <1>3, <1>10 DEF a

-----------------------------------------------------------------------------
(* Steps that insert nothing *)

\* A request whose transaction goes on, and one without rows, hold what they should
\* when rows of the tables only disappear.
LEMMA OthersHold ==
    ASSUME TypeOK, TypeOK', NEW r \in Requests, Holds(r),
           movies' \subseteq movies, categories' \subseteq categories,
           nominees' \subseteq nominees, issued' = issued,
           \A s \in Requests : req'[s] = req[s] \/ req'[s].rows = <<>>,
           Linked = {} \/ (movies' = movies /\ categories' = categories)
    PROVE  Holds(r)'
  <1>1. CASE req'[r].rows = <<>>
    <2>1. Open(r)' = {}
      BY <1>1, EmptySet DEF Open
    <2>2. Distinct(r)'
      BY <1>1 DEF Distinct
    <2> QED
      BY <2>1, <2>2 DEF Holds, Fresh, Linkable, Apart
  <1>2. CASE req'[r] = req[r]
    <2>1. Open(r)' = Open(r) /\ Table(r)' = Table(r) /\ At(r, "name")' = At(r, "name")
          /\ At(r, "link")' = At(r, "link")
      BY <1>2 DEF Open, Table, At
    <2>2. Distinct(r)'
      BY <1>2, <2>1 DEF Holds, Distinct
    <2>3. Rows(Table(r))' \subseteq Rows(Table(r))
      BY <2>1 DEF Rows, Table
    <2>4. Fresh(r)'
      BY <2>1, <2>3 DEF Holds, Fresh
    <2>5. Linkable(r)'
      <3>1. At(r, "link") /\ Linked = {} => Open(r) = {}
        BY DEF Linked, Open
      <3> QED
        BY <2>1, <3>1 DEF Holds, Linkable, HasParents
    <2>6. ASSUME NEW s \in Requests \ {r} PROVE Apart(r, s)'
      <3>1. CASE req'[s].rows = <<>>
        <4>1. Open(s)' = {}
          BY <3>1, EmptySet DEF Open
        <4> QED
          BY <4>1 DEF Apart
      <3>2. CASE req'[s] = req[s]
        <4>1. Open(s)' = Open(s) /\ Table(s)' = Table(s) /\ At(s, "name")' = At(s, "name")
          BY <3>2 DEF Open, Table, At
        <4> QED
          BY <2>1, <4>1 DEF Holds, Apart
      <3> QED
        BY <3>1, <3>2
    <2> QED
      BY <2>2, <2>4, <2>5, <2>6 DEF Holds
  <1> QED
    BY <1>1, <1>2

\* Requests that are not touched, and requests that are left with an empty transaction.
Settled(s) ==
    \/ req'[s] = req[s]
    \/ /\ req'[s].rows = <<>>
       /\ req'[s].pc \in {"name", "link"} => Empty \notin ToSet(req'[s].names)
       /\ req'[s].kind = "names" =>
             /\ req'[s].pc \in {"check", "category", "name"} => req'[s].movies = <<>>
             /\ \/ req'[s].movies = <<>>
                \/ /\ req[s].kind = "names"
                   /\ req'[s].movies = req[s].movies /\ req'[s].names = req[s].names

LEMMA LessKeeps ==
    ASSUME CInv, TypeOK', \A s \in Requests : Settled(s),
           movies' \subseteq movies, categories' \subseteq categories,
           nominees' \subseteq nominees, issued' = issued, NomineesStand',
           Linked = {} \/ (movies' = movies /\ categories' = categories)
    PROVE  CInv'
  <1>1. KeysUnique'
    BY DEF CInv, KeysUnique
  <1>2. CommittedIssued'
    BY DEF CInv, CommittedIssued
  <1>3. \A s \in Requests : Holds(s)'
    BY OthersHold DEF CInv, Settled
  <1>4. ASSUME NEW s \in Requests PROVE Prepared(s)' /\ InListOrder(s)' /\ Given(s)'
    <2>1. CASE req'[s] = req[s]
      BY <2>1 DEF CInv, Prepared, InListOrder, Given, At, InTransaction
    <2>2. CASE req'[s] # req[s]
      <3>1. /\ req'[s].rows = <<>>
            /\ req'[s].pc \in {"name", "link"} => Empty \notin ToSet(req'[s].names)
        BY <2>2 DEF Settled
      <3>2. Prepared(s)'
        BY <3>1 DEF Prepared, At, InTransaction
      <3>3. InListOrder(s)'
        <4>1. req'[s].names \in Lists
          BY DEF TypeOK, Request
        <4>2. Len(req'[s].names) \in Nat
          BY <4>1 DEF Lists
        <4> QED
          BY <3>1, <4>2 DEF InListOrder
      <3>4. Given(s)'
        BY <2>2, EmptySet DEF Settled, CInv, Given
      <3> QED
        BY <3>2, <3>3, <3>4
    <2> QED
      BY <2>1, <2>2
  <1>5. NamesMatchTitles'
    <2> SUFFICES ASSUME NEW s \in Requests, req'[s].kind = "names", NEW k \in 1..Len(req'[s].movies),
                        NEW m \in movies', m.id = req'[s].movies[k]
                 PROVE  m.name = req'[s].names[k]
      BY DEF NamesMatchTitles
    <2>1. /\ req[s].kind = "names"
          /\ req'[s].movies = req[s].movies /\ req'[s].names = req[s].names
      BY DEF Settled
    <2> QED
      BY <2>1 DEF CInv, NamesMatchTitles
  <1> QED
    BY <1>1, <1>2, <1>3, <1>4, <1>5 DEF CInv

LEMMA OneSettles ==
    ASSUME CInv, NEW r \in Requests, NEW q \in Request, req' = [req EXCEPT ![r] = q],
           Settled(r), UNCHANGED tables
    PROVE  CInv'
  <1>1. req' \in [Requests -> Request] /\ \A s \in Requests \ {r} : req'[s] = req[s]
    BY DEF CInv, TypeOK
  <1>2. TypeOK'
    BY <1>1 DEF CInv, TypeOK, tables
  <1>3. \A s \in Requests : Settled(s)
    BY <1>1 DEF Settled
  <1>4. NomineesStand'
    BY DEF CInv, NomineesStand, tables
  <1> QED
    BY <1>2, <1>3, <1>4, LessKeeps DEF tables

(* Request, with names for its sets that keep obligations small. *)

Pcs == {"idle", "check", "category", "name", "link", "answered"}
Statuses == {0, 201, 400, 403, 500}

LEMMA RequestIs ==
    Request = [pc : Pcs, kind : Kinds, csrf : BOOLEAN, category : Ids \cup {None},
               names : Lists, movies : Seq(Ids \cup {None}), rows : Seq(Named \cup Nominee),
               status : Statuses]
  BY DEF Request, Pcs, Statuses

Answered(q, status) == [q EXCEPT !.pc = "answered", !.rows = <<>>, !.status = status]

LEMMA AnsweredRequest ==
    ASSUME NEW q \in Request, NEW status \in Statuses
    PROVE  /\ Answered(q, status) \in Request
           /\ Answered(q, status).pc = "answered" /\ Answered(q, status).rows = <<>>
           /\ Answered(q, status).kind = q.kind /\ Answered(q, status).movies = q.movies
           /\ Answered(q, status).names = q.names
  <1>1. <<>> \in Seq(Named \cup Nominee)
    OBVIOUS
  <1>2. Answered(q, status) \in Request
    BY <1>1, RequestIs DEF Answered, Pcs
  <1> QED
    BY <1>2, RequestIs DEF Answered

Refusals == {400, 403, 500}

LEMMA FailKeeps == ASSUME CInv, NEW r \in Requests, NEW status \in Refusals,
                          Fail(r, status), UNCHANGED tables
                   PROVE  CInv'
  <1> DEFINE q == Answered(req[r], status)
  <1>1. req' = [req EXCEPT ![r] = q] /\ req[r] \in Request
    BY DEF Fail, CInv, TypeOK, Answered
  <1>2. /\ q \in Request /\ q.pc = "answered" /\ q.rows = <<>>
        /\ q.kind = req[r].kind /\ q.movies = req[r].movies /\ q.names = req[r].names
    BY <1>1, AnsweredRequest DEF Refusals, Statuses
  <1>3. req'[r] = q
    BY <1>1 DEF CInv, TypeOK
  <1> HIDE DEF q
  <1>4. Settled(r)
    BY <1>2, <1>3 DEF Settled
  <1> QED
    BY <1>1, <1>2, <1>4, OneSettles

LEMMA GotoKeeps == ASSUME CInv, NEW r \in Requests, NEW pc \in {"category", "name", "link"},
                          Goto(r, pc), UNCHANGED tables, req[r].pc \in {"check", "category"},
                          pc # "category" => Empty \notin ToSet(req[r].names),
                          pc = "link" => req[r].kind # "names"
                   PROVE  CInv'
  <1> DEFINE q == [req[r] EXCEPT !.pc = pc]
  <1>1. req' = [req EXCEPT ![r] = q] /\ req[r] \in Request
    BY DEF Goto, CInv, TypeOK
  <1>2. /\ q \in Request
        /\ q.pc = pc /\ q.rows = req[r].rows
        /\ q.kind = req[r].kind /\ q.movies = req[r].movies /\ q.names = req[r].names
    <2>1. pc \in {"idle", "check", "category", "name", "link", "answered"}
      OBVIOUS
    <2>2. q \in Request
      BY <1>1, <2>1 DEF Request
    <2>3. q.pc = pc
      BY <1>1 DEF Request
    <2>4. q.rows = req[r].rows /\ q.kind = req[r].kind /\ q.movies = req[r].movies
          /\ q.names = req[r].names
      BY <1>1 DEF Request
    <2> QED
      BY <2>2, <2>3, <2>4
  <1>3. req'[r] = q
    BY <1>1 DEF CInv, TypeOK
  <1>4. req[r].rows = <<>> /\ (req[r].kind = "names" => req[r].movies = <<>>)
    BY DEF CInv, Prepared, Given, InTransaction
  <1> HIDE DEF q
  <1>5. Settled(r)
    BY <1>2, <1>3, <1>4 DEF Settled
  <1> QED
    BY <1>1, <1>2, <1>5, OneSettles

LEMMA SendKeeps == ASSUME CInv, NEW r \in Requests, NEW b \in Bodies, Send(r, b)
                   PROVE  CInv'
  <1> DEFINE q == [pc |-> "check", kind |-> b.kind, csrf |-> b.csrf, category |-> b.category,
                   names |-> b.names, movies |-> b.movies, rows |-> <<>>, status |-> 0]
  <1>1. req' = [req EXCEPT ![r] = q] /\ UNCHANGED tables
    BY DEF Send
  <1>2. b \in NamedBody \/ b \in NomineesBody \/ b \in NamesBody
    BY BodiesAssumption DEF Body
  <1>3. /\ b.kind \in Kinds /\ b.csrf \in BOOLEAN /\ b.category \in Ids \cup {None}
        /\ b.names \in Lists /\ b.movies \in Seq(Ids \cup {None})
        /\ b.kind = "names" => b.movies = <<>>
    <2>1. <<>> \in Seq(Ids \cup {None})
      OBVIOUS
    <2>2. CASE b \in NamedBody
      BY <2>1, <2>2 DEF NamedBody, Kinds
    <2>3. CASE b \in NomineesBody
      BY <2>3 DEF NomineesBody, Kinds
    <2>4. CASE b \in NamesBody
      BY <2>1, <2>4 DEF NamesBody, Kinds
    <2> QED
      BY <1>2, <2>2, <2>3, <2>4
  <1>4. q \in Request
    BY <1>3 DEF Request
  <1>5. req'[r] = q
    BY <1>1 DEF CInv, TypeOK
  <1>6. Settled(r)
    BY <1>3, <1>5 DEF Settled
  <1> HIDE DEF q
  <1> QED
    BY <1>1, <1>4, <1>6, OneSettles

LEMMA IdleIsSettled == /\ Idle \in Request /\ Idle.rows = <<>> /\ Idle.pc = "idle"
                       /\ Idle.kind = "movies"
  BY DEF Idle, Blank, Request, Kinds, Lists

LEMMA ReceiveKeeps == ASSUME CInv, NEW r \in Requests, Receive(r)
                      PROVE  CInv'
  <1>1. req' = [req EXCEPT ![r] = Idle] /\ UNCHANGED tables /\ req'[r] = Idle
    BY DEF Receive, CInv, TypeOK
  <1>2. Settled(r)
    BY <1>1, IdleIsSettled DEF Settled
  <1> QED
    BY <1>1, <1>2, IdleIsSettled, OneSettles

LEMMA CrashKeeps == ASSUME CInv, Crash
                    PROVE  CInv'
  <1>1. \A s \in Requests : req'[s] = Idle \/ req'[s] = req[s]
    BY DEF Crash
  <1>2. req' \in [Requests -> Request]
    BY IdleIsSettled DEF Crash, CInv, TypeOK
  <1>3. TypeOK'
    BY <1>2 DEF CInv, TypeOK, Crash, tables
  <1>4. \A s \in Requests : Settled(s)
    BY <1>1, IdleIsSettled DEF Settled
  <1>5. NomineesStand'
    BY DEF CInv, NomineesStand, Crash, tables
  <1> QED
    BY <1>3, <1>4, <1>5, LessKeeps DEF Crash, tables

LEMMA DeletionsKeep ==
    ASSUME CInv, DeleteCategories \/ DeleteMovies \/ \E c \in categories : DeleteNominees(c.id)
    PROVE  CInv'
  <1>1. /\ movies' \subseteq movies /\ categories' \subseteq categories
        /\ nominees' \subseteq nominees /\ issued' = issued /\ req' = req
        /\ Linked = {} \/ (movies' = movies /\ categories' = categories)
        /\ nominees' = {} \/ (movies' = movies /\ categories' = categories)
    BY DEF DeleteCategories, DeleteMovies, DeleteNominees
  <1>2. TypeOK'
    BY <1>1 DEF CInv, TypeOK
  <1>3. \A s \in Requests : Settled(s)
    BY <1>1 DEF Settled
  <1>4. NomineesStand'
    BY <1>1 DEF CInv, NomineesStand
  <1> QED
    BY <1>1, <1>2, <1>3, <1>4, LessKeeps

-----------------------------------------------------------------------------
(* Checks *)

LEMMA CheckKeeps == ASSUME CInv, NEW r \in Requests, Check(r)
                    PROVE  CInv'
  <1>1. UNCHANGED tables /\ req[r].pc = "check"
    BY DEF Check, At
  <1>2. \/ Fail(r, 403) \/ Fail(r, 400) \/ Goto(r, "category")
        \/ ~HasEmpty(r) /\ Goto(r, "link") /\ req[r].kind = "nominees"
        \/ ~HasEmpty(r) /\ Goto(r, "name")
    BY DEF Check
  <1>3. CASE Fail(r, 403) \/ Fail(r, 400)
    BY <1>1, <1>3, FailKeeps DEF Refusals
  <1>4. CASE Goto(r, "category")
    BY <1>1, <1>4, GotoKeeps
  <1>5. CASE ~HasEmpty(r) /\ Goto(r, "link") /\ req[r].kind = "nominees"
    BY <1>1, <1>5, GotoKeeps DEF HasEmpty
  <1>6. CASE ~HasEmpty(r) /\ Goto(r, "name")
    BY <1>1, <1>6, GotoKeeps DEF HasEmpty
  <1> QED
    BY <1>2, <1>3, <1>4, <1>5, <1>6

LEMMA GetCategoryKeeps == ASSUME CInv, NEW r \in Requests, GetCategory(r)
                          PROVE  CInv'
  <1>1. UNCHANGED tables /\ req[r].pc = "category"
    BY DEF GetCategory, At
  <1>2. Fail(r, 400) \/ (~HasEmpty(r) /\ Goto(r, "name"))
    BY DEF GetCategory
  <1>3. CASE Fail(r, 400)
    BY <1>1, <1>3, FailKeeps DEF Refusals
  <1>4. CASE ~HasEmpty(r) /\ Goto(r, "name")
    BY <1>1, <1>4, GotoKeeps DEF HasEmpty
  <1> QED
    BY <1>2, <1>3, <1>4

-----------------------------------------------------------------------------
(* An INSERT *)

LEMMA NextName == ASSUME CInv, NEW r \in Requests, Remaining(r)
                  PROVE  /\ Name(r) \in Names
                         /\ Len(req[r].rows) \in Nat
                         /\ Len(req[r].rows) + 1 \in 1..Len(req[r].names)
  <1>1. req[r].names \in Seq(Names \cup {Empty}) /\ req[r].rows \in Seq(Named \cup Nominee)
    BY DEF CInv, TypeOK, Request, Lists
  <1>2. Len(req[r].rows) \in Nat /\ Len(req[r].names) \in Nat
    BY <1>1
  <1>3. Len(req[r].rows) < Len(req[r].names)
    BY DEF Remaining
  <1>4. Len(req[r].rows) + 1 \in 1..Len(req[r].names)
    BY <1>2, <1>3
  <1>5. Name(r) \in ToSet(req[r].names) /\ Name(r) \in Names \cup {Empty}
    BY <1>1, <1>4, SetOfSeq DEF Name
  <1>6. Empty \notin ToSet(req[r].names)
    BY DEF CInv, Prepared, Remaining
  <1> QED
    BY <1>2, <1>4, <1>5, <1>6

\* The row that is inserted, and what the constraints, the locks and the choice of
\* its id let one know of it.
Insertable(r, e) ==
    /\ e.name = Name(r)
    /\ \A row \in Rows(Table(r)) \cup Open(r) : ~Clash(Table(r), row, e)
    /\ \A s \in Requests \ {r} : Table(s) = Table(r) => \A x \in Open(s) : ~Clash(Table(r), x, e)
    /\ At(r, "link") => e \in Nominee /\ HasParents(e)
    /\ At(r, "name") => /\ e \in Named /\ e.id \notin issued
                        /\ \A s \in Requests : At(s, "name") => \A x \in Open(s) : x.id # e.id

LEMMA InsertRowIs ==
    ASSUME CInv, NEW r \in Requests, InsertRow(r)
    PROVE  \E e : Insertable(r, e) /\ req' = [req EXCEPT ![r].rows = Append(@, e)]
  <1>1. \/ At(r, "link") /\ ParentsExist(r) /\ req' = [req EXCEPT ![r].rows = Append(@, Link(r))]
        \/ At(r, "name") /\ \E id \in FreshIds :
              req' = [req EXCEPT ![r].rows = Append(@, [id |-> id, name |-> Name(r)])]
    BY DEF InsertRow
  <1>2. \A row \in Rows(Table(r)) \cup Open(r) : ~SameKey(r, row)
    BY DEF InsertRow, Taken, Open
  <1>3. ASSUME NEW s \in Requests \ {r}, Table(s) = Table(r) PROVE \A x \in Open(s) : ~SameKey(r, x)
    <2>1. CASE InTransaction(s)
      BY <1>3, <2>1 DEF InsertRow, WaitsFor, Open
    <2>2. CASE ~InTransaction(s)
      BY <2>2, EmptySet DEF CInv, Prepared, Open
    <2> QED
      BY <2>1, <2>2
  <1>4. Name(r) \in Names
    BY NextName DEF InsertRow
  <1>5. CASE At(r, "link") /\ ParentsExist(r) /\ req' = [req EXCEPT ![r].rows = Append(@, Link(r))]
    <2> DEFINE e == Link(r)
    <2>1. e.name = Name(r) /\ HasParents(e)
      BY <1>5 DEF Link, ParentsExist, HasParents
    <2>2. \A row : SameKey(r, row) <=> Clash(Table(r), row, e)
      BY <1>5 DEF SameKey, Clash, Table
    <2>3. e.movie \in Ids /\ e.category \in Ids
      BY <2>1 DEF HasParents, CInv, TypeOK, Named
    <2>4. e \in Nominee
      BY <1>4, <2>3 DEF Nominee, Link
    <2>5. ~At(r, "name")
      BY <1>5 DEF At
    <2> HIDE DEF e
    <2>6. Insertable(r, e)
      BY <1>2, <1>3, <2>1, <2>2, <2>4, <2>5 DEF Insertable
    <2> QED
      BY <1>5, <2>6 DEF e
  <1>6. ASSUME At(r, "name"), NEW id \in FreshIds,
               req' = [req EXCEPT ![r].rows = Append(@, [id |-> id, name |-> Name(r)])]
        PROVE  \E e : Insertable(r, e) /\ req' = [req EXCEPT ![r].rows = Append(@, e)]
    <2> DEFINE e == [id |-> id, name |-> Name(r)]
    <2>1. e.name = Name(r) /\ e.id = id
      OBVIOUS
    <2>2. \A row : SameKey(r, row) <=> Clash(Table(r), row, e)
      BY <1>6, <2>1 DEF SameKey, Clash, Table, At
    <2>3. id \in Ids /\ id \notin issued
      BY DEF FreshIds
    <2>4. \A s \in Requests : At(s, "name") => \A x \in Open(s) : x.id # id
      BY DEF FreshIds, Open
    <2>5. e \in Named
      BY <1>4, <2>3 DEF Named
    <2>6. ~At(r, "link")
      BY <1>6 DEF At
    <2> HIDE DEF e
    <2>7. Insertable(r, e)
      BY <1>2, <1>3, <2>1, <2>2, <2>3, <2>4, <2>5, <2>6 DEF Insertable
    <2> QED
      BY <1>6, <2>7 DEF e
  <1> QED
    BY <1>1, <1>5, <1>6

\* The request after the INSERT.
Longer(q, e) == [q EXCEPT !.rows = Append(q.rows, e)]

LEMMA LongerRequest ==
    ASSUME NEW q \in Request, NEW e \in Named \cup Nominee
    PROVE  /\ Longer(q, e) \in Request
           /\ Longer(q, e).rows = Append(q.rows, e) /\ Longer(q, e).pc = q.pc
           /\ Longer(q, e).kind = q.kind /\ Longer(q, e).movies = q.movies
           /\ Longer(q, e).names = q.names
  <1>1. Append(q.rows, e) \in Seq(Named \cup Nominee)
    BY RequestIs
  <1>2. Longer(q, e) \in Request
    BY <1>1, RequestIs DEF Longer
  <1> QED
    BY <1>1, RequestIs DEF Longer

LEMMA InsertKeeps ==
    ASSUME CInv, NEW r \in Requests, NEW e, Insertable(r, e), Remaining(r),
           req' = [req EXCEPT ![r].rows = Append(@, e)], UNCHANGED tables
    PROVE  CInv'
  <1> DEFINE q == Longer(req[r], e)
             n == Len(req[r].rows)
  <1>1. At(r, "name") \/ At(r, "link")
    BY DEF Remaining, InTransaction, At
  <1>2. e \in Named \cup Nominee
    BY <1>1 DEF Insertable
  <1>3. req' = [req EXCEPT ![r] = q] /\ req[r] \in Request
    BY DEF Longer, CInv, TypeOK
  <1>4. /\ q \in Request /\ q.rows = Append(req[r].rows, e)
        /\ q.pc = req[r].pc /\ q.kind = req[r].kind /\ q.movies = req[r].movies
        /\ q.names = req[r].names
    BY <1>2, <1>3, LongerRequest
  <1>5. req'[r] = q /\ \A s \in Requests \ {r} : req'[s] = req[s]
    BY <1>3 DEF CInv, TypeOK
  <1> HIDE DEF q
  <1>6. TypeOK'
    BY <1>3, <1>4 DEF CInv, TypeOK, tables
  <1>7. /\ req'[r].rows \in Seq(Named \cup Nominee) /\ Len(req'[r].rows) = n + 1 /\ n \in Nat
        /\ \A i \in 1..n : req'[r].rows[i] = req[r].rows[i]
        /\ req'[r].rows[n + 1] = e
        /\ Open(r)' = Open(r) \cup {e}
        /\ \A i \in 1..n : req[r].rows[i] \in Open(r)
    <2>1. req[r].rows \in Seq(Named \cup Nominee)
      BY <1>3 DEF Request
    <2>2. n \in Nat
      BY <2>1
    <2> QED
      BY <1>2, <1>4, <1>5, <2>1, <2>2, AppendSet, SetOfSeq DEF Open
  <1>8. \A s \in Requests : /\ Table(s)' = Table(s) /\ (At(s, "name")' <=> At(s, "name"))
                            /\ (At(s, "link")' <=> At(s, "link"))
                            /\ (InTransaction(s)' <=> InTransaction(s))
    BY <1>4, <1>5 DEF Table, At, InTransaction
  <1>9. \A s \in Requests \ {r} : Open(s)' = Open(s)
    BY <1>5 DEF Open
  <1>10. Prepared(r)'
    <2>1. At(r, "name") => req'[r].rows \in Seq(Named)
      BY <1>4, <1>5, AppendSet DEF CInv, Prepared, Insertable
    <2>2. At(r, "link") => req'[r].rows \in Seq(Nominee)
      BY <1>4, <1>5, AppendSet DEF CInv, Prepared, Insertable
    <2>3. InTransaction(r) /\ Empty \notin ToSet(req'[r].names)
      BY <1>4, <1>5 DEF CInv, Prepared, Remaining
    <2> QED
      BY <1>8, <2>1, <2>2, <2>3 DEF Prepared
  <1>11. InListOrder(r)'
    <2>1. n + 1 \in 1..Len(req[r].names) /\ Name(r) = req[r].names[n + 1]
      BY NextName DEF Name
    <2>2. ASSUME NEW k \in 1..(n + 1) PROVE req'[r].rows[k].name = req'[r].names[k]
      <3>1. CASE k = n + 1
        BY <1>4, <1>5, <1>7, <2>1, <3>1 DEF Insertable
      <3>2. CASE k # n + 1
        <4>1. k \in 1..n
          BY <1>7, <3>2
        <4> QED
          BY <1>4, <1>5, <1>7, <4>1 DEF CInv, InListOrder
      <3> QED
        BY <3>1, <3>2
    <2>3. Len(req'[r].rows) <= Len(req'[r].names)
      BY <1>4, <1>5, <1>7, <2>1
    <2> QED
      BY <1>7, <2>2, <2>3 DEF InListOrder
  <1>12. \A x \in Open(r) : /\ ~Clash(Table(r), x, e) /\ ~Clash(Table(r), e, x)
                            /\ At(r, "name") => x.id # e.id
    BY DEF Insertable, Clash
  <1>13. Distinct(r)'
    <2> SUFFICES ASSUME NEW i \in 1..(n + 1), NEW j \in 1..(n + 1), i # j
                 PROVE  /\ ~Clash(Table(r), req'[r].rows[i], req'[r].rows[j])
                        /\ At(r, "name") => req'[r].rows[i].id # req'[r].rows[j].id
      BY <1>7, <1>8 DEF Distinct
    <2>1. CASE i # n + 1 /\ j # n + 1
      <3>1. i \in 1..n /\ j \in 1..n
        BY <1>7, <2>1
      <3> QED
        BY <1>7, <3>1 DEF CInv, Holds, Distinct
    <2>2. CASE i = n + 1
      <3>1. j \in 1..n
        BY <1>7, <2>2
      <3>2. req'[r].rows[j] \in Open(r) /\ req'[r].rows[i] = e
        BY <1>7, <2>2, <3>1
      <3> QED
        BY <1>12, <3>2
    <2>3. CASE j = n + 1
      <3>1. i \in 1..n
        BY <1>7, <2>3
      <3>2. req'[r].rows[i] \in Open(r) /\ req'[r].rows[j] = e
        BY <1>7, <2>3, <3>1
      <3> QED
        BY <1>12, <3>2
    <2> QED
      BY <2>1, <2>2, <2>3
  <1>14. \A s \in Requests : Rows(Table(s))' = Rows(Table(s)) /\ issued' = issued
    BY <1>8 DEF Rows, tables
  <1>15. Fresh(r)'
    <2>1. \A y \in Rows(Table(r)) : ~Clash(Table(r), e, y)
      BY DEF Insertable, Clash
    <2>2. At(r, "name") => e.id \notin issued
      BY DEF Insertable
    <2>3. Fresh(r)
      BY DEF CInv, Holds
    <2> QED
      BY <1>7, <1>8, <1>14, <2>1, <2>2, <2>3 DEF Fresh
  <1>16. Linkable(r)'
    <2>1. At(r, "link") => HasParents(e)
      BY DEF Insertable
    <2>2. Linkable(r)
      BY DEF CInv, Holds
    <2>3. \A x : HasParents(x)' <=> HasParents(x)
      BY DEF HasParents, tables
    <2> QED
      BY <1>7, <1>8, <2>1, <2>2, <2>3 DEF Linkable
  <1>17. ASSUME NEW s \in Requests \ {r} PROVE Apart(r, s)' /\ Apart(s, r)'
    <2>1. Apart(r, s) /\ Apart(s, r)
      BY DEF CInv, Holds
    <2>2. Table(s) = Table(r) => \A x \in Open(s) : ~Clash(Table(r), x, e) /\ ~Clash(Table(r), e, x)
      BY DEF Insertable, Clash
    <2>3. At(r, "name") /\ At(s, "name") => \A x \in Open(s) : x.id # e.id
      BY DEF Insertable
    <2>4. /\ Open(r)' = Open(r) \cup {e} /\ Open(s)' = Open(s)
          /\ Table(r)' = Table(r) /\ Table(s)' = Table(s)
          /\ (At(r, "name")' <=> At(r, "name")) /\ (At(s, "name")' <=> At(s, "name"))
      BY <1>7, <1>8, <1>9
    <2> QED
      BY <2>1, <2>2, <2>3, <2>4 DEF Apart
  <1>18. ASSUME NEW s \in Requests \ {r}
         PROVE  /\ Prepared(s)' /\ InListOrder(s)' /\ Given(s)'
                /\ Distinct(s)' /\ Fresh(s)' /\ Linkable(s)'
    <2>1. req'[s] = req[s] /\ UNCHANGED <<movies, categories, nominees, issued>>
      BY <1>5 DEF tables
    <2>2. Prepared(s)' /\ InListOrder(s)' /\ Given(s)'
      BY <2>1 DEF CInv, Prepared, InListOrder, Given, At, InTransaction
    <2>3. Distinct(s)'
      BY <1>8, <2>1 DEF CInv, Holds, Distinct
    <2>4. Fresh(s)'
      BY <1>8, <1>9, <1>14, <2>1 DEF CInv, Holds, Fresh
    <2>5. Linkable(s)'
      BY <1>8, <1>9, <2>1 DEF CInv, Holds, Linkable, HasParents
    <2> QED
      BY <2>2, <2>3, <2>4, <2>5
  <1>19. ASSUME NEW s \in Requests \ {r}, NEW t \in Requests \ {r, s} PROVE Apart(s, t)'
    <2>1. Apart(s, t)
      BY DEF CInv, Holds
    <2> QED
      BY <1>8, <1>9, <2>1 DEF Apart
  <1>20. Given(r)'
    BY <1>4, <1>5 DEF CInv, Given, tables
  <1>21. \A s \in Requests : Prepared(s)' /\ InListOrder(s)' /\ Given(s)' /\ Holds(s)'
    BY <1>10, <1>11, <1>13, <1>15, <1>16, <1>17, <1>18, <1>19, <1>20 DEF Holds
  <1>22. NamesMatchTitles'
    BY <1>4, <1>5 DEF CInv, NamesMatchTitles, tables
  <1>23. KeysUnique' /\ NomineesStand' /\ CommittedIssued'
    BY DEF CInv, KeysUnique, NomineesStand, CommittedIssued, tables
  <1> QED
    BY <1>6, <1>21, <1>22, <1>23 DEF CInv

-----------------------------------------------------------------------------
(* A commit *)

LEMMA OpenPairs == ASSUME CInv, NEW r \in Requests, NEW x \in Open(r), NEW y \in Open(r),
                          Clash(Table(r), x, y) \/ (At(r, "name") /\ x.id = y.id)
                   PROVE  x = y
  <1>1. req[r].rows \in Seq(Named \cup Nominee)
    BY DEF CInv, TypeOK, Request
  <1>2. PICK i \in 1..Len(req[r].rows) : x = req[r].rows[i]
    BY <1>1, SetOfSeq DEF Open
  <1>3. PICK j \in 1..Len(req[r].rows) : y = req[r].rows[j]
    BY <1>1, SetOfSeq DEF Open
  <1>4. i = j
    BY <1>2, <1>3 DEF CInv, Holds, Distinct
  <1> QED
    BY <1>2, <1>3, <1>4

\* What a commit does to the tables.
Stored(r) ==
    \/ /\ Table(r) = "movies" /\ At(r, "name") /\ ~At(r, "link") /\ Open(r) \subseteq Named
       /\ movies' = movies \cup Open(r) /\ UNCHANGED <<categories, nominees>>
       /\ issued' = issued \cup {x.id : x \in Open(r)}
    \/ /\ Table(r) = "categories" /\ At(r, "name") /\ ~At(r, "link") /\ Open(r) \subseteq Named
       /\ categories' = categories \cup Open(r) /\ UNCHANGED <<movies, nominees>>
       /\ issued' = issued \cup {x.id : x \in Open(r)}
    \/ /\ Table(r) = "nominees" /\ At(r, "link") /\ ~At(r, "name") /\ Open(r) \subseteq Nominee
       /\ nominees' = nominees \cup Open(r) /\ UNCHANGED <<movies, categories, issued>>

LEMMA StoreIs == ASSUME CInv, NEW r \in Requests, InTransaction(r), Store(r)
                 PROVE  Stored(r)
  <1>1. Publish(r) = Open(r)
    BY DEF Publish, Open
  <1>2. CASE At(r, "link")
    <2>1. Table(r) = "nominees" /\ ~At(r, "name")
      BY <1>2 DEF Table, At
    <2>2. Open(r) \subseteq Nominee
      BY <1>2, SetOfSeq DEF CInv, Prepared, Open
    <2> QED
      BY <1>1, <1>2, <2>1, <2>2 DEF Store, Stored
  <1>3. CASE At(r, "name")
    <2>1. Table(r) \in {"movies", "categories"} /\ ~At(r, "link")
      BY <1>3 DEF Table, At
    <2>2. Open(r) \subseteq Named
      BY <1>3, SetOfSeq DEF CInv, Prepared, Open
    <2> QED
      BY <1>1, <1>3, <2>1, <2>2 DEF Store, Stored
  <1> QED
    BY <1>2, <1>3 DEF InTransaction, At

LEMMA StoredTypes == ASSUME CInv, NEW r \in Requests, Stored(r)
                     PROVE  /\ movies' \subseteq Named /\ categories' \subseteq Named
                            /\ nominees' \subseteq Nominee /\ issued' \subseteq Ids
                            /\ movies \subseteq movies' /\ categories \subseteq categories'
                            /\ issued \subseteq issued'
  BY DEF CInv, TypeOK, Stored, Named

\* A table with the rows of the transaction.
LEMMA StillUnique ==
    ASSUME CInv, NEW r \in Requests, At(r, "name"), ~At(r, "link"),
           NEW T, T = Rows(Table(r)), \A x \in T : x.id \in issued,
           \A x, y \in T : x.name = y.name \/ x.id = y.id => x = y
    PROVE  \A x, y \in T \cup Open(r) : x.name = y.name \/ x.id = y.id => x = y
  <1>1. \A x, y : Clash(Table(r), x, y) <=> x.name = y.name
    BY DEF Clash, Table
  <1>2. ASSUME NEW x \in T, NEW y \in Open(r) PROVE x.name # y.name /\ x.id # y.id
    BY <1>1, <1>2 DEF CInv, Holds, Fresh
  <1>3. ASSUME NEW x \in Open(r), NEW y \in Open(r), x.name = y.name \/ x.id = y.id PROVE x = y
    BY <1>1, <1>3, OpenPairs
  <1> QED
    BY <1>2, <1>3

LEMMA StoredKeys == ASSUME CInv, NEW r \in Requests, Stored(r)
                    PROVE  KeysUnique' /\ CommittedIssued'
  <1>1. CASE Table(r) = "movies" /\ At(r, "name")
    <2>1. Rows(Table(r)) = movies /\ movies' = movies \cup Open(r) /\ categories' = categories
          /\ issued' = issued \cup {x.id : x \in Open(r)} /\ ~At(r, "link")
      BY <1>1 DEF Rows, Stored
    <2>2. \A x, y \in movies \cup Open(r) : x.name = y.name \/ x.id = y.id => x = y
      BY <1>1, <2>1, StillUnique DEF CInv, KeysUnique, CommittedIssued
    <2> QED
      BY <2>1, <2>2 DEF CInv, KeysUnique, CommittedIssued
  <1>2. CASE Table(r) = "categories" /\ At(r, "name")
    <2>1. Rows(Table(r)) = categories /\ categories' = categories \cup Open(r) /\ movies' = movies
          /\ issued' = issued \cup {x.id : x \in Open(r)} /\ ~At(r, "link")
      BY <1>2 DEF Rows, Stored
    <2>2. \A x, y \in categories \cup Open(r) : x.name = y.name \/ x.id = y.id => x = y
      BY <1>2, <2>1, StillUnique DEF CInv, KeysUnique, CommittedIssued
    <2> QED
      BY <2>1, <2>2 DEF CInv, KeysUnique, CommittedIssued
  <1>3. CASE Table(r) = "nominees"
    <2>1. UNCHANGED <<movies, categories, issued>>
      BY <1>3 DEF Stored
    <2> QED
      BY <2>1 DEF CInv, KeysUnique, CommittedIssued
  <1> QED
    BY <1>1, <1>2, <1>3 DEF Stored

LEMMA StoredStand == ASSUME CInv, NEW r \in Requests, Stored(r)
                     PROVE  NomineesStand'
  <1>1. movies \subseteq movies' /\ categories \subseteq categories'
    BY StoredTypes
  <1>2. \A n \in nominees' : HasParents(n)
    <2>1. \A n \in nominees : HasParents(n)
      BY DEF CInv, NomineesStand, HasParents
    <2>2. At(r, "link") => \A n \in Open(r) : HasParents(n)
      BY DEF CInv, Holds, Linkable
    <2> QED
      BY <2>1, <2>2 DEF Stored
  <1> QED
    BY <1>1, <1>2 DEF HasParents, NomineesStand

\* What the committed rows leave of the other transactions.
LEMMA StoredOthers ==
    ASSUME CInv, NEW r \in Requests, Stored(r), NEW s \in Requests \ {r}, req'[s] = req[s]
    PROVE  Prepared(s)' /\ InListOrder(s)' /\ Given(s)' /\ Distinct(s)' /\ Fresh(s)' /\ Linkable(s)'
  <1>1. /\ Open(s)' = Open(s) /\ Table(s)' = Table(s)
        /\ (At(s, "name")' <=> At(s, "name")) /\ (At(s, "link")' <=> At(s, "link"))
        /\ (InTransaction(s)' <=> InTransaction(s))
    BY DEF Open, Table, At, InTransaction
  <1>2. Prepared(s)' /\ InListOrder(s)' /\ Distinct(s)'
    BY <1>1 DEF CInv, Holds, Prepared, InListOrder, Distinct
  <1>3. issued \subseteq issued' /\ movies \subseteq movies' /\ categories \subseteq categories'
    BY StoredTypes
  <1>4. Given(s)'
    BY <1>3 DEF CInv, Given
  <1>5. Linkable(s)'
    BY <1>1, <1>3 DEF CInv, Holds, Linkable, HasParents
  <1>6. Apart(s, r) /\ Fresh(s)
    BY DEF CInv, Holds
  <1>7. ASSUME NEW y \in Rows(Table(s))' PROVE y \in Rows(Table(s)) \/ (Table(r) = Table(s) /\ y \in Open(r))
    BY <1>1, <1>7 DEF Stored, Rows, Table
  <1>8. ASSUME NEW x \in Open(s), NEW y \in Rows(Table(s))' PROVE ~Clash(Table(s), x, y)
    BY <1>6, <1>7 DEF Apart, Fresh
  <1>9. ASSUME NEW x \in Open(s), At(s, "name") PROVE x.id \notin issued'
    <2>1. x.id \notin issued
      BY <1>6, <1>9 DEF Fresh
    <2>2. At(r, "name") => \A y \in Open(r) : x.id # y.id
      BY <1>6, <1>9 DEF Apart
    <2> QED
      BY <2>1, <2>2 DEF Stored
  <1>10. Fresh(s)'
    BY <1>1, <1>8, <1>9 DEF Fresh
  <1> QED
    BY <1>2, <1>4, <1>5, <1>10

\* The ids that InsertMany returns belong, in order, to the names of the list.
LEMMA ReturnedMatch ==
    ASSUME CInv, NEW r \in Requests, Stored(r), At(r, "name"), ~Remaining(r)
    PROVE  /\ Returned(r) \in Seq(Ids) /\ ToSet(Returned(r)) \subseteq issued'
           /\ \A k \in 1..Len(Returned(r)) : \A m \in movies' :
                 m.id = Returned(r)[k] => m.name = req[r].names[k]
  <1> DEFINE n == Len(req[r].rows)
  <1>1. req[r].rows \in Seq(Named) /\ n \in Nat
    BY DEF CInv, Prepared
  <1>2. \A k \in 1..n : req[r].rows[k] \in Open(r) /\ req[r].rows[k].id \in Ids
    <2> TAKE k \in 1..n
    <2>1. req[r].rows[k] \in Open(r)
      BY <1>1, SetOfSeq DEF Open
    <2>2. req[r].rows[k] \in Named
      BY <1>1
    <2> QED
      BY <2>1, <2>2 DEF Named
  <1>3. Returned(r) = [k \in 1..n |-> req[r].rows[k].id]
    BY DEF Returned
  <1> HIDE DEF n
  <1>4. Returned(r) \in Seq(Ids) /\ Len(Returned(r)) = n
    BY <1>1, <1>2, <1>3
  <1>5. \A x \in Open(r) : x.id \in issued'
    BY DEF Stored
  <1>6. ToSet(Returned(r)) \subseteq issued'
    BY <1>2, <1>3, <1>5 DEF ToSet
  <1>7. ASSUME NEW k \in 1..n, NEW m \in movies', m.id = Returned(r)[k]
        PROVE  m.name = req[r].names[k]
    <2>1. m.id = req[r].rows[k].id /\ req[r].rows[k] \in Open(r)
      BY <1>2, <1>3, <1>7
    <2>2. m.id \notin issued
      BY <2>1 DEF CInv, Holds, Fresh
    <2>3. m \notin movies
      BY <2>2 DEF CInv, CommittedIssued
    <2>4. m \in Open(r)
      BY <2>3 DEF Stored
    <2>5. m = req[r].rows[k]
      BY <2>1, <2>4, OpenPairs
    <2> QED
      BY <2>5 DEF CInv, InListOrder, n
  <1> QED
    BY <1>4, <1>6, <1>7

\* Ids that a request was given before the commit are not those of its rows.
LEMMA MatchStays ==
    ASSUME CInv, NEW r \in Requests, Stored(r), NEW s \in Requests, req[s].kind = "names",
           NEW k \in 1..Len(req[s].movies), NEW m \in movies', m.id = req[s].movies[k]
    PROVE  m.name = req[s].names[k]
  <1>1. m.id \in issued
    <2>1. req[s].movies \in Seq(Ids \cup {None})
      BY DEF CInv, TypeOK, Request
    <2>2. req[s].movies[k] \in ToSet(req[s].movies)
      BY <2>1, SetOfSeq
    <2> QED
      BY <2>2 DEF CInv, Given
  <1>2. At(r, "name") => \A x \in Open(r) : x.id \notin issued
    BY DEF CInv, Holds, Fresh
  <1>3. m \in movies
    BY <1>1, <1>2 DEF Stored
  <1> QED
    BY <1>3 DEF CInv, NamesMatchTitles

LEMMA CommitKeeps ==
    ASSUME CInv, NEW r \in Requests, InTransaction(r), ~Remaining(r), Stored(r),
           NEW q \in Request, req' = [req EXCEPT ![r] = q],
           q.rows = <<>>, q.kind = req[r].kind, q.names = req[r].names,
           \/ q.pc = "answered" /\ q.movies = req[r].movies
           \/ q.pc = "link" /\ q.movies = Returned(r) /\ At(r, "name")
    PROVE  CInv'
  <1>1. req'[r] = q /\ \A s \in Requests \ {r} : req'[s] = req[s]
    BY DEF CInv, TypeOK
  <1>2. TypeOK'
    <2>1. req' \in [Requests -> Request]
      BY DEF CInv, TypeOK
    <2> QED
      BY <2>1, StoredTypes DEF TypeOK
  <1>3. Open(r)' = {}
    BY <1>1, EmptySet DEF Open
  <1>4. Prepared(r)'
    <2>1. <<>> \in Seq(Named) /\ <<>> \in Seq(Nominee)
      OBVIOUS
    <2>2. Empty \notin ToSet(q.names)
      BY DEF CInv, Prepared
    <2> QED
      BY <1>1, <2>1, <2>2 DEF Prepared
  <1>5. InListOrder(r)'
    <2>1. q.names \in Seq(Names \cup {Empty})
      BY DEF Request, Lists
    <2>2. Len(q.names) \in Nat
      BY <2>1
    <2> QED
      BY <1>1, <2>2 DEF InListOrder
  <1>6. Given(r)'
    <2>1. CASE q.pc = "answered" /\ q.movies = req[r].movies
      BY <1>1, <2>1, StoredTypes DEF CInv, Given
    <2>2. CASE q.pc = "link" /\ q.movies = Returned(r) /\ At(r, "name")
      BY <1>1, <2>2, ReturnedMatch DEF Given
    <2> QED
      BY <2>1, <2>2
  <1>7. Distinct(r)' /\ Fresh(r)' /\ Linkable(r)'
    BY <1>1, <1>3 DEF Distinct, Fresh, Linkable
  <1>8. \A s \in Requests : Apart(r, s)' /\ Apart(s, r)'
    BY <1>3 DEF Apart
  <1>9. ASSUME NEW s \in Requests \ {r}, NEW t \in Requests \ {r, s} PROVE Apart(s, t)'
    <2>1. Apart(s, t)
      BY DEF CInv, Holds
    <2> QED
      BY <1>1, <2>1 DEF Apart, Open, Table, At
  <1>10. \A s \in Requests \ {r} :
            Prepared(s)' /\ InListOrder(s)' /\ Given(s)' /\ Distinct(s)' /\ Fresh(s)' /\ Linkable(s)'
    BY <1>1, StoredOthers
  <1>11. \A s \in Requests : Prepared(s)' /\ InListOrder(s)' /\ Given(s)' /\ Holds(s)'
    BY <1>4, <1>5, <1>6, <1>7, <1>8, <1>9, <1>10 DEF Holds
  <1>12. NamesMatchTitles'
    <2> SUFFICES ASSUME NEW s \in Requests, req'[s].kind = "names", NEW k \in 1..Len(req'[s].movies),
                        NEW m \in movies', m.id = req'[s].movies[k]
                 PROVE  m.name = req'[s].names[k]
      BY DEF NamesMatchTitles
    <2>1. CASE s # r \/ q.movies = req[r].movies
      <3>1. req'[s].kind = req[s].kind /\ req'[s].movies = req[s].movies /\ req'[s].names = req[s].names
        BY <1>1, <2>1
      <3> QED
        BY <3>1, MatchStays
    <2>2. CASE s = r /\ q.movies = Returned(r) /\ At(r, "name")
      BY <1>1, <2>2, ReturnedMatch
    <2> QED
      BY <2>1, <2>2
  <1>13. KeysUnique' /\ CommittedIssued' /\ NomineesStand'
    BY StoredKeys, StoredStand
  <1> QED
    BY <1>2, <1>11, <1>12, <1>13 DEF CInv

Linking(q, ms) == [q EXCEPT !.pc = "link", !.movies = ms, !.rows = <<>>]

LEMMA LinkingRequest ==
    ASSUME NEW q \in Request, NEW ms \in Seq(Ids \cup {None})
    PROVE  /\ Linking(q, ms) \in Request
           /\ Linking(q, ms).pc = "link" /\ Linking(q, ms).movies = ms
           /\ Linking(q, ms).rows = <<>> /\ Linking(q, ms).kind = q.kind
           /\ Linking(q, ms).names = q.names
  <1>1. <<>> \in Seq(Named \cup Nominee)
    OBVIOUS
  <1>2. Linking(q, ms) \in Request
    BY <1>1, RequestIs DEF Linking, Pcs
  <1> QED
    BY <1>2, RequestIs DEF Linking

\* The commit of a step, if it is one, is that of a complete list.
Committing(r) == InTransaction(r) /\ ~Remaining(r) /\ Stored(r)

LEMMA CommitIs == ASSUME CInv, NEW r \in Requests, Commit(r)
                  PROVE  CInv' /\ Committing(r)
  <1>1. Committing(r)
    BY StoreIs DEF Commit, Committing
  <1>2. req[r] \in Request
    BY DEF CInv, TypeOK
  <1>3. CASE req[r].kind = "names" /\ req[r].pc = "name"
    <2> DEFINE q == Linking(req[r], Returned(r))
    <2>1. req' = [req EXCEPT ![r] = q] /\ At(r, "name")
      BY <1>3 DEF Commit, Linking, At
    <2>2. Returned(r) \in Seq(Ids)
      BY <1>1, <2>1, ReturnedMatch DEF Committing
    <2>3. /\ q \in Request /\ q.pc = "link" /\ q.movies = Returned(r) /\ q.rows = <<>>
          /\ q.kind = req[r].kind /\ q.names = req[r].names
      BY <1>2, <2>2, LinkingRequest
    <2> HIDE DEF q
    <2> QED
      BY <1>1, <2>1, <2>3, CommitKeeps DEF Committing
  <1>4. CASE ~(req[r].kind = "names" /\ req[r].pc = "name")
    <2> DEFINE q == Answered(req[r], 201)
    <2>1. req' = [req EXCEPT ![r] = q]
      BY <1>4 DEF Commit, Answered
    <2>2. /\ q \in Request /\ q.pc = "answered" /\ q.movies = req[r].movies /\ q.rows = <<>>
          /\ q.kind = req[r].kind /\ q.names = req[r].names
      BY <1>2, AnsweredRequest DEF Statuses
    <2> HIDE DEF q
    <2> QED
      BY <1>1, <2>1, <2>2, CommitKeeps DEF Committing
  <1> QED
    BY <1>1, <1>3, <1>4

LEMMA DatabaseFailsIs == ASSUME CInv, NEW r \in Requests, DatabaseFails(r)
                         PROVE  CInv' /\ (UNCHANGED tables \/ Committing(r))
  <1>1. CASE Fail(r, 500) /\ UNCHANGED tables
    BY <1>1, FailKeeps DEF Refusals
  <1>2. CASE InTransaction(r) /\ ~Remaining(r) /\ Store(r) /\ Fail(r, 500)
    <2> DEFINE q == Answered(req[r], 500)
    <2>1. req' = [req EXCEPT ![r] = q] /\ req[r] \in Request
      BY <1>2 DEF Fail, Answered, CInv, TypeOK
    <2>2. /\ q \in Request /\ q.pc = "answered" /\ q.movies = req[r].movies /\ q.rows = <<>>
          /\ q.kind = req[r].kind /\ q.names = req[r].names
      BY <2>1, AnsweredRequest DEF Statuses
    <2>3. Committing(r)
      BY <1>2, StoreIs DEF Committing
    <2> HIDE DEF q
    <2> QED
      BY <2>1, <2>2, <2>3, CommitKeeps DEF Committing
  <1> QED
    BY <1>1, <1>2 DEF DatabaseFails

-----------------------------------------------------------------------------
(* Every step *)

\* A step keeps the invariant, and adds rows only by committing a complete list.
LEMMA Step == ASSUME CInv, Next
              PROVE  /\ CInv'
                     /\ \/ movies' \subseteq movies /\ categories' \subseteq categories
                           /\ nominees' \subseteq nominees
                        \/ \E r \in Requests : Committing(r)
  <1>1. ASSUME NEW r \in Requests, Handle(r)
        PROVE  CInv' /\ (UNCHANGED tables \/ Committing(r))
    <2>1. CASE Check(r)
      BY <2>1, CheckKeeps DEF Check
    <2>2. CASE GetCategory(r)
      BY <2>2, GetCategoryKeeps DEF GetCategory
    <2>3. CASE InsertFails(r) \/ DeadlockDetected(r)
      BY <2>3, FailKeeps DEF InsertFails, DeadlockDetected, Refusals
    <2>4. CASE InsertRow(r)
      <3>1. Remaining(r) /\ UNCHANGED tables
        BY <2>4 DEF InsertRow
      <3> QED
        BY <2>4, <3>1, InsertRowIs, InsertKeeps
    <2>5. CASE Commit(r)
      BY <2>5, CommitIs
    <2> QED
      BY <1>1, <2>1, <2>2, <2>3, <2>4, <2>5 DEF Handle
  <1>2. ASSUME NEW r \in Requests, DatabaseFails(r)
        PROVE  CInv' /\ (UNCHANGED tables \/ Committing(r))
    BY <1>2, DatabaseFailsIs
  <1>3. ASSUME NEW r \in Requests, Receive(r) PROVE CInv' /\ UNCHANGED tables
    BY <1>3, ReceiveKeeps DEF Receive
  <1>4. ASSUME NEW r \in Requests, NEW b \in Bodies, Send(r, b) PROVE CInv' /\ UNCHANGED tables
    BY <1>4, SendKeeps DEF Send
  <1>5. CASE Crash
    BY <1>5, CrashKeeps DEF Crash, tables
  <1>6. CASE DeleteCategories \/ DeleteMovies \/ \E c \in categories : DeleteNominees(c.id)
    <2>1. CInv'
      BY <1>6, DeletionsKeep
    <2>2. /\ movies' \subseteq movies /\ categories' \subseteq categories
          /\ nominees' \subseteq nominees
      BY <1>6 DEF DeleteCategories, DeleteMovies, DeleteNominees
    <2> QED
      BY <2>1, <2>2
  <1>7. UNCHANGED tables => /\ movies' \subseteq movies /\ categories' \subseteq categories
                            /\ nominees' \subseteq nominees
    BY DEF tables
  <1> QED
    BY <1>1, <1>2, <1>3, <1>4, <1>5, <1>6, <1>7 DEF Next

LEMMA Stutter == CInv /\ UNCHANGED vars => CInv'
  <1> SUFFICES ASSUME CInv, UNCHANGED vars PROVE CInv'
    OBVIOUS
  <1>1. \A s \in Requests : Settled(s)
    BY DEF Settled, vars
  <1>2. TypeOK' /\ NomineesStand'
    BY DEF CInv, TypeOK, NomineesStand, vars
  <1> QED
    BY <1>1, <1>2, LessKeeps DEF vars

LEMMA Start == Init => CInv
  <1> SUFFICES ASSUME Init PROVE CInv
    OBVIOUS
  <1>1. /\ Idle.rows = <<>> /\ Idle.names = <<>> /\ Idle.kind = "movies" /\ Idle.pc = "idle"
        /\ Idle \in Request
    BY IdleIsSettled DEF Idle, Blank
  <1>2. \A r \in Requests : req[r] = Idle /\ Open(r) = {}
    BY <1>1, EmptySet DEF Init, Open
  <1>3. TypeOK
    <2>1. req \in [Requests -> Request]
      BY <1>1 DEF Init
    <2>2. {c.id : c \in Seeds} \subseteq Ids
      BY SeedsAssumption DEF Named
    <2> QED
      BY <2>1, <2>2, SeedsAssumption DEF Init, TypeOK
  <1>4. KeysUnique /\ CommittedIssued /\ NomineesStand
    BY SeedsAssumption DEF Init, KeysUnique, CommittedIssued, NomineesStand
  <1>5. NamesMatchTitles
    BY <1>1, <1>2 DEF NamesMatchTitles
  <1>6. ASSUME NEW r \in Requests PROVE Prepared(r) /\ InListOrder(r) /\ Given(r) /\ Holds(r)
    <2>1. Prepared(r) /\ InListOrder(r) /\ Given(r)
      BY <1>1, <1>2 DEF Prepared, InListOrder, Given, At, InTransaction
    <2>2. Distinct(r)
      BY <1>1, <1>2 DEF Distinct
    <2> QED
      BY <1>2, <2>1, <2>2 DEF Holds, Fresh, Linkable, Apart
  <1> QED
    BY <1>3, <1>4, <1>5, <1>6 DEF CInv

\* What overlapping transactions hold stays apart, as long as the server runs.
THEOREM CatalogInvariant == Spec => []CInv
  <1>1. CInv /\ [Next]_vars => CInv'
    BY Step, Stutter
  <1> QED
    BY <1>1, Start, PTL DEF Spec

\* Every variable has its type: what InsertMany writes and returns are rows and ids
\* of the table it is called for.
THEOREM CatalogTypeCorrect == Spec => []TypeOK
  BY CatalogInvariant, PTL DEF CInv

\* However many lists are inserted at once, in whatever order, no two movies have one
\* title and no two categories one name.
THEOREM KeysAlwaysUnique == Spec => []KeysUnique
  BY CatalogInvariant, PTL DEF CInv

\* The movie and the category of a nominee exist, although requests learn of them
\* in an earlier statement or transaction, and scripts delete both.
THEOREM NomineesAlwaysStand == Spec => []NomineesStand
  BY CatalogInvariant, PTL DEF CInv

\* AddNominatedsByNames nominates each name for the movie of that title.
THEOREM NamesAlwaysMatch == Spec => []NamesMatchTitles
  BY CatalogInvariant, PTL DEF CInv

-----------------------------------------------------------------------------
(* Whole lists *)

\* Distinct rows are as many as their positions.
LEMMA DistinctCount ==
    ASSUME NEW S, NEW s \in Seq(S), \A i, j \in 1..Len(s) : s[i] = s[j] => i = j
    PROVE  Cardinality(ToSet(s)) = Len(s)
  <1> DEFINE n == Len(s)
             f == [i \in 1..n |-> s[i]]
  <1>1. n \in Nat
    OBVIOUS
  <1>2. ToSet(s) = {s[i] : i \in 1..n}
    BY SetOfSeq
  <1>3. f \in Bijection(1..n, ToSet(s))
    BY <1>2 DEF Bijection, Injection, Surjection, IsInjective
  <1>4. IsFiniteSet(1..n) /\ Cardinality(1..n) = n
    <2> HIDE DEF n
    <2>1. 1 \in Int /\ n \in Int
      BY <1>1
    <2>2. IsFiniteSet(1..n) /\ Cardinality(1..n) = IF 1 > n THEN 0 ELSE n - 1 + 1
      BY <2>1, FS_Interval
    <2>3. (IF 1 > n THEN 0 ELSE n - 1 + 1) = n
      BY <1>1
    <2> QED
      BY <2>2, <2>3
  <1> QED
    BY <1>3, <1>4, FS_Bijection DEF ExistsBijection

LEMMA CommitIsWhole ==
    ASSUME CInv, NEW r \in Requests, Committing(r),
           NEW new \in {movies' \ movies, categories' \ categories, nominees' \ nominees}, new # {}
    PROVE  /\ {row.name : row \in new} = ToSet(req[r].names)
           /\ Cardinality(new) = Len(req[r].names)
  <1> DEFINE n == Len(req[r].rows)
  <1>1. \A x \in Open(r) : x \notin Rows(Table(r))
    BY DEF CInv, Holds, Fresh, Clash
  <1>2. new = Open(r)
    BY <1>1 DEF Committing, Stored, Rows
  <1>3. /\ req[r].rows \in Seq(Named \cup Nominee) /\ n \in Nat
        /\ req[r].names \in Seq(Names \cup {Empty}) /\ Len(req[r].names) \in Nat
    BY DEF CInv, TypeOK, Request, Lists
  <1>4. Len(req[r].names) = n
    <2>1. n <= Len(req[r].names)
      BY DEF CInv, InListOrder
    <2>2. ~(n < Len(req[r].names))
      BY DEF Committing, Remaining
    <2> QED
      BY <1>3, <2>1, <2>2
  <1>5. \A k \in 1..n : req[r].rows[k].name = req[r].names[k]
    BY DEF CInv, InListOrder
  <1>6. Open(r) = {req[r].rows[k] : k \in 1..n}
    BY <1>3, SetOfSeq DEF Open
  <1>7. ToSet(req[r].names) = {req[r].names[k] : k \in 1..n}
    BY <1>3, <1>4, SetOfSeq
  <1>8. {row.name : row \in Open(r)} = ToSet(req[r].names)
    <2> HIDE DEF n
    <2> QED
      BY <1>5, <1>6, <1>7
  <1>9. \A i, j \in 1..n : req[r].rows[i] = req[r].rows[j] => i = j
    BY DEF CInv, Holds, Distinct, Clash
  <1>10. Cardinality(Open(r)) = n
    BY <1>3, <1>9, DistinctCount DEF Open
  <1> QED
    BY <1>2, <1>4, <1>8, <1>10

\* Rows appear as a whole list or not at all: a transaction that fails in the middle
\* of its list leaves none of it, one that succeeds all of it.
THEOREM ListsAlwaysWhole == Spec => WholeLists
  <1> DEFINE Whole == \A new \in {movies' \ movies, categories' \ categories, nominees' \ nominees} :
                         new # {} => \E r \in Requests :
                            /\ {row.name : row \in new} = ToSet(req[r].names)
                            /\ Cardinality(new) = Len(req[r].names)
  <1>1. CInv /\ [Next]_vars => [Whole]_vars
    <2> SUFFICES ASSUME CInv, Next PROVE Whole
      OBVIOUS
    <2>1. CASE movies' \subseteq movies /\ categories' \subseteq categories /\ nominees' \subseteq nominees
      BY <2>1
    <2>2. ASSUME NEW r \in Requests, Committing(r) PROVE Whole
      BY <2>2, CommitIsWhole
    <2> QED
      BY <2>1, <2>2, Step
  <1> QED
    BY <1>1, CatalogInvariant, PTL DEF Spec, WholeLists
=============================================================================
