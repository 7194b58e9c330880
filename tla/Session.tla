------------------------------ MODULE Session ------------------------------
(***************************************************************************)
(* Accounts and sessions: POST /register, POST /login and GET /logout, the *)
(* cookies jwt and csrf_token of one browser, and everyone else who uses   *)
(* the same table of users.  The server keeps nothing of a session; what   *)
(* there is of it is the browser's two cookies, which expire 24 hours      *)
(* after they were set, each on its own.                                   *)
(***************************************************************************)
EXTENDS Naturals, FiniteSets

CONSTANTS Ids,     \* user UUIDs; bounds how many accounts are ever created
          Emails,
          None

ASSUME SessionAssumption == None \notin Ids

VARIABLES accounts,  \* rows of users
          spent,     \* UUIDs handed out
          jar,       \* the browser's cookies: account of the jwt, whether there is a csrf_token
          form       \* the sign-in or registration that the browser has sent

sessionVars == <<accounts, spent, jar, form>>

\* mine: the password is the one that this browser's user knows.
Account == [id : Ids, email : Emails, mine : BOOLEAN]

Form == [pc : {"idle", "sent", "served"}, mode : {"login", "register"},
         email : Emails \cup {None}, csrf : BOOLEAN, sub : Ids \cup {None},
         status : {0, 200, 201, 401, 500}, heard : BOOLEAN]

NoForm == [pc |-> "idle", mode |-> "login", email |-> None, csrf |-> FALSE,
           sub |-> None, status |-> 0, heard |-> FALSE]

SessionInit == /\ accounts = {}
               /\ spent = {}
               /\ jar = [sub |-> None, csrf |-> FALSE]
               /\ form = NoForm

\* RequireAuth: the token's subject is looked up among the users.
Authorised(id) == \E a \in accounts : a.id = id

-----------------------------------------------------------------------------
(* The browser *)

\* The form is posted with the cookies of this moment.
Submit(mode, email) ==
    /\ form.pc = "idle"
    /\ form' = [pc |-> "sent", mode |-> mode, email |-> email, csrf |-> jar.csrf,
                sub |-> None, status |-> 0, heard |-> TRUE]
    /\ UNCHANGED <<accounts, spent, jar>>

\* Mutant: the handlers of /login and /register leave the CSRF cookie to the pages.
GivenByPages(f) == FALSE

\* ensureCSRFCookie sets a cookie unless the request carried one.
Given(f) == ~f.csrf

\* A successful answer sets both cookies.
StoreCookies == jar' = [sub |-> form.sub, csrf |-> jar.csrf \/ form.csrf]

\* The answer arrives.
HearForm == /\ form.pc = "served"
            /\ IF form.status \in {200, 201} THEN StoreCookies ELSE UNCHANGED jar
            /\ form' = NoForm
            /\ UNCHANGED <<accounts, spent>>

\* The form once nobody waits for its answer: a registration may still be served.
Abandoned == IF form.pc = "sent" /\ form.mode = "register"
             THEN [pc |-> "sent", mode |-> "register", email |-> form.email, csrf |-> FALSE,
                   sub |-> None, status |-> 0, heard |-> FALSE]
             ELSE NoForm

\* The connection fails, or the page that sent the form is left: the server may
\* have handled the form, may still do so, or never sees it.
LoseForm == /\ form.heard
            /\ form' \in {NoForm, Abandoned}
            /\ UNCHANGED <<accounts, spent, jar>>

\* GET /logout expires the jwt only.
Logout == /\ jar.sub # None
          /\ jar' = [jar EXCEPT !.sub = None]
          /\ UNCHANGED <<accounts, spent, form>>

\* A page that calls ensureCSRFCookie: the login page, the nomination form.
VisitForm == /\ ~jar.csrf
             /\ jar' = [jar EXCEPT !.csrf = TRUE]
             /\ UNCHANGED <<accounts, spent, form>>

\* The jwt and its cookie expire together; the two cookies expire in any order,
\* since ensureCSRFCookie does not renew the one it finds.
Expire == /\ \/ jar.sub # None /\ jar' = [jar EXCEPT !.sub = None]
             \/ jar.csrf /\ jar' = [jar EXCEPT !.csrf = FALSE]
          /\ UNCHANGED <<accounts, spent, form>>

-----------------------------------------------------------------------------
(* The server *)

\* The answer, with the cookies of a success; nobody hears that of an abandoned form.
AnswerForm(status, id) ==
    form' = IF ~form.heard THEN NoForm
            ELSE [pc |-> "served", mode |-> "login", email |-> None,
                  csrf |-> id # None /\ Given(form), sub |-> id, status |-> status, heard |-> TRUE]

Taken(email) == \E a \in accounts : a.email = email

\* gen_random_uuid; which of the unused ids makes no difference.
NewId == CHOOSE id \in Ids : id \notin spent

Create(email, mine) == /\ spent # Ids
                       /\ accounts' = accounts \cup {[id |-> NewId, email |-> email, mine |-> mine]}
                       /\ spent' = spent \cup {NewId}

\* Register hashes, then inserts; it looks nothing up before.  At the bound Ids the
\* INSERT fails, as it may at any time (FormFails).
ServeRegister ==
    /\ form.pc = "sent" /\ form.mode = "register"
    /\ \/ /\ Taken(form.email) \/ spent = Ids
          /\ AnswerForm(500, None)
          /\ UNCHANGED <<accounts, spent>>
       \/ /\ ~Taken(form.email)
          /\ Create(form.email, TRUE)
          /\ AnswerForm(201, NewId)
    /\ UNCHANGED jar

\* Mutant: Login forgets the comparison of the password.
KnownEmail(email) == {a \in accounts : a.email = email}

Matching(email) == {a \in accounts : a.email = email /\ a.mine}

\* GetByEmail, then the comparison of the password, then the token.
ServeLogin ==
    /\ form.pc = "sent" /\ form.mode = "login"
    /\ \/ Matching(form.email) = {} /\ AnswerForm(401, None)
       \/ \E a \in Matching(form.email) : AnswerForm(200, a.id)
    /\ UNCHANGED <<accounts, spent, jar>>

ServeForm == ServeRegister \/ ServeLogin

\* The statement fails, or the word that the user was inserted is lost.
FormFails ==
    /\ form.pc = "sent"
    /\ AnswerForm(500, None)
    /\ \/ UNCHANGED <<accounts, spent>>
       \/ /\ form.mode = "register" /\ ~Taken(form.email)
          /\ Create(form.email, TRUE)
    /\ UNCHANGED jar

-----------------------------------------------------------------------------
(* Everyone else *)

OthersRegister(email) == /\ ~Taken(email)
                         /\ Create(email, FALSE)
                         /\ UNCHANGED <<jar, form>>

\* "Tokens may be stale after DB reset."
DeleteAccount(id) == /\ Authorised(id)
                     /\ accounts' = {a \in accounts : a.id # id}
                     /\ UNCHANGED <<spent, jar, form>>

-----------------------------------------------------------------------------
SessionTypeOK ==
    /\ accounts \in SUBSET Account
    /\ spent \in SUBSET Ids
    /\ jar \in [sub : Ids \cup {None}, csrf : BOOLEAN]
    /\ form \in Form

\* Whatever was lost, retried or taken by someone else in between, the cookie that
\* a browser holds, and the one on its way to it, are of an account whose password
\* its user knows, or of one that is gone.
OwnSession == \A a \in accounts : a.id \in {jar.sub, form.sub} => a.mine
=============================================================================
