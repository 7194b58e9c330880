------------------------------ MODULE VotePage ------------------------------
(***************************************************************************)
(* The page of one category, nominateds_view.html, with the sign-in dialog *)
(* of auth_modal.html: clicks, votes in flight, refusals that open the     *)
(* dialog, the vote that is retried 250 ms after the sign-in and the       *)
(* reload 500 ms after a success.  It runs in the browser of Session.  A   *)
(* vote is one atomic cast at the server, which Voting is shown to         *)
(* implement.                                                              *)
(***************************************************************************)
EXTENDS Session

CONSTANTS Nominees,  \* of the category that the page shows
          Slots      \* bounds the votes in flight

ASSUME PageAssumption == None \notin Nominees

VARIABLES closed,  \* the server's clock has passed the deadline
          ballot,  \* the nominee that each account votes for in this category
          page,    \* what the script of the page keeps
          req,     \* votes in flight
          seen     \* for the properties only: what the user asked for and was told

serverVars == <<closed, ballot>>
vars == <<sessionVars, closed, ballot, page, req, seen>>

NoVote == [pc |-> "idle", nominee |-> None, sub |-> None, status |-> 0, heard |-> FALSE]

\* pending stands for pendingVote and pendingBtn, which are always set together,
\* timer for the timeout of auth:login (None, or what was pending when it was set),
\* reload for that of a success, asking for the dialog: None while it is closed,
\* else the button that waits for it (__pendingAuthButton).
NewPage == [at |-> "loading", disabled |-> {}, pending |-> None, asking |-> None,
            timer |-> None, reload |-> FALSE]

\* latest: the last nominee that was clicked and, if votes were on their way then,
\* those of the overlap, back to a moment with none on its way.  told: the account
\* for which the page has said since the last click that it is voted.
NewSeen(latest) == [latest |-> latest, told |-> None]

Init == /\ SessionInit
        /\ closed = FALSE
        /\ ballot = [id \in Ids |-> None]
        /\ page = NewPage
        /\ req = [s \in Slots |-> NoVote]
        /\ seen = NewSeen({})

OnTheWay == {s \in Slots : req[s].pc # "idle"}

-----------------------------------------------------------------------------
(* fetchNominateds *)

\* The vote of this session is marked if /votes answers, and nothing is drawn if
\* the nominees do not arrive.  The step is the moment at which /votes is read:
\* until the answers are drawn the page has nothing that could act.
Load ==
    /\ page.at = "loading"
    /\ \/ \E mark \in {ballot[id] : id \in {i \in Ids : i = jar.sub /\ Authorised(i)}} \cup {None} :
             page' = [page EXCEPT !.at = "ready", !.disabled = {mark} \ {None}]
       \/ page' = [page EXCEPT !.at = "empty"]
    /\ UNCHANGED <<sessionVars, serverVars, req, seen>>

\* A vote once nobody waits for its answer: it may still be cast if it carries both cookies.
Stray(s) == IF req[s].pc = "sent" /\ req[s].sub # None
            THEN [req[s] EXCEPT !.heard = FALSE]
            ELSE NoVote

Left == /\ page' = NewPage
        /\ req' = [s \in Slots |-> Stray(s)]
        /\ form' = Abandoned
        /\ seen' = NewSeen({req[s].nominee : s \in {t \in Slots : Stray(t) # NoVote}})
        /\ UNCHANGED <<accounts, spent, jar, serverVars>>

\* The reload that a success has scheduled.
Reload == page.reload /\ Left

UserReloads == Left

-----------------------------------------------------------------------------
(* vote(nominatedId, btn) *)

\* The cookies go along, and the CSRF cookie is read for the header, at this moment.
\* A vote that lacks either of them is refused, whatever the other one is.
Voter == IF jar.csrf THEN jar.sub ELSE None

SendVote(s, n) ==
    /\ req[s].pc = "idle"
    /\ req' = [req EXCEPT ![s] = [pc |-> "sent", nominee |-> n, sub |-> Voter,
                                  status |-> 0, heard |-> TRUE]]

Remembered(n) == [page EXCEPT !.disabled = @ \cup {n}, !.pending = n]

\* The dialog covers the buttons while it is open.
Click(n) ==
    /\ page.at = "ready" /\ page.asking = None /\ n \notin page.disabled
    /\ \E s \in Slots : SendVote(s, n)
    /\ page' = Remembered(n)
    /\ seen' = NewSeen({n} \cup IF OnTheWay = {} THEN {} ELSE seen.latest)
    /\ UNCHANGED <<sessionVars, serverVars>>

\* Mutant: the timer is given its arguments when it is set.
WhatPended == page.timer

\* The timer of auth:login reads pendingVote when it fires.
WhatPends == page.pending

\* Mutant: vote(null, null) sends a vote.
Anything(n) == TRUE

\* vote(null, null) ends with a TypeError before it sends anything.
Something(n) == n # None

Retry ==
    /\ page.timer # None
    /\ \/ /\ ~Something(WhatPends)
          /\ page' = [page EXCEPT !.timer = None]
          /\ UNCHANGED req
       \/ /\ Something(WhatPends)
          /\ \E s \in Slots : SendVote(s, WhatPends)
          /\ page' = [Remembered(WhatPends) EXCEPT !.timer = None]
    /\ UNCHANGED <<sessionVars, serverVars, seen>>

\* Mutant: a refused vote is retried without a sign-in.
RefusedAgain(n) == [page EXCEPT !.pending = n, !.timer = n]

\* 401 and 403 open the dialog; 403 stands for both.
Refused(n) == [page EXCEPT !.pending = n, !.asking = n]

\* The answer.  The finally clause refers to a modal that is not in its scope and
\* ends with a ReferenceError, so no branch enables the button again.
Hear(s) ==
    /\ req[s].pc = "served"
    /\ CASE req[s].status = 200 ->
              /\ page' = [page EXCEPT !.reload = TRUE, !.pending = None]
              /\ seen' = [seen EXCEPT !.told = req[s].sub]
         [] req[s].status = 403 ->
              /\ page' = Refused(req[s].nominee)
              /\ UNCHANGED seen
         [] OTHER ->
              /\ page' = [page EXCEPT !.pending = None]
              /\ UNCHANGED seen
    /\ req' = [req EXCEPT ![s] = NoVote]
    /\ UNCHANGED <<sessionVars, serverVars>>

\* fetch fails; the server may have cast the vote, may still do so, or never sees it.
LoseVote(s) ==
    /\ req[s].heard
    /\ page' = [page EXCEPT !.pending = None]
    /\ \E left \in {NoVote, Stray(s)} : req' = [req EXCEPT ![s] = left]
    /\ UNCHANGED <<sessionVars, serverVars, seen>>

-----------------------------------------------------------------------------
(* The sign-in dialog *)

\* Filling the form in takes longer than the 250 ms of the timer.
SubmitForm(mode, email) == /\ page.asking # None /\ page.timer = None
                           /\ Submit(mode, email)
                           /\ UNCHANGED <<serverVars, page, req, seen>>

\* What signs the user in: the account there is, or a new one.
SignIn == \/ \E a \in accounts : a.mine /\ SubmitForm("login", a.email)
          \/ \E e \in Emails : /\ \A a \in accounts : ~a.mine
                               /\ ~Taken(e) /\ spent # Ids
                               /\ SubmitForm("register", e)

\* Anything else that can be typed.
Mistake == \E e \in Emails :
              \/ /\ \A a \in accounts : a.mine => a.email # e
                 /\ SubmitForm("login", e)
              \/ Taken(e) /\ SubmitForm("register", e)

\* Success closes the dialog and, if a vote is pending, starts the timer.
HearSignIn ==
    /\ HearForm
    /\ page' = IF form.status \in {200, 201}
               THEN [page EXCEPT !.asking = None, !.timer = page.pending]
               ELSE page
    /\ UNCHANGED <<serverVars, req, seen>>

\* modalCancel closes the dialog and releases the button that waits.
Cancel == /\ page.asking # None
          /\ page' = [page EXCEPT !.disabled = @ \ {page.asking}, !.asking = None]
          /\ UNCHANGED <<sessionVars, serverVars, req, seen>>

-----------------------------------------------------------------------------
(* POST /add_vote *)

\* Of the request, the answer keeps what the page still needs.
AnswerVote(s, status) ==
    req' = [req EXCEPT ![s] =
              IF ~req[s].heard THEN NoVote
              ELSE [req[s] EXCEPT !.pc = "served", !.status = status,
                                  !.nominee = IF status = 403 THEN @ ELSE None,
                                  !.sub = IF status = 200 THEN @ ELSE None]]

Cast(s) == ballot' = [ballot EXCEPT ![req[s].sub] = req[s].nominee]

\* RequireAuth, then the deadline, then the CSRF token; without both cookies there
\* is no voter.
Admitted(s) == Authorised(req[s].sub) /\ ~closed

ServeVote(s) ==
    /\ req[s].pc = "sent"
    /\ \/ ~Admitted(s) /\ AnswerVote(s, 403) /\ UNCHANGED ballot
       \/ Admitted(s) /\ AnswerVote(s, 200) /\ Cast(s)
    /\ UNCHANGED <<sessionVars, closed, page, seen>>

\* A statement is lost: 401 in RequireAuth, 500 later, when the vote may be cast.
\* The 500 of a vote without a voter is that of GetByID, before the CSRF token is asked for.
VoteFails(s) ==
    /\ req[s].pc = "sent" /\ ~closed
    /\ \/ AnswerVote(s, 500) /\ UNCHANGED ballot
       \/ Admitted(s) /\ AnswerVote(s, 500) /\ Cast(s)
       \/ Admitted(s) /\ AnswerVote(s, 403) /\ UNCHANGED ballot
    /\ UNCHANGED <<sessionVars, closed, page, seen>>

PassDeadline == /\ ~closed
                /\ closed' = TRUE
                /\ UNCHANGED <<sessionVars, ballot, page, req, seen>>

\* The votes go with the account.
ResetAccount(id) == /\ DeleteAccount(id)
                    /\ ballot' = [ballot EXCEPT ![id] = None]
                    /\ UNCHANGED <<closed, page, req, seen>>

-----------------------------------------------------------------------------
User == \/ \E n \in Nominees : Click(n)
        \/ SignIn \/ Mistake \/ Cancel \/ UserReloads

Browser == Load \/ Reload \/ Retry \/ HearSignIn \/ \E s \in Slots : Hear(s)

Server == \/ \E s \in Slots : ServeVote(s)
          \/ ServeForm /\ UNCHANGED <<serverVars, page, req, seen>>

\* What goes wrong, and what others do.
Trouble == \/ \E s \in Slots : LoseVote(s) \/ VoteFails(s)
           \/ \E id \in Ids : ResetAccount(id)
           \/ PassDeadline
           \/ /\ \/ LoseForm \/ FormFails \/ Expire \/ Logout \/ VisitForm
                 \/ \E e \in Emails : OthersRegister(e)
              /\ UNCHANGED <<serverVars, page, req, seen>>

Next == User \/ Browser \/ Server \/ Trouble

Spec == Init /\ [][Next]_vars

\* The browser runs its timers and handlers, the server answers, and a user who is
\* asked to sign in does so.
FairSpec == /\ Spec
            /\ WF_vars(Load) /\ WF_vars(Reload)
            /\ WF_vars(Retry) /\ WF_vars(HearSignIn) /\ WF_vars(SignIn)
            /\ WF_vars(ServeForm /\ UNCHANGED <<serverVars, page, req, seen>>)
            /\ \A s \in Slots : WF_vars(Hear(s)) /\ WF_vars(ServeVote(s))

-----------------------------------------------------------------------------
TypeOK ==
    /\ SessionTypeOK
    /\ closed \in BOOLEAN
    /\ ballot \in [Ids -> Nominees \cup {None}]
    /\ page \in [at : {"loading", "ready", "empty"}, disabled : SUBSET Nominees,
                 pending : Nominees \cup {None}, asking : Nominees \cup {None},
                 timer : Nominees \cup {None}, reload : BOOLEAN]
    /\ req \in [Slots -> [pc : {"idle", "sent", "served"}, nominee : Nominees \cup {None},
                          sub : Ids \cup {None}, status : {0, 200, 403, 500},
                          heard : BOOLEAN]]
    /\ seen \in [latest : SUBSET Nominees, told : Ids \cup {None}]

\* When the page says "Voted successfully", then the vote that counts is the last
\* one clicked or, if clicks overlapped, one of the overlap: votes of an earlier
\* page and those whose answer was lost count as long as the server may still cast
\* them, but no vote that was refused or waited for a sign-in comes back later and
\* overwrites the choice.
LastClickWins ==
    Authorised(seen.told) => ballot[seen.told] \in seen.latest

\* Refusals never make the page send votes by itself, not even after the deadline,
\* when every vote is refused and every refusal opens the dialog: once the user
\* leaves it alone, nothing stays on its way.
Quiet == /\ \A s \in Slots : req[s].pc = "idle"
         /\ form.pc = "idle"
         /\ page.timer = None

Quiesces == []<><<User>>_vars \/ <>[]Quiet

\* Before the deadline a user who signs in whenever asked is not asked forever, in
\* whatever order the two cookies have expired.
CanSignIn == \/ \E a \in accounts : a.mine
             \/ spent # Ids /\ \E e \in Emails : ~Taken(e)

Obstacle == \/ \E n \in Nominees : Click(n)
            \/ Mistake \/ Cancel \/ UserReloads \/ Trouble

NoEndlessLogin == \/ []<><<Obstacle>>_vars
                  \/ <>[](closed \/ ~CanSignIn)
                  \/ <>[](page.asking = None)
=============================================================================
