--------------------------- MODULE SessionProofs ---------------------------
(***************************************************************************)
(* Accounts and cookies for any number of accounts, addresses and votes in *)
(* flight.  The invariant rests on ids that are never given twice: an id   *)
(* that a cookie or an answer holds was handed out, so no account that is  *)
(* created later can have it.                                              *)
(***************************************************************************)
EXTENDS VotePage, TLAPS

\* Every id in use was handed out.
IdsSpent == /\ \A a \in accounts : a.id \in spent
            /\ {jar.sub, form.sub} \subseteq spent \cup {None}

\* A form that is sent has an address.
FormFilled == form.pc = "sent" => form.email \in Emails

\* No id is that of two accounts.
IdsDistinct == \A a, b \in accounts : a.id = b.id => a = b

SInv == SessionTypeOK /\ IdsSpent /\ FormFilled /\ IdsDistinct /\ OwnSession

-----------------------------------------------------------------------------
\* NewId is an id that was not handed out yet, while there is one.
LEMMA NewIdIsNew == ASSUME spent \subseteq Ids, spent # Ids
                    PROVE  NewId \in Ids /\ NewId \notin spent
  <1>1. \E id \in Ids : id \notin spent
    OBVIOUS
  <1> QED
    BY <1>1 DEF NewId

\* Creating an account for an address that has none keeps what concerns accounts,
\* whatever cookies and forms hold, as long as those are not a new id.
LEMMA CreateKeeps ==
    ASSUME SInv, NEW email \in Emails, NEW mine \in BOOLEAN,
           ~Taken(email), Create(email, mine)
    PROVE  /\ NewId \in Ids /\ NewId \notin spent
           /\ accounts' \in SUBSET Account
           /\ spent' \in SUBSET Ids
           /\ spent \subseteq spent' /\ NewId \in spent'
           /\ \A a \in accounts' : a.id \in spent'
           /\ IdsDistinct'
           /\ \A a \in accounts' : a \in accounts \/ (a.id = NewId /\ a.mine = mine)
  <1> DEFINE new == [id |-> NewId, email |-> email, mine |-> mine]
  <1>1. spent \subseteq Ids /\ spent # Ids
    BY DEF SInv, SessionTypeOK, Create
  <1>2. NewId \in Ids /\ NewId \notin spent
    BY <1>1, NewIdIsNew
  <1>3. accounts' = accounts \cup {new} /\ spent' = spent \cup {NewId}
    BY DEF Create
  <1>4. new \in Account /\ new.id = NewId /\ new.email = email /\ new.mine = mine
    BY <1>2 DEF Account
  <1>5. \A a \in accounts : a.id # new.id
    BY <1>2, <1>4 DEF SInv, IdsSpent
  <1>6. IdsDistinct'
    BY <1>3, <1>5 DEF SInv, IdsDistinct
  <1> HIDE DEF new
  <1> QED
    BY <1>1, <1>2, <1>3, <1>4, <1>6 DEF SInv, SessionTypeOK, IdsSpent

\* What a step that leaves accounts alone has to show: types, and cookies and
\* forms whose ids were handed out and belong to accounts of this user.
LEMMA FormStep ==
    ASSUME SInv, UNCHANGED <<accounts, spent>>,
           SessionTypeOK', FormFilled',
           {jar'.sub, form'.sub} \subseteq {jar.sub, form.sub, None}
    PROVE  SInv'
  <1>1. \A a \in accounts : a.id # None
    BY SessionAssumption DEF SInv, SessionTypeOK, Account
  <1>2. IdsSpent'
    BY DEF SInv, IdsSpent
  <1>3. OwnSession'
    BY <1>1 DEF SInv, OwnSession
  <1> QED
    BY <1>2, <1>3 DEF SInv, IdsDistinct

-----------------------------------------------------------------------------
(* The browser *)

LEMMA NoFormTyped == NoForm \in Form
  BY DEF Form, NoForm

LEMMA SubmitKeeps == ASSUME SInv, NEW mode \in {"login", "register"}, NEW email \in Emails,
                            Submit(mode, email)
                     PROVE  SInv'
  <1>1. SessionTypeOK' /\ FormFilled'
    BY DEF SInv, SessionTypeOK, Submit, FormFilled, Form
  <1>2. {jar'.sub, form'.sub} \subseteq {jar.sub, form.sub, None}
    BY DEF Submit
  <1> QED
    BY <1>1, <1>2, FormStep DEF Submit

LEMMA HearKeeps == ASSUME SInv, HearForm PROVE SInv'
  <1>1. form' = NoForm /\ UNCHANGED <<accounts, spent>>
    BY DEF HearForm
  <1>2. form.csrf \in BOOLEAN /\ form.sub \in Ids \cup {None}
    BY DEF SInv, SessionTypeOK, Form
  <1>3. jar.csrf \in BOOLEAN /\ jar \in [sub : Ids \cup {None}, csrf : BOOLEAN]
    BY DEF SInv, SessionTypeOK
  <1>4. /\ jar' \in [sub : Ids \cup {None}, csrf : BOOLEAN]
        /\ jar'.sub \in {jar.sub, form.sub}
    <2>1. CASE StoreCookies
      <3>1. (jar.csrf \/ form.csrf) \in BOOLEAN
        OBVIOUS
      <3> QED
        BY <1>2, <2>1, <3>1 DEF StoreCookies
    <2>2. CASE UNCHANGED jar
      BY <1>3, <2>2
    <2> QED
      BY <2>1, <2>2 DEF HearForm
  <1>5. SessionTypeOK' /\ FormFilled' /\ form'.sub = None
    BY <1>1, <1>4, NoFormTyped DEF SInv, SessionTypeOK, FormFilled, NoForm
  <1> QED
    BY <1>1, <1>4, <1>5, FormStep

LEMMA AbandonKeeps == ASSUME SInv, form' \in {NoForm, Abandoned},
                             UNCHANGED <<accounts, spent, jar>>
                      PROVE  SInv'
  <1>1. form \in Form
    BY DEF SInv, SessionTypeOK
  <1>2. /\ form' \in Form
        /\ form'.sub \in {form.sub, None}
        /\ form'.pc = "sent" => form.pc = "sent" /\ form'.email = form.email
    <2>1. CASE form' = NoForm
      BY <2>1, NoFormTyped DEF NoForm
    <2>2. CASE form.pc = "sent" /\ form.mode = "register" /\ form' = Abandoned
      BY <1>1, <2>2 DEF Form, Abandoned
    <2> QED
      BY <2>1, <2>2 DEF Abandoned
  <1>3. SessionTypeOK' /\ FormFilled'
    BY <1>2 DEF SInv, SessionTypeOK, FormFilled
  <1> QED
    BY <1>2, <1>3, FormStep

LEMMA CookiesKeep == ASSUME SInv, Logout \/ VisitForm \/ Expire PROVE SInv'
  <1>1. /\ UNCHANGED <<accounts, spent, form>>
        /\ jar' \in [sub : Ids \cup {None}, csrf : BOOLEAN]
        /\ jar'.sub \in {jar.sub, None}
    BY DEF SInv, SessionTypeOK, Logout, VisitForm, Expire
  <1>2. SessionTypeOK' /\ FormFilled'
    BY <1>1 DEF SInv, SessionTypeOK, FormFilled
  <1> QED
    BY <1>1, <1>2, FormStep

-----------------------------------------------------------------------------
(* The server *)

\* An answer is typed, and its form is no longer one that is sent.
LEMMA AnswerTyped ==
    ASSUME SInv, NEW status \in {0, 200, 201, 401, 500}, NEW id \in Ids \cup {None},
           AnswerForm(status, id)
    PROVE  /\ form' \in Form
           /\ form'.pc # "sent"
           /\ form'.sub \in {None, id}
  <1>1. CASE ~form.heard
    BY <1>1, NoFormTyped DEF AnswerForm, NoForm
  <1>2. CASE form.heard
    <2>1. Given(form) \in BOOLEAN
      BY DEF Given
    <2>2. form' = [pc |-> "served", mode |-> "login", email |-> None,
                   csrf |-> id # None /\ Given(form), sub |-> id,
                   status |-> status, heard |-> TRUE]
      BY <1>2 DEF AnswerForm
    <2> QED
      BY <2>1, <2>2 DEF Form
  <1> QED
    BY <1>1, <1>2

LEMMA LoginKeeps == ASSUME SInv, ServeLogin PROVE SInv'
  <1>1. CASE AnswerForm(401, None)
    <2>1. SessionTypeOK' /\ FormFilled' /\ form'.sub = None
      BY <1>1, AnswerTyped DEF ServeLogin, SInv, SessionTypeOK, FormFilled
    <2> QED
      BY <2>1, FormStep DEF ServeLogin
  <1>2. ASSUME NEW a \in Matching(form.email), AnswerForm(200, a.id) PROVE SInv'
    <2>1. a \in accounts /\ a.mine /\ a.id \in Ids /\ a.id \in spent
      BY <1>2 DEF Matching, SInv, SessionTypeOK, Account, IdsSpent
    <2>2. SessionTypeOK' /\ FormFilled' /\ form'.sub \in {None, a.id}
      BY <1>2, <2>1, AnswerTyped DEF ServeLogin, SInv, SessionTypeOK, FormFilled
    <2>3. \A b \in accounts : b.id = a.id => b.mine
      BY <2>1 DEF SInv, IdsDistinct
    <2>4. \A b \in accounts : b.id # None
      BY SessionAssumption DEF SInv, SessionTypeOK, Account
    <2>5. OwnSession'
      BY <2>2, <2>3, <2>4 DEF ServeLogin, SInv, OwnSession
    <2>6. IdsSpent' /\ IdsDistinct'
      BY <2>1, <2>2 DEF ServeLogin, SInv, IdsSpent, IdsDistinct
    <2> QED
      BY <2>2, <2>5, <2>6 DEF SInv
  <1> QED
    BY <1>1, <1>2 DEF ServeLogin

\* A registration, whatever becomes of its answer, and one of someone else.
LEMMA CreationKeeps ==
    ASSUME SInv, NEW email \in Emails, NEW mine \in BOOLEAN,
           ~Taken(email), Create(email, mine), UNCHANGED jar,
           form' \in Form,
           FormFilled',
           form'.sub \in {None, form.sub} \cup (IF mine THEN {NewId} ELSE {})
    PROVE  SInv'
  <1>1. /\ NewId \in Ids /\ NewId \notin spent
        /\ accounts' \in SUBSET Account
        /\ spent' \in SUBSET Ids
        /\ spent \subseteq spent' /\ NewId \in spent'
        /\ \A a \in accounts' : a.id \in spent'
        /\ IdsDistinct'
        /\ \A a \in accounts' : a \in accounts \/ (a.id = NewId /\ a.mine = mine)
    BY CreateKeeps
  <1>2. NewId # None /\ \A a \in accounts' : a.id # None
    BY <1>1, SessionAssumption DEF Account
  <1>3. SessionTypeOK' /\ IdsSpent'
    BY <1>1 DEF SInv, SessionTypeOK, IdsSpent
  <1>4. ASSUME NEW a \in accounts', a.id \in {jar'.sub, form'.sub}
        PROVE  a.mine
    <2>1. CASE a \in accounts
      <3>1. a.id # NewId /\ a.id # None
        BY <1>1, <1>2, <2>1 DEF SInv, IdsSpent
      <3>2. a.id \in {jar.sub, form.sub}
        BY <1>4, <3>1
      <3> QED
        BY <2>1, <3>2 DEF SInv, OwnSession
    <2>2. CASE a.id = NewId /\ a.mine = mine
      <3>1. jar'.sub # NewId /\ form.sub # NewId
        BY <1>1, <1>2 DEF SInv, IdsSpent
      <3>2. form'.sub = NewId
        BY <1>4, <2>2, <3>1
      <3> QED
        BY <1>2, <2>2, <3>1, <3>2
    <2> QED
      BY <1>1, <2>1, <2>2
  <1> QED
    BY <1>1, <1>3, <1>4 DEF SInv, OwnSession

LEMMA RegisterKeeps == ASSUME SInv, ServeRegister PROVE SInv'
  <1>0. form.email \in Emails /\ form.pc = "sent"
    BY DEF SInv, FormFilled, ServeRegister
  <1>1. CASE AnswerForm(500, None) /\ UNCHANGED <<accounts, spent>>
    <2>1. SessionTypeOK' /\ FormFilled' /\ form'.sub = None
      BY <1>1, AnswerTyped DEF ServeRegister, SInv, SessionTypeOK, FormFilled
    <2> QED
      BY <1>1, <2>1, FormStep DEF ServeRegister
  <1>2. CASE ~Taken(form.email) /\ Create(form.email, TRUE) /\ AnswerForm(201, NewId)
    <2>1. NewId \in Ids
      BY <1>0, <1>2, CreateKeeps
    <2>2. /\ form' \in Form
          /\ form'.pc # "sent"
          /\ form'.sub \in {None, NewId}
      BY <1>2, <2>1, AnswerTyped
    <2> QED
      BY <1>0, <1>2, <2>2, CreationKeeps DEF ServeRegister, FormFilled
  <1> QED
    BY <1>1, <1>2 DEF ServeRegister

LEMMA FailKeeps == ASSUME SInv, FormFails PROVE SInv'
  <1>0. form.email \in Emails
    BY DEF SInv, FormFilled, FormFails
  <1>1. /\ form' \in Form
        /\ form'.pc # "sent"
        /\ form'.sub = None
    BY AnswerTyped DEF FormFails
  <1>2. CASE UNCHANGED <<accounts, spent>>
    <2>1. SessionTypeOK' /\ FormFilled'
      BY <1>1, <1>2 DEF FormFails, SInv, SessionTypeOK, FormFilled
    <2> QED
      BY <1>1, <1>2, <2>1, FormStep DEF FormFails
  <1>3. CASE ~Taken(form.email) /\ Create(form.email, TRUE)
    BY <1>0, <1>1, <1>3, CreationKeeps DEF FormFails, FormFilled
  <1> QED
    BY <1>2, <1>3 DEF FormFails

LEMMA OthersKeep == ASSUME SInv, NEW email \in Emails, OthersRegister(email) PROVE SInv'
  <1>1. FormFilled'
    BY DEF SInv, FormFilled, OthersRegister
  <1> QED
    BY <1>1, CreationKeeps DEF OthersRegister, SInv, SessionTypeOK

LEMMA DeleteKeeps == ASSUME SInv, NEW id \in Ids, DeleteAccount(id) PROVE SInv'
  BY DEF SInv, SessionTypeOK, IdsSpent, FormFilled, IdsDistinct, OwnSession, DeleteAccount

LEMMA UnchangedKeeps == ASSUME SInv, UNCHANGED sessionVars PROVE SInv'
  BY DEF sessionVars, SInv, SessionTypeOK, IdsSpent, FormFilled, IdsDistinct, OwnSession

-----------------------------------------------------------------------------
LEMMA InitHolds == Init => SInv
  BY NoFormTyped DEF Init, SessionInit, SInv, SessionTypeOK, IdsSpent, FormFilled,
                     IdsDistinct, OwnSession, NoForm

LEMMA NextKeeps == ASSUME SInv, [Next]_vars PROVE SInv'
  <1>1. CASE UNCHANGED sessionVars
    BY <1>1, UnchangedKeeps
  <1>2. CASE User
    <2>1. ASSUME NEW mode \in {"login", "register"}, NEW e \in Emails, SubmitForm(mode, e)
          PROVE  SInv'
      BY <2>1, SubmitKeeps DEF SubmitForm
    <2>2. \A a \in accounts : a.email \in Emails
      BY DEF SInv, SessionTypeOK, Account
    <2>3. CASE SignIn \/ Mistake
      BY <2>1, <2>2, <2>3 DEF SignIn, Mistake
    <2>4. CASE UserReloads
      BY <2>4, AbandonKeeps DEF UserReloads, Left
    <2>5. CASE Cancel \/ \E n \in Nominees : Click(n)
      BY <1>1, <2>5 DEF Cancel, Click
    <2> QED
      BY <1>2, <2>3, <2>4, <2>5 DEF User
  <1>3. CASE Browser
    <2>1. CASE Reload
      BY <2>1, AbandonKeeps DEF Reload, Left
    <2>2. CASE HearSignIn
      BY <2>2, HearKeeps DEF HearSignIn
    <2>3. CASE Load \/ Retry \/ \E s \in Slots : Hear(s)
      BY <1>1, <2>3 DEF Load, Retry, Hear
    <2> QED
      BY <1>3, <2>1, <2>2, <2>3 DEF Browser
  <1>4. CASE Server
    BY <1>1, <1>4, LoginKeeps, RegisterKeeps DEF Server, ServeForm, ServeVote
  <1>5. CASE Trouble
    <2>1. CASE \E s \in Slots : LoseVote(s) \/ VoteFails(s)
      BY <1>1, <2>1 DEF LoseVote, VoteFails
    <2>2. CASE \E id \in Ids : ResetAccount(id)
      BY <2>2, DeleteKeeps DEF ResetAccount
    <2>3. CASE PassDeadline
      BY <1>1, <2>3 DEF PassDeadline
    <2>4. CASE LoseForm
      BY <2>4, AbandonKeeps DEF LoseForm
    <2>5. CASE FormFails \/ Expire \/ Logout \/ VisitForm \/ \E e \in Emails : OthersRegister(e)
      BY <2>5, FailKeeps, CookiesKeep, OthersKeep
    <2> QED
      BY <1>5, <2>1, <2>2, <2>3, <2>4, <2>5 DEF Trouble
  <1> QED
    BY <1>1, <1>2, <1>3, <1>4, <1>5 DEF Next, vars

THEOREM SessionInvariant == Spec => []SInv
  BY InitHolds, NextKeeps, PTL DEF Spec

\* A browser never holds, nor is about to get, a cookie for an account of someone
\* else: Login compares the password of the row whose id goes into the token.
THEOREM OwnSessionAlways == Spec => []OwnSession
  BY SessionInvariant, PTL DEF SInv
=============================================================================
