---------------------------- MODULE VotePageProofs ----------------------------
(***************************************************************************)
(* The page of a category for any number of nominees, accounts and votes   *)
(* in flight: what is told to the user and what counts at the server.      *)
(***************************************************************************)
EXTENDS SessionProofs

\* The parts of TypeOK, named.
Pcs      == {"idle", "sent", "served"}
Statuses == {0, 200, 403, 500}
Choice   == Nominees \cup {None}
Holder   == Ids \cup {None}

Page == [at : {"loading", "ready", "empty"}, disabled : SUBSET Nominees,
         pending : Choice, asking : Choice, timer : Choice, reload : BOOLEAN]

Vote == [pc : Pcs, nominee : Choice, sub : Holder, status : Statuses, heard : BOOLEAN]

Seen == [latest : SUBSET Nominees, told : Holder]

Typed == /\ closed \in BOOLEAN
         /\ ballot \in [Ids -> Choice]
         /\ page \in Page
         /\ req \in [Slots -> Vote]
         /\ seen \in Seen

\* Votes and the word of success are of accounts that were created.
HoldersSpent == /\ seen.told \in spent \cup {None}
                /\ \A s \in Slots : req[s].sub \in spent \cup {None}

\* The vote that an account has counts for what the user clicked latest.
AsWished(id) == Authorised(id) => ballot[id] \in seen.latest

\* Everything under way is about the latest clicks, and so is every success: the one
\* that was told and those whose word is on its way.
Agreed == /\ page.pending \in {None} \cup seen.latest
          /\ \A s \in Slots : /\ req[s].pc = "sent" => req[s].nominee \in seen.latest
                              /\ req[s].pc = "served" => req[s].nominee \in {None} \cup seen.latest
                              /\ req[s].pc = "served" /\ req[s].status = 200
                                   => AsWished(req[s].sub)
          /\ AsWished(seen.told)

PInv == SInv /\ Typed /\ HoldersSpent /\ Agreed

-----------------------------------------------------------------------------
(* Types *)

LEMMA TypeSplits == TypeOK <=> SessionTypeOK /\ Typed
  BY DEF TypeOK, Typed, Page, Vote, Seen, Pcs, Statuses, Choice, Holder

LEMMA NoneHolds == None \in Choice /\ None \in Holder /\ Ids \subseteq Holder
  BY DEF Choice, Holder

LEMMA NoVoteTyped == NoVote \in Vote
  BY NoneHolds DEF Vote, NoVote, Pcs, Statuses

LEMMA StrayTyped == ASSUME Typed, NEW s \in Slots
                    PROVE  /\ Stray(s) \in Vote
                           /\ Stray(s).sub \in {None, req[s].sub}
                           /\ \/ Stray(s).pc = "idle"
                              \/ /\ req[s].pc = "sent" /\ Stray(s).pc = "sent"
                                 /\ Stray(s).nominee = req[s].nominee
  <1>1. req[s] \in Vote
    BY DEF Typed
  <1>2. CASE req[s].pc = "sent" /\ req[s].sub # None
    BY <1>1, <1>2 DEF Stray, Vote
  <1>3. CASE ~(req[s].pc = "sent" /\ req[s].sub # None)
    BY <1>3, NoVoteTyped DEF Stray, NoVote
  <1> QED
    BY <1>2, <1>3

-----------------------------------------------------------------------------
(* Accounts *)

\* Rows of users are created with a new id, or deleted.
LEMMA AccountsStep ==
    ASSUME SInv, [Next]_vars
    PROVE  \/ UNCHANGED <<accounts, spent>>
           \/ \E e \in Emails, mine \in BOOLEAN : ~Taken(e) /\ Create(e, mine)
           \/ \E id \in Ids : DeleteAccount(id)
  <1>1. form.pc = "sent" => form.email \in Emails
    BY DEF SInv, FormFilled
  <1>2. CASE UNCHANGED vars
    BY <1>2 DEF vars, sessionVars
  <1>3. CASE User
    BY <1>3 DEF User, Click, SignIn, Mistake, SubmitForm, Submit, Cancel, UserReloads, Left, sessionVars
  <1>4. CASE Browser
    BY <1>4 DEF Browser, Load, Reload, Left, Retry, HearSignIn, HearForm, Hear, sessionVars
  <1>5. CASE Server
    BY <1>1, <1>5 DEF Server, ServeVote, ServeForm, ServeRegister, ServeLogin, sessionVars
  <1>6. CASE Trouble
    <2>1. CASE \E s \in Slots : LoseVote(s) \/ VoteFails(s)
      BY <2>1 DEF LoseVote, VoteFails, sessionVars
    <2>2. CASE \E id \in Ids : ResetAccount(id)
      BY <2>2 DEF ResetAccount
    <2>3. CASE PassDeadline
      BY <2>3 DEF PassDeadline, sessionVars
    <2>4. CASE LoseForm \/ FormFails \/ Expire \/ Logout \/ VisitForm
      BY <1>1, <2>4 DEF LoseForm, FormFails, Expire, Logout, VisitForm
    <2>5. CASE \E e \in Emails : OthersRegister(e)
      BY <2>5 DEF OthersRegister
    <2> QED
      BY <1>6, <2>1, <2>2, <2>3, <2>4, <2>5 DEF Trouble
  <1> QED
    BY <1>2, <1>3, <1>4, <1>5, <1>6 DEF Next

\* An id in use is never given again.
NoneRevived == /\ spent \subseteq spent'
               /\ \A id \in spent \cup {None} : Authorised(id)' => Authorised(id)

LEMMA NeverRevived == ASSUME SInv, [Next]_vars PROVE NoneRevived
  <1>1. CASE UNCHANGED <<accounts, spent>>
    BY <1>1 DEF NoneRevived, Authorised
  <1>2. ASSUME NEW e \in Emails, NEW mine \in BOOLEAN, ~Taken(e), Create(e, mine)
        PROVE  NoneRevived
    <2>1. /\ NewId \in Ids /\ NewId \notin spent
          /\ spent \subseteq spent'
          /\ \A a \in accounts' : a \in accounts \/ a.id = NewId
      BY <1>2, CreateKeeps
    <2>2. NewId # None
      BY <2>1, SessionAssumption
    <2> QED
      BY <2>1, <2>2 DEF NoneRevived, Authorised
  <1>3. ASSUME NEW id \in Ids, DeleteAccount(id) PROVE NoneRevived
    BY <1>3 DEF NoneRevived, Authorised, DeleteAccount
  <1> QED
    BY <1>1, <1>2, <1>3, AccountsStep

\* No account has the id None.
LEMMA NoneIsNobody == ASSUME PInv PROVE ~Authorised(None)
  BY SessionAssumption DEF PInv, SInv, SessionTypeOK, Account, Authorised

\* What an account has keeps counting while ballots stay and no click is forgotten.
LEMMA WishKept ==
    ASSUME NoneRevived, ballot' = ballot, seen.latest \subseteq seen'.latest
    PROVE  \A id \in spent \cup {None} : AsWished(id) => AsWished(id)'
  BY DEF NoneRevived, AsWished

-----------------------------------------------------------------------------
(* Steps that bring nothing new under way *)

\* A vote that is abandoned, or answered without success.
Unheard(s) == /\ req[s].pc = "sent"
              /\ \/ req'[s].nominee = req[s].nominee
                 \/ req'[s].pc = "served" /\ req'[s].nominee = None
              /\ req'[s].sub \in {None, req[s].sub}
              /\ req'[s].pc = "served" => req'[s].status # 200

Gone(s) == req'[s].pc = "idle" /\ req'[s].sub = None

LEMMA KeptStep ==
    ASSUME PInv, NoneRevived, ballot' = ballot, seen' = seen,
           page'.pending \in {None, page.pending},
           \A s \in Slots : req'[s] = req[s] \/ Unheard(s) \/ Gone(s)
    PROVE  HoldersSpent' /\ Agreed'
  <1>1. HoldersSpent'
    BY DEF PInv, HoldersSpent, NoneRevived, Unheard, Gone
  <1>2. \A id \in spent \cup {None} : AsWished(id) => AsWished(id)'
    BY WishKept
  <1>3. AsWished(seen.told)'
    BY <1>2 DEF PInv, Agreed, HoldersSpent, AsWished, Authorised
  <1>4. ASSUME NEW s \in Slots
        PROVE  /\ req'[s].pc = "sent" => req'[s].nominee \in seen.latest
               /\ req'[s].pc = "served" => req'[s].nominee \in {None} \cup seen.latest
               /\ req'[s].pc = "served" /\ req'[s].status = 200 => AsWished(req[s].sub)'
    <2>1. CASE req'[s] = req[s]
      BY <1>2, <1>4, <2>1 DEF PInv, Agreed, HoldersSpent, AsWished, Authorised
    <2>2. CASE Unheard(s) \/ Gone(s)
      BY <1>4, <2>2 DEF PInv, Agreed, Unheard, Gone
    <2> QED
      BY <2>1, <2>2
  <1> QED
    BY <1>1, <1>3, <1>4 DEF PInv, Agreed

LEMMA SessionStep ==
    ASSUME PInv, NoneRevived, UNCHANGED <<serverVars, page, req, seen>>
    PROVE  Typed' /\ HoldersSpent' /\ Agreed'
  <1>1. Typed'
    BY DEF PInv, Typed, serverVars
  <1>2. seen \in Seen
    BY DEF PInv, Typed
  <1> QED
    BY <1>1, <1>2, KeptStep DEF serverVars
-----------------------------------------------------------------------------
(* The page *)

\* A page is typed when what its script keeps is.
LEMMA PageTyped ==
    ASSUME page \in Page, NEW n \in Choice
    PROVE  /\ [page EXCEPT !.pending = n] \in Page
           /\ [page EXCEPT !.timer = n] \in Page
           /\ [page EXCEPT !.asking = None, !.timer = n] \in Page
           /\ [page EXCEPT !.pending = n, !.asking = n] \in Page
           /\ [page EXCEPT !.reload = TRUE, !.pending = n] \in Page
  <1>1. None \in Choice
    BY NoneHolds
  <1> QED
    BY <1>1 DEF Page

LEMMA LoadKeeps == ASSUME PInv, NoneRevived, Load PROVE Typed' /\ HoldersSpent' /\ Agreed'
  <1>1. page \in Page /\ ballot \in [Ids -> Choice] /\ seen \in Seen
    BY DEF PInv, Typed
  <1>2. page' \in Page /\ page'.pending = page.pending
    <2>1. ASSUME NEW mark \in Choice,
                 page' = [page EXCEPT !.at = "ready", !.disabled = {mark} \ {None}]
          PROVE  page' \in Page /\ page'.pending = page.pending
      <3>1. {mark} \ {None} \in SUBSET Nominees
        BY <2>1 DEF Choice
      <3> QED
        BY <1>1, <2>1, <3>1 DEF Page
    <2>2. CASE page' = [page EXCEPT !.at = "empty"]
      BY <1>1, <2>2 DEF Page
    <2>3. {ballot[id] : id \in {i \in Ids : i = jar.sub /\ Authorised(i)}} \cup {None} \subseteq Choice
      BY <1>1, NoneHolds
    <2> QED
      BY <2>1, <2>2, <2>3 DEF Load
  <1>3. Typed'
    BY <1>2 DEF PInv, Typed, Load, serverVars
  <1> QED
    BY <1>1, <1>2, <1>3, KeptStep DEF Load, serverVars

LEMMA NewPageTyped == NewPage \in Page
  BY NoneHolds DEF Page, NewPage

LEMMA LeftKeeps == ASSUME PInv, Left PROVE Typed' /\ HoldersSpent' /\ Agreed'
  <1> DEFINE left == {req[s].nominee : s \in {t \in Slots : Stray(t) # NoVote}}
  <1>1. \A s \in Slots : req'[s] = Stray(s)
    BY DEF Left
  <1>2. req' \in [Slots -> Vote]
    BY StrayTyped DEF Left, PInv
  <1>3. \A s \in Slots : Stray(s) # NoVote => req[s].pc = "sent" /\ req[s].nominee \in Nominees
    BY DEF Stray, PInv, Typed, Seen, Agreed
  <1>4. seen' \in Seen /\ seen'.told = None /\ seen'.latest = left
    BY <1>3, NoneHolds DEF Left, NewSeen, Seen
  <1>5. Typed'
    BY <1>2, <1>4, NewPageTyped DEF Left, PInv, Typed, serverVars
  <1>6. HoldersSpent'
    BY <1>1, <1>4, StrayTyped DEF Left, PInv, HoldersSpent
  <1>7. AsWished(seen.told)'
    BY <1>4, NoneIsNobody DEF Left, AsWished, Authorised
  <1>8. ASSUME NEW s \in Slots
        PROVE  /\ req'[s].pc # "served"
               /\ req'[s].pc = "sent" => req'[s].nominee \in left
    <2>1. CASE Stray(s) = NoVote
      BY <1>1, <2>1 DEF NoVote
    <2>2. CASE Stray(s) # NoVote
      BY <1>1, <2>2, StrayTyped DEF NoVote, PInv
    <2> QED
      BY <2>1, <2>2
  <1>9. page'.pending = None
    BY DEF Left, NewPage
  <1> QED
    BY <1>4, <1>5, <1>6, <1>7, <1>8, <1>9 DEF Agreed

LEMMA DialogKeeps == ASSUME PInv, NoneRevived, HearSignIn \/ Cancel
                     PROVE  Typed' /\ HoldersSpent' /\ Agreed'
  <1>1. page \in Page /\ seen \in Seen
    BY DEF PInv, Typed
  <1>2. page' \in Page /\ page'.pending = page.pending
    <2>1. CASE HearSignIn
      <3>1. page.pending \in Choice
        BY <1>1 DEF Page
      <3>2. [page EXCEPT !.asking = None, !.timer = page.pending] \in Page
        BY <1>1, <3>1, PageTyped
      <3> QED
        BY <1>1, <2>1, <3>2 DEF HearSignIn, Page
    <2>2. CASE Cancel
      <3>1. page.disabled \ {page.asking} \in SUBSET Nominees
        BY <1>1 DEF Page
      <3> QED
        BY <1>1, <2>2, <3>1, NoneHolds DEF Cancel, Page
    <2> QED
      BY <2>1, <2>2
  <1>3. UNCHANGED <<serverVars, req, seen>>
    BY DEF HearSignIn, Cancel
  <1>4. Typed'
    BY <1>2, <1>3 DEF PInv, Typed, serverVars
  <1> QED
    BY <1>1, <1>2, <1>3, <1>4, KeptStep DEF serverVars

-----------------------------------------------------------------------------
(* Votes that are sent *)

LEMMA SendTyped ==
    ASSUME PInv, NEW s \in Slots, NEW n \in Nominees, SendVote(s, n)
    PROVE  /\ req' \in [Slots -> Vote]
           /\ \A t \in Slots : t # s => req'[t] = req[t]
           /\ req'[s].pc = "sent" /\ req'[s].nominee = n /\ req'[s].sub \in spent \cup {None}
  <1>1. Voter \in Holder
    BY NoneHolds DEF Voter, PInv, SInv, SessionTypeOK, Holder
  <1>2. Voter \in spent \cup {None}
    BY DEF Voter, PInv, SInv, IdsSpent
  <1> DEFINE v == [pc |-> "sent", nominee |-> n, sub |-> Voter,
                   status |-> 0, heard |-> TRUE]
  <1>3. v \in Vote
    BY <1>1 DEF Vote, Pcs, Statuses, Choice
  <1>4. v.pc = "sent" /\ v.nominee = n /\ v.sub = Voter
    OBVIOUS
  <1>5. req' = [req EXCEPT ![s] = v] /\ req \in [Slots -> Vote]
    BY DEF SendVote, PInv, Typed
  <1> HIDE DEF v
  <1> QED
    BY <1>2, <1>3, <1>4, <1>5

LEMMA RememberedTyped == ASSUME page \in Page, NEW n \in Nominees
                         PROVE  /\ Remembered(n) \in Page
                                /\ Remembered(n).pending = n
                                /\ [Remembered(n) EXCEPT !.timer = None] \in Page
                                /\ [Remembered(n) EXCEPT !.timer = None].pending = n
  <1>1. page.disabled \cup {n} \in SUBSET Nominees
    BY DEF Page
  <1>2. None \in Choice /\ n \in Choice
    BY DEF Choice
  <1>3. Remembered(n) \in Page /\ Remembered(n).pending = n
    BY <1>1, <1>2 DEF Remembered, Page
  <1> QED
    BY <1>2, <1>3 DEF Page

\* A click finds nothing under way, or adds to what is under way.
LEMMA ClickKeeps == ASSUME PInv, NEW n \in Nominees, Click(n)
                    PROVE  Typed' /\ HoldersSpent' /\ Agreed'
  <1>1. PICK s \in Slots : SendVote(s, n)
    BY DEF Click
  <1>2. /\ req' \in [Slots -> Vote]
        /\ \A t \in Slots : t # s => req'[t] = req[t]
        /\ req'[s].pc = "sent" /\ req'[s].nominee = n /\ req'[s].sub \in spent \cup {None}
    BY <1>1, SendTyped
  <1>3. page' \in Page /\ page'.pending = n
    BY RememberedTyped DEF Click, PInv, Typed
  <1>4. UNCHANGED <<accounts, spent, closed, ballot>>
    BY DEF Click, sessionVars, serverVars
  <1>5. /\ seen.latest \in SUBSET Nominees
        /\ seen'.latest = {n} \cup IF OnTheWay = {} THEN {} ELSE seen.latest
        /\ seen'.told = None
        /\ seen' \in Seen
    BY NoneHolds DEF Click, NewSeen, Seen, PInv, Typed
  <1>6. Typed' /\ HoldersSpent'
    BY <1>2, <1>3, <1>4, <1>5 DEF PInv, Typed, HoldersSpent
  <1>7. AsWished(seen.told)'
    BY <1>4, <1>5, NoneIsNobody DEF AsWished, Authorised
  <1>8. ASSUME NEW t \in Slots
        PROVE  /\ req'[t].pc = "sent" => req'[t].nominee \in seen'.latest
               /\ req'[t].pc = "served" => req'[t].nominee \in {None} \cup seen'.latest
               /\ req'[t].pc = "served" /\ req'[t].status = 200 => AsWished(req[t].sub)'
    <2>1. CASE t = s
      BY <1>2, <1>5, <2>1
    <2>2. CASE t # s /\ req[t].pc # "idle"
      <3>1. seen.latest \subseteq seen'.latest /\ req'[t] = req[t]
        BY <1>2, <1>5, <2>2 DEF OnTheWay
      <3>2. AsWished(req[t].sub) => AsWished(req[t].sub)'
        BY <1>4, <3>1 DEF AsWished, Authorised
      <3> QED
        BY <3>1, <3>2 DEF PInv, Agreed
    <2>3. CASE t # s /\ req[t].pc = "idle"
      BY <1>2, <2>3
    <2> QED
      BY <2>1, <2>2, <2>3
  <1> QED
    BY <1>2, <1>3, <1>5, <1>6, <1>7, <1>8 DEF Agreed, AsWished, Authorised

\* What pends was clicked latest.
LEMMA RetryKeeps == ASSUME PInv, NoneRevived, Retry PROVE Typed' /\ HoldersSpent' /\ Agreed'
  <1>1. page \in Page /\ seen \in Seen
    BY DEF PInv, Typed
  <1>2. UNCHANGED <<accounts, spent, closed, ballot, seen>>
    BY DEF Retry, sessionVars, serverVars
  <1>3. CASE page' = [page EXCEPT !.timer = None] /\ UNCHANGED req
    <2>1. page' \in Page /\ page'.pending = page.pending
      BY <1>1, <1>3, NoneHolds, PageTyped DEF Page
    <2>2. Typed'
      BY <1>2, <1>3, <2>1 DEF PInv, Typed
    <2> QED
      BY <1>1, <1>2, <1>3, <2>1, <2>2, KeptStep
  <1>4. ASSUME NEW s \in Slots, page.pending # None, SendVote(s, page.pending),
               page' = [Remembered(page.pending) EXCEPT !.timer = None]
        PROVE  Typed' /\ HoldersSpent' /\ Agreed'
    <2>1. page.pending \in Nominees
      BY <1>1, <1>4 DEF Page, Choice
    <2>2. /\ req' \in [Slots -> Vote]
          /\ \A t \in Slots : t # s => req'[t] = req[t]
          /\ req'[s].pc = "sent" /\ req'[s].nominee = page.pending
          /\ req'[s].sub \in spent \cup {None}
      BY <1>4, <2>1, SendTyped
    <2>3. page' \in Page /\ page'.pending = page.pending
      BY <1>1, <1>4, <2>1, RememberedTyped
    <2>4. Typed' /\ HoldersSpent'
      BY <1>2, <2>2, <2>3 DEF PInv, Typed, HoldersSpent
    <2>5. ASSUME NEW t \in Slots
          PROVE  /\ req'[t].pc = "sent" => req'[t].nominee \in seen.latest
                 /\ req'[t].pc = "served" => req'[t].nominee \in {None} \cup seen.latest
                 /\ req'[t].pc = "served" /\ req'[t].status = 200 => AsWished(req[t].sub)'
      <3>1. CASE t = s
        BY <1>4, <2>2, <3>1 DEF PInv, Agreed
      <3>2. CASE t # s
        BY <1>2, <2>2, <3>2 DEF PInv, Agreed, AsWished, Authorised
      <3> QED
        BY <3>1, <3>2
    <2>6. Agreed'
      BY <1>2, <2>2, <2>3, <2>5 DEF PInv, Agreed, AsWished, Authorised
    <2> QED
      BY <2>4, <2>6
  <1> QED
    BY <1>3, <1>4 DEF Retry, WhatPends, Something

-----------------------------------------------------------------------------
(* Answers that arrive, or do not *)

\* The word of success that is told was, on its way, about the latest clicks.
LEMMA HearKeepsVotes == ASSUME PInv, NoneRevived, NEW s \in Slots, Hear(s)
                        PROVE  Typed' /\ HoldersSpent' /\ Agreed'
  <1>1. page \in Page /\ seen \in Seen /\ req[s] \in Vote /\ req[s].pc = "served"
    BY DEF PInv, Typed, Hear
  <1>2. req[s].nominee \in Choice /\ req[s].sub \in Holder /\ None \in Holder
    BY <1>1, NoneHolds DEF Vote
  <1>3. req' = [req EXCEPT ![s] = NoVote] /\ req \in [Slots -> Vote]
    BY DEF Hear, PInv, Typed
  <1>4. /\ req' \in [Slots -> Vote]
        /\ \A t \in Slots : req'[t] = req[t] \/ Gone(t)
        /\ req'[s].pc = "idle" /\ req'[s].sub = None
        /\ \A t \in Slots : t # s => req'[t] = req[t]
    BY <1>3, NoVoteTyped DEF Gone, NoVote
  <1>5. UNCHANGED <<accounts, spent, closed, ballot>>
    BY DEF Hear, sessionVars, serverVars
  <1>6. CASE req[s].status = 200
    <2>1. page' = [page EXCEPT !.reload = TRUE, !.pending = None]
      BY <1>6 DEF Hear
    <2>2. page' \in Page /\ page'.pending = None
      BY <1>1, <2>1, NoneHolds, PageTyped DEF Page
    <2>3. /\ seen' \in Seen /\ seen'.latest = seen.latest
          /\ seen'.told = req[s].sub
      BY <1>1, <1>2, <1>6 DEF Hear, Seen
    <2>4. Typed' /\ HoldersSpent'
      BY <1>4, <1>5, <2>2, <2>3 DEF PInv, Typed, HoldersSpent
    <2>5. AsWished(seen.told)'
      BY <1>1, <1>5, <1>6, <2>3 DEF PInv, Agreed, AsWished, Authorised
    <2>6. ASSUME NEW t \in Slots, t # s
          PROVE  req'[t].pc = "served" /\ req'[t].status = 200 => AsWished(req[t].sub)'
      BY <1>4, <1>5, <2>3, <2>6 DEF PInv, Agreed, AsWished, Authorised
    <2> QED
      BY <1>4, <2>2, <2>3, <2>4, <2>5, <2>6 DEF PInv, Agreed, AsWished, Authorised
  <1>7. CASE req[s].status = 403
    <2>1. page' = [page EXCEPT !.pending = req[s].nominee, !.asking = req[s].nominee]
          /\ seen' = seen
      BY <1>7 DEF Hear, Refused
    <2>2. page' \in Page /\ page'.pending = req[s].nominee
      BY <1>1, <1>2, <2>1, PageTyped DEF Page
    <2>3. Typed' /\ HoldersSpent'
      BY <1>4, <1>5, <2>1, <2>2 DEF PInv, Typed, HoldersSpent
    <2>4. page'.pending \in {None} \cup seen.latest
      BY <1>1, <2>2 DEF PInv, Agreed
    <2>5. AsWished(seen.told)'
      BY <1>5, <2>1 DEF PInv, Agreed, AsWished, Authorised
    <2>6. ASSUME NEW t \in Slots, t # s
          PROVE  req'[t].pc = "served" /\ req'[t].status = 200 => AsWished(req[t].sub)'
      BY <1>4, <1>5, <2>1, <2>6 DEF PInv, Agreed, AsWished, Authorised
    <2> QED
      BY <1>4, <2>1, <2>3, <2>4, <2>5, <2>6 DEF PInv, Agreed, AsWished, Authorised
  <1>8. CASE req[s].status # 200 /\ req[s].status # 403
    <2>1. page' = [page EXCEPT !.pending = None] /\ seen' = seen
      BY <1>8 DEF Hear
    <2>2. page' \in Page /\ page'.pending = None
      BY <1>1, <2>1, NoneHolds, PageTyped DEF Page
    <2>3. Typed'
      BY <1>4, <1>5, <2>1, <2>2 DEF PInv, Typed
    <2> QED
      BY <1>4, <1>5, <2>1, <2>2, <2>3, KeptStep
  <1> QED
    BY <1>6, <1>7, <1>8

LEMMA LoseKeeps == ASSUME PInv, NoneRevived, NEW s \in Slots, LoseVote(s)
                   PROVE  Typed' /\ HoldersSpent' /\ Agreed'
  <1>1. page \in Page /\ seen \in Seen /\ req \in [Slots -> Vote]
    BY DEF PInv, Typed
  <1>2. PICK left \in {NoVote, Stray(s)} : req' = [req EXCEPT ![s] = left]
    BY DEF LoseVote
  <1>3. /\ left \in Vote /\ left.sub \in {None, req[s].sub}
        /\ \/ left.pc = "idle" /\ left.sub = None
           \/ left.pc = "sent" /\ req[s].pc = "sent" /\ left.nominee = req[s].nominee
    <2>1. CASE left = NoVote
      BY <2>1, NoVoteTyped DEF NoVote
    <2>2. CASE left = Stray(s)
      <3>1. Stray(s) = NoVote \/ (req[s].pc = "sent" /\ Stray(s) = [req[s] EXCEPT !.heard = FALSE])
        BY DEF Stray
      <3>2. CASE Stray(s) = NoVote
        BY <2>1, <2>2, <3>2, NoVoteTyped DEF NoVote
      <3>3. CASE req[s].pc = "sent" /\ Stray(s) = [req[s] EXCEPT !.heard = FALSE]
        <4>1. req[s] \in Vote
          BY <1>1
        <4> QED
          BY <2>2, <3>3, <4>1 DEF Vote
      <3> QED
        BY <3>1, <3>2, <3>3
    <2> QED
      BY <1>2, <2>1, <2>2
  <1>5. req' \in [Slots -> Vote] /\ \A t \in Slots : req'[t] = req[t] \/ Unheard(t) \/ Gone(t)
    BY <1>1, <1>2, <1>3 DEF Unheard, Gone
  <1>6. page' \in Page /\ page'.pending = None
    BY <1>1, NoneHolds, PageTyped DEF LoseVote, Page
  <1>7. Typed'
    BY <1>5, <1>6 DEF LoseVote, PInv, Typed, serverVars
  <1> QED
    BY <1>5, <1>6, <1>7, KeptStep DEF LoseVote, serverVars

-----------------------------------------------------------------------------
(* The server *)

LEMMA AnswerTypedVote ==
    ASSUME PInv, NEW s \in Slots, NEW status \in Statuses, req[s].pc = "sent", AnswerVote(s, status)
    PROVE  /\ req' \in [Slots -> Vote]
           /\ \A t \in Slots : t # s => req'[t] = req[t]
           /\ \/ Gone(s)
              \/ /\ req'[s].pc = "served"
                 /\ req'[s].nominee = IF status = 403 THEN req[s].nominee ELSE None
                 /\ req'[s].status = status
                 /\ req'[s].sub = IF status = 200 THEN req[s].sub ELSE None
  <1>1. req \in [Slots -> Vote] /\ req[s] \in Vote
    BY DEF PInv, Typed
  <1>2. CASE ~req[s].heard
    <2>1. req' = [req EXCEPT ![s] = NoVote]
      BY <1>2 DEF AnswerVote
    <2> QED
      BY <1>1, <2>1, NoVoteTyped DEF Gone, NoVote
  <1>3. CASE req[s].heard
    <2> DEFINE sub == IF status = 200 THEN req[s].sub ELSE None
               nominee == IF status = 403 THEN req[s].nominee ELSE None
               v   == [req[s] EXCEPT !.pc = "served", !.status = status,
                                     !.nominee = nominee, !.sub = sub]
    <2>0. req' = [req EXCEPT ![s] = IF ~req[s].heard THEN NoVote ELSE v]
      BY DEF AnswerVote
    <2>1. req' = [req EXCEPT ![s] = v]
      BY <1>3, <2>0
    <2>2. sub \in Holder /\ nominee \in Choice
      BY <1>1, NoneHolds DEF Vote
    <2> HIDE DEF sub, nominee
    <2>3. /\ v \in Vote /\ v.pc = "served" /\ v.nominee = nominee
          /\ v.status = status /\ v.sub = sub
      BY <1>1, <2>2 DEF Vote, Pcs
    <2> HIDE DEF v
    <2> QED
      BY <1>1, <2>1, <2>3 DEF sub, nominee
  <1> QED
    BY <1>2, <1>3

LEMMA RefuseKeeps ==
    ASSUME PInv, NoneRevived, NEW s \in Slots, NEW status \in {403, 500},
           req[s].pc = "sent", AnswerVote(s, status),
           UNCHANGED <<ballot, closed, page, seen>>
    PROVE  Typed' /\ HoldersSpent' /\ Agreed'
  <1>1. status \in Statuses /\ status # 200
    BY DEF Statuses
  <1>2. /\ req' \in [Slots -> Vote]
        /\ \A t \in Slots : req'[t] = req[t] \/ Unheard(t) \/ Gone(t)
    BY <1>1, AnswerTypedVote DEF Unheard
  <1>3. Typed'
    BY <1>2 DEF PInv, Typed
  <1> QED
    BY <1>2, <1>3, KeptStep

\* A vote that is cast is for one of the latest clicks.
LEMMA CastKeeps ==
    ASSUME PInv, NEW s \in Slots, NEW status \in {200, 500},
           req[s].pc = "sent", AnswerVote(s, status), Authorised(req[s].sub), Cast(s),
           UNCHANGED <<accounts, spent, closed, page, seen>>
    PROVE  Typed' /\ HoldersSpent' /\ Agreed'
  <1>1. status \in Statuses
    BY DEF Statuses
  <1>2. /\ req' \in [Slots -> Vote]
        /\ \A t \in Slots : t # s => req'[t] = req[t]
        /\ \/ Gone(s)
           \/ /\ req'[s].pc = "served"
              /\ req'[s].nominee \in {None, req[s].nominee}
              /\ req'[s].sub \in {None, req[s].sub}
    BY <1>1, AnswerTypedVote
  <1>3. req[s].sub \in Ids /\ req[s].nominee \in Choice
    BY DEF PInv, SInv, SessionTypeOK, Account, Authorised, Typed, Vote
  <1>4. /\ ballot' \in [Ids -> Choice]
        /\ \A id \in Ids : ballot'[id] = IF id = req[s].sub THEN req[s].nominee ELSE ballot[id]
    BY <1>3 DEF Cast, PInv, Typed
  <1>5. Typed' /\ HoldersSpent'
    BY <1>2, <1>4 DEF PInv, Typed, HoldersSpent, Gone
  <1>6. req[s].nominee \in seen.latest
    BY DEF PInv, Agreed
  <1>7. \A id : Authorised(id) => id \in Ids
    BY DEF Authorised, PInv, SInv, SessionTypeOK, Account
  <1>8. \A id : AsWished(id) => (Authorised(id) => ballot'[id] \in seen.latest)
    BY <1>4, <1>6, <1>7 DEF AsWished
  <1>9. AsWished(seen.told)'
    BY <1>8 DEF PInv, Agreed, AsWished, Authorised
  <1>10. ASSUME NEW t \in Slots
         PROVE  /\ req'[t].pc = "sent" => req'[t].nominee \in seen.latest
                /\ req'[t].pc = "served" => req'[t].nominee \in {None} \cup seen.latest
                /\ req'[t].pc = "served" /\ req'[t].status = 200 => AsWished(req[t].sub)'
    <2>1. CASE t = s
      <3>1. req'[s].sub = req[s].sub => ballot'[req'[s].sub] \in seen.latest
        BY <1>3, <1>4, <1>6
      <3> QED
        BY <1>2, <1>6, <2>1, <3>1, NoneIsNobody DEF Gone, AsWished, Authorised
    <2>2. CASE t # s
      BY <1>2, <1>8, <2>2 DEF PInv, Agreed, AsWished, Authorised
    <2> QED
      BY <2>1, <2>2
  <1>11. Agreed'
    BY <1>9, <1>10 DEF PInv, Agreed
  <1> QED
    BY <1>5, <1>11

LEMMA ServeKeeps == ASSUME PInv, NoneRevived, NEW s \in Slots, ServeVote(s) \/ VoteFails(s)
                    PROVE  Typed' /\ HoldersSpent' /\ Agreed'
  <1>1. req[s].pc = "sent" /\ UNCHANGED <<accounts, spent, closed, page, seen>>
    BY DEF ServeVote, VoteFails, sessionVars
  <1>2. \/ \E status \in {403, 500} : AnswerVote(s, status) /\ UNCHANGED ballot
        \/ \E status \in {200, 500} : Authorised(req[s].sub) /\ AnswerVote(s, status) /\ Cast(s)
    BY DEF ServeVote, VoteFails, Admitted
  <1> QED
    BY <1>1, <1>2, RefuseKeeps, CastKeeps

\* The ballot goes with the account, about which nothing is claimed then.
LEMMA ResetKeeps == ASSUME PInv, NEW id \in Ids, ResetAccount(id)
                    PROVE  Typed' /\ HoldersSpent' /\ Agreed'
  <1>1. UNCHANGED <<spent, closed, page, req, seen>>
    BY DEF ResetAccount, DeleteAccount
  <1>2. /\ ballot' \in [Ids -> Choice]
        /\ \A i \in Ids \ {id} : ballot'[i] = ballot[i]
    BY NoneHolds DEF ResetAccount, PInv, Typed
  <1>3. \A a \in accounts' : a \in accounts /\ a.id \in Ids \ {id}
    BY DEF ResetAccount, DeleteAccount, PInv, SInv, SessionTypeOK, Account
  <1>4. \A i : AsWished(i) => ((\E a \in accounts' : a.id = i) => ballot'[i] \in seen.latest)
    BY <1>2, <1>3 DEF AsWished, Authorised
  <1>5. Typed' /\ HoldersSpent'
    BY <1>1, <1>2 DEF PInv, Typed, HoldersSpent
  <1>6. Agreed'
    BY <1>1, <1>4 DEF PInv, Agreed, AsWished, Authorised
  <1> QED
    BY <1>5, <1>6

LEMMA DeadlineKeeps == ASSUME PInv, NoneRevived, PassDeadline PROVE Typed' /\ HoldersSpent' /\ Agreed'
  <1>1. Typed'
    BY DEF PassDeadline, PInv, Typed
  <1> QED
    BY <1>1, KeptStep DEF PassDeadline

-----------------------------------------------------------------------------
LEMMA PageInitHolds == Init => PInv
  <1> SUFFICES ASSUME Init PROVE PInv
    OBVIOUS
  <1>1. SInv
    BY InitHolds
  <1>2. Typed
    <2>1. seen \in Seen
      BY NoneHolds DEF Init, NewSeen, Seen
    <2> QED
      BY <2>1, NoneHolds, NoVoteTyped, NewPageTyped DEF Init, Typed
  <1>3. ~\E a \in accounts : a.id = None
    BY DEF Init, SessionInit
  <1>4. HoldersSpent /\ Agreed
    BY <1>3 DEF Init, NewSeen, NewPage, NoVote, HoldersSpent, Agreed, AsWished, Authorised
  <1> QED
    BY <1>1, <1>2, <1>4 DEF PInv

LEMMA PageNextKeeps == ASSUME PInv, [Next]_vars PROVE PInv'
  <1>1. SInv' /\ NoneRevived
    BY NextKeeps, NeverRevived DEF PInv
  <1>2. CASE UNCHANGED <<serverVars, page, req, seen>>
    BY <1>1, <1>2, SessionStep DEF PInv
  <1>3. CASE User
    <2>1. CASE SignIn \/ Mistake
      BY <1>2, <2>1 DEF SignIn, Mistake, SubmitForm
    <2> QED
      BY <1>1, <1>3, <2>1, ClickKeeps, DialogKeeps, LeftKeeps DEF User, UserReloads, PInv
  <1>4. CASE Browser
    BY <1>1, <1>4, LoadKeeps, LeftKeeps, RetryKeeps, DialogKeeps, HearKeepsVotes
    DEF Browser, Reload, PInv
  <1>5. CASE Server
    BY <1>1, <1>2, <1>5, ServeKeeps DEF Server, PInv
  <1>6. CASE Trouble
    <2>1. CASE \E s \in Slots : LoseVote(s) \/ VoteFails(s)
      BY <1>1, <2>1, LoseKeeps, ServeKeeps DEF PInv
    <2>2. CASE \E id \in Ids : ResetAccount(id)
      BY <1>1, <2>2, ResetKeeps DEF PInv
    <2>3. CASE PassDeadline
      BY <1>1, <2>3, DeadlineKeeps DEF PInv
    <2> QED
      BY <1>2, <1>6, <2>1, <2>2, <2>3 DEF Trouble
  <1> QED
    BY <1>2, <1>3, <1>4, <1>5, <1>6 DEF Next, vars, serverVars

THEOREM PageInvariant == Spec => []PInv
  BY PageInitHolds, PageNextKeeps, PTL DEF Spec

\* What the page keeps, sends and is told has its type.
THEOREM PageTypeCorrect == Spec => []TypeOK
  <1>1. PInv => TypeOK
    BY TypeSplits DEF PInv, SInv
  <1> QED
    BY <1>1, PageInvariant, PTL

\* However many votes are in flight, lost, refused, retried after a sign-in or cast
\* late, an account for which the page reported success since the last click has the
\* vote that was clicked last, or one of those that overlapped with it.
THEOREM LastClickAlwaysWins == Spec => []LastClickWins
  <1>1. ASSUME PInv PROVE LastClickWins
    BY <1>1 DEF PInv, Agreed, AsWished, LastClickWins
  <1> QED
    BY <1>1, PageInvariant, PTL
=============================================================================
