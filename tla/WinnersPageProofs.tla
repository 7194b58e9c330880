------------------------- MODULE WinnersPageProofs -------------------------
(***************************************************************************)
(* Whom the buttons of the winners page can remove, when its cards show    *)
(* the table, and what the lists of nominees show, for any number of rows, *)
(* winners and requests in flight.                                         *)
(***************************************************************************)
EXTENDS WinnersPage, SequenceTheorems, WellFoundedInduction, TLAPS

\* The records of the page have the fields that they begin with.
Shaped ==
    /\ page = [at |-> page.at, got |-> page.got, winners |-> page.winners, shown |-> page.shown]
    /\ req = [s \in Slots |-> [pc |-> req[s].pc, op |-> req[s].op, row |-> req[s].row,
                               ok |-> req[s].ok, heard |-> req[s].heard]]
    /\ seen = [doubted |-> seen.doubted, told |-> seen.told]

\* An id the administrator was shown, or one that no winner has or will ever have.
Known(id) == \/ id \in seen.told
             \/ id \in issued /\ \A w \in winners : w.id # id

\* Ids that were told are of rows that were written.
IdsIssued == /\ issued \subseteq WinnerIds
             /\ seen.told \subseteq issued
             /\ \A w \in winners : w.id \in issued

PageTold == \A w \in page.winners : w.id \in seen.told

RemovalsKnown == \A s \in Slots : req[s].pc = "sent" /\ req[s].op = "remove" => Known(req[s].row.id)

AnswersIssued == \A s \in Slots : req[s].pc = "served" /\ req[s].ok /\ req[s].op = "select"
                                     => req[s].row.id \in issued

PInv == Shaped /\ IdsIssued /\ PageTold /\ RemovalsKnown /\ AnswersIssued

-----------------------------------------------------------------------------
(* The table of winners *)

\* What every step does to winners: it takes rows away, or adds one with a new id.
GoodChange == /\ issued \subseteq issued' /\ issued' \subseteq WinnerIds
              /\ \A w \in winners' : w.id \in issued' /\ (w \in winners \/ w.id \notin issued)

LEMMA InsertIsGood == ASSUME IdsIssued, NEW n, Insert(n)
                      PROVE  GoodChange /\ NewId \in issued' /\ winners \subseteq winners'
  <1> DEFINE new == [id |-> NewId, nominee |-> n]
  <1>1. issued' = issued \cup {NewId} /\ winners' = winners \cup {new} /\ new.id = NewId
    BY DEF Insert
  <1>2. \E id \in WinnerIds : id \notin issued
    BY DEF Insert, IdsIssued
  <1>3. NewId \in WinnerIds /\ NewId \notin issued
    BY <1>2 DEF NewId
  <1> HIDE DEF new
  <1> QED
    BY <1>1, <1>3 DEF IdsIssued, GoodChange

LEMMA FewerIsGood == ASSUME IdsIssued, winners' \subseteq winners, issued' = issued
                     PROVE  GoodChange
  BY DEF IdsIssued, GoodChange

\* What is known of an id after the step.
StillKnown(id) == \/ id \in seen'.told
                  \/ id \in issued' /\ \A w \in winners' : w.id # id

\* What was known of an id stays known.
LEMMA KnownStays == ASSUME GoodChange, seen'.told = seen.told
                    PROVE  \A id : Known(id) => StillKnown(id)
  BY DEF GoodChange, Known, StillKnown

LEMMA IssuedStays == ASSUME IdsIssued, GoodChange, seen'.told = seen.told
                     PROVE  IdsIssued'
  BY DEF IdsIssued, GoodChange

-----------------------------------------------------------------------------
(* Steps that leave the page and what it was told alone *)

ShapedSeen == seen' = [doubted |-> seen'.doubted, told |-> seen'.told]

\* A step of others.
LEMMA OthersKeep == ASSUME PInv, GoodChange, UNCHANGED <<page, req>>,
                           seen'.told = seen.told, ShapedSeen
                    PROVE  PInv'
  <1>1. IdsIssued'
    BY IssuedStays DEF PInv
  <1>2. RemovalsKnown'
    BY KnownStays DEF PInv, RemovalsKnown, Known, StillKnown
  <1> QED
    BY <1>1, <1>2 DEF PInv, Shaped, ShapedSeen, PageTold, AnswersIssued, GoodChange

\* A step of one request.
LEMMA RequestKeeps ==
    ASSUME PInv, GoodChange, UNCHANGED page, seen'.told = seen.told, ShapedSeen,
           NEW s \in Slots, NEW r, req' = [req EXCEPT ![s] = r],
           r = [pc |-> r.pc, op |-> r.op, row |-> r.row, ok |-> r.ok, heard |-> r.heard],
           r.pc = "sent" /\ r.op = "remove" => StillKnown(r.row.id),
           r.pc = "served" /\ r.ok /\ r.op = "select" => r.row.id \in issued'
    PROVE  PInv'
  <1>1. IdsIssued'
    BY IssuedStays DEF PInv
  <1>2. DOMAIN req = Slots
    BY DEF PInv, Shaped
  <1>3. \A t \in Slots : req'[t] = IF t = s THEN r ELSE req[t]
    BY <1>2
  <1>4. RemovalsKnown'
    <2>1. ASSUME NEW t \in Slots, req'[t].pc = "sent", req'[t].op = "remove"
          PROVE  StillKnown(req'[t].row.id)
      <3>1. CASE t = s
        BY <1>3, <2>1, <3>1
      <3>2. CASE t # s
        BY <1>3, <2>1, <3>2, KnownStays DEF PInv, RemovalsKnown
      <3> QED
        BY <3>1, <3>2
    <2> QED
      BY <2>1 DEF RemovalsKnown, Known, StillKnown
  <1>5. AnswersIssued'
    BY <1>3 DEF PInv, AnswersIssued, GoodChange
  <1>6. Shaped'
    BY <1>2, <1>3 DEF PInv, Shaped, ShapedSeen
  <1> QED
    BY <1>1, <1>4, <1>5, <1>6 DEF PInv, PageTold

-----------------------------------------------------------------------------
(* The page *)

LEMMA SentKeeps == ASSUME PInv, NEW s \in Slots, NEW op, NEW row, Request(s, op, row),
                          op = "remove" => row \in page.winners
                   PROVE  PInv'
  <1> DEFINE r == [pc |-> "sent", op |-> op, row |-> row, ok |-> FALSE, heard |-> TRUE]
  <1>1. req' = [req EXCEPT ![s] = r] /\ UNCHANGED <<winners, issued, page, seen>>
    BY DEF Request
  <1>2. GoodChange /\ ShapedSeen
    BY <1>1, FewerIsGood DEF PInv, Shaped, ShapedSeen
  <1>3. op = "remove" => StillKnown(row.id)
    BY <1>1 DEF PInv, PageTold, StillKnown
  <1>4. /\ r = [pc |-> r.pc, op |-> r.op, row |-> r.row, ok |-> r.ok, heard |-> r.heard]
        /\ r.pc = "sent" /\ r.op = op /\ r.row = row
    OBVIOUS
  <1> HIDE DEF r
  <1> QED
    BY <1>1, <1>2, <1>3, <1>4, RequestKeeps

LEMMA SendKeeps == ASSUME PInv, NEW s \in Slots, SelectWinner(s) \/ RemoveWinner(s)
                   PROVE  PInv'
  <1>1. CASE SelectWinner(s)
    <2>1. PICK n \in page.shown : Request(s, "select", [NoRow EXCEPT !.nominee = n])
      BY <1>1 DEF SelectWinner
    <2> QED
      BY <2>1, SentKeeps
  <1>2. CASE RemoveWinner(s)
    <2>1. PICK w \in page.winners : Request(s, "remove", w)
      BY <1>2 DEF RemoveWinner
    <2> QED
      BY <2>1, SentKeeps
  <1> QED
    BY <1>1, <1>2

LEMMA LoseKeeps == ASSUME PInv, NEW s \in Slots, Lose(s)
                   PROVE  PInv'
  <1>1. seen'.told = seen.told /\ ShapedSeen /\ UNCHANGED <<winners, issued, page>>
    BY DEF Lose, Doubt, PInv, Shaped, ShapedSeen
  <1>2. GoodChange
    BY <1>1, FewerIsGood DEF PInv
  <1>3. CASE req' = [req EXCEPT ![s] = NoRequest]
    BY <1>1, <1>2, <1>3, RequestKeeps DEF NoRequest
  <1>4. CASE req[s].pc = "sent" /\ req' = [req EXCEPT ![s] = Unheard(@)]
    <2> DEFINE r == Unheard(req[s])
    <2>1. req' = [req EXCEPT ![s] = r]
      BY <1>4
    <2>2. /\ r = [pc |-> r.pc, op |-> r.op, row |-> r.row, ok |-> r.ok, heard |-> r.heard]
          /\ r.pc = "sent" /\ r.op = req[s].op /\ r.row = req[s].row
      BY DEF Unheard
    <2>3. req[s].op = "remove" => StillKnown(req[s].row.id)
      BY <1>1, <1>2, <1>4, KnownStays DEF PInv, RemovalsKnown
    <2> HIDE DEF r
    <2> QED
      BY <1>1, <1>2, <2>1, <2>2, <2>3, RequestKeeps
  <1> QED
    BY <1>3, <1>4 DEF Lose

\* An answer makes the page show rows that it showed before and the one it brings.
LEMMA HearKeeps == ASSUME PInv, NEW s \in Slots, Hear(s)
                   PROVE  PInv'
  <1> DEFINE r == req[s]
  <1>1. /\ UNCHANGED <<winners, issued>>
        /\ req' = [req EXCEPT ![s] = NoRequest]
        /\ seen' = [seen EXCEPT !.told = @ \cup {w.id : w \in page'.winners}]
    BY DEF Hear
  <1>2. /\ page' = [at |-> page'.at, got |-> page'.got, winners |-> page'.winners, shown |-> page'.shown]
        /\ \A w \in page'.winners : w.id \in issued
    <2>1. \A w \in page.winners : w.id \in issued
      BY DEF PInv, PageTold, IdsIssued
    <2>2. CASE page' = page
      BY <2>1, <2>2 DEF PInv, Shaped
    <2>3. CASE r.ok /\ r.op = "select" /\ page' = [page EXCEPT !.winners = @ \cup {r.row}]
      <3>1. r.row.id \in issued
        BY <2>3 DEF PInv, AnswersIssued, Hear
      <3>2. page'.winners = page.winners \cup {r.row}
        BY <2>3 DEF PInv, Shaped
      <3> QED
        BY <2>1, <2>3, <3>1, <3>2 DEF PInv, Shaped
    <2>4. CASE page' = [page EXCEPT !.winners = Filtered(r.row)]
      <3>1. page'.winners = Filtered(r.row)
        BY <2>4 DEF PInv, Shaped
      <3> QED
        BY <2>1, <2>4, <3>1 DEF PInv, Shaped, Filtered
    <2>5. \/ page' = page
          \/ r.ok /\ r.op = "select" /\ page' = [page EXCEPT !.winners = @ \cup {r.row}]
          \/ page' = [page EXCEPT !.winners = Filtered(r.row)]
      BY DEF Hear
    <2> QED
      BY <2>2, <2>3, <2>4, <2>5
  <1>3. seen'.told = seen.told \cup {w.id : w \in page'.winners} /\ ShapedSeen
    BY <1>1 DEF PInv, Shaped, ShapedSeen
  <1>4. IdsIssued' /\ PageTold'
    BY <1>1, <1>2, <1>3 DEF PInv, IdsIssued, PageTold
  <1>5. \A t \in Slots : req'[t] = IF t = s THEN NoRequest ELSE req[t]
    BY <1>1 DEF PInv, Shaped
  <1>6. DOMAIN req' = Slots /\ NoRequest.pc = "idle"
    BY <1>1 DEF PInv, Shaped, NoRequest
  <1>7. RemovalsKnown' /\ AnswersIssued'
    BY <1>1, <1>3, <1>5, <1>6 DEF PInv, RemovalsKnown, Known, AnswersIssued
  <1>8. Shaped'
    <2>1. \A t \in Slots : req'[t] = [pc |-> req'[t].pc, op |-> req'[t].op, row |-> req'[t].row,
                                      ok |-> req'[t].ok, heard |-> req'[t].heard]
      BY <1>5 DEF PInv, Shaped, NoRequest
    <2>2. req' = [t \in Slots |-> req'[t]]
      BY <1>1, <1>6
    <2> QED
      BY <1>2, <1>3, <2>1, <2>2 DEF Shaped, ShapedSeen
  <1> QED
    BY <1>4, <1>7, <1>8 DEF PInv

\* A page that is left forgets what it showed; what it has sent was known.
LEMMA LeaveKeeps == ASSUME PInv, Leave PROVE PInv'
  <1>1. /\ UNCHANGED <<winners, issued>>
        /\ page' = Closed
        /\ seen' = [doubted |-> Nominees, told |-> seen.told \cap {w.id : w \in winners}]
        /\ req' = [s \in Slots |-> IF req[s].pc = "sent" THEN Unheard(req[s]) ELSE NoRequest]
    BY DEF Leave
  <1>2. IdsIssued' /\ PageTold'
    BY <1>1 DEF PInv, IdsIssued, PageTold, Closed
  <1>3. ASSUME NEW s \in Slots
        PROVE  /\ req'[s] = [pc |-> req'[s].pc, op |-> req'[s].op, row |-> req'[s].row,
                             ok |-> req'[s].ok, heard |-> req'[s].heard]
               /\ req'[s].pc \in {"idle", "sent"}
               /\ req'[s].pc = "sent" => /\ req[s].pc = "sent"
                                         /\ req'[s].op = req[s].op
                                         /\ req'[s].row = req[s].row
    <2>1. CASE req[s].pc = "sent"
      <3>1. req'[s] = Unheard(req[s])
        BY <1>1, <2>1
      <3> QED
        BY <2>1, <3>1 DEF Unheard
    <2>2. CASE req[s].pc # "sent"
      <3>1. req'[s] = NoRequest
        BY <1>1, <2>2
      <3> QED
        BY <3>1 DEF NoRequest
    <2> QED
      BY <2>1, <2>2
  <1>4. RemovalsKnown'
    <2>1. ASSUME NEW s \in Slots, req'[s].pc = "sent", req'[s].op = "remove"
          PROVE  StillKnown(req'[s].row.id)
      <3>1. Known(req[s].row.id)
        BY <1>3, <2>1 DEF PInv, RemovalsKnown
      <3> QED
        <4>1. StillKnown(req[s].row.id)
          BY <1>1, <3>1 DEF Known, StillKnown, PInv, IdsIssued
        <4> QED
          BY <1>3, <2>1, <4>1
    <2> QED
      BY <2>1 DEF RemovalsKnown, Known, StillKnown
  <1>5. AnswersIssued'
    BY <1>3 DEF AnswersIssued
  <1>6. Shaped'
    <2>1. req' = [s \in Slots |-> req'[s]]
      BY <1>1
    <2>2. req' = [s \in Slots |-> [pc |-> req'[s].pc, op |-> req'[s].op, row |-> req'[s].row,
                                   ok |-> req'[s].ok, heard |-> req'[s].heard]]
      BY <1>3, <2>1
    <2> QED
      BY <1>1, <2>2 DEF Shaped, Closed
  <1> QED
    BY <1>2, <1>4, <1>5, <1>6 DEF PInv

LEMMA LoadKeeps == ASSUME PInv, OpenPage \/ ReadWinners \/ Render PROVE PInv'
  <1>1. CASE OpenPage
    BY <1>1 DEF OpenPage, Closed, PInv, Shaped, IdsIssued, PageTold, RemovalsKnown, Known, AnswersIssued
  <1>2. CASE Render
    BY <1>2 DEF Render, PInv, Shaped, IdsIssued, PageTold, RemovalsKnown, Known, AnswersIssued
  <1>3. CASE ReadWinners
    BY <1>3 DEF ReadWinners, PInv, Shaped, IdsIssued, PageTold, RemovalsKnown, Known, AnswersIssued
  <1> QED
    BY <1>1, <1>2, <1>3

-----------------------------------------------------------------------------
(* The server *)

LEMMA EffectIsGood == ASSUME PInv, NEW s \in Slots, Effect(s)
                      PROVE  /\ GoodChange
                             /\ req[s].op = "select" => NewId \in issued' /\ winners \subseteq winners'
                             /\ req[s].op # "select" => winners' = winners \ WithId(req[s].row)
  BY InsertIsGood, FewerIsGood DEF Effect, PInv

\* An answer, whose row was written if it is the row of a selection.
LEMMA AnswerKeeps ==
    ASSUME PInv, GoodChange, UNCHANGED page, seen'.told = seen.told, ShapedSeen,
           NEW s \in Slots, NEW ok \in BOOLEAN, NEW row, Answer(s, ok, row),
           ok /\ req[s].op = "select" => row.id \in issued'
    PROVE  PInv'
  <1>1. CASE req' = [req EXCEPT ![s] = NoRequest]
    BY <1>1, RequestKeeps DEF NoRequest
  <1>2. CASE req[s].heard
    <2> DEFINE r == [pc |-> "served", op |-> IF ok THEN req[s].op ELSE "select",
                     row |-> row, ok |-> ok, heard |-> TRUE]
    <2>1. req' = [req EXCEPT ![s] = r]
      BY <1>2 DEF Answer
    <2>2. /\ r = [pc |-> r.pc, op |-> r.op, row |-> r.row, ok |-> r.ok, heard |-> r.heard]
          /\ r.pc = "served" /\ r.ok = ok /\ (ok => r.op = req[s].op) /\ r.row = row
      OBVIOUS
    <2> HIDE DEF r
    <2> QED
      BY <2>1, <2>2, RequestKeeps
  <1> QED
    BY <1>1, <1>2 DEF Answer

LEMMA ServerKeeps == ASSUME PInv, NEW s \in Slots, Serve(s) \/ Refuse(s) \/ Deny(s)
                     PROVE  PInv'
  <1>1. CASE Serve(s)
    <2>1. GoodChange /\ (req[s].op = "select" => NewId \in issued')
      BY <1>1, EffectIsGood DEF Serve
    <2>2. UNCHANGED page /\ seen'.told = seen.told /\ ShapedSeen
      BY <1>1 DEF Serve, PInv, Shaped, ShapedSeen
    <2> DEFINE row == IF req[s].op = "select" THEN Inserted(req[s].row.nominee) ELSE req[s].row
    <2>3. Answer(s, TRUE, row)
      BY <1>1 DEF Serve
    <2>4. req[s].op = "select" => row.id = NewId
      BY DEF Inserted
    <2> HIDE DEF row
    <2> QED
      BY <2>1, <2>2, <2>3, <2>4, AnswerKeeps
  <1>2. CASE Refuse(s)
    <2>1. UNCHANGED <<winners, issued, page>> /\ seen'.told = seen.told /\ ShapedSeen
      BY <1>2 DEF Refuse, PInv, Shaped, ShapedSeen
    <2>2. GoodChange
      BY <2>1, FewerIsGood DEF PInv
    <2> QED
      BY <1>2, <2>1, <2>2, AnswerKeeps DEF Refuse
  <1>3. CASE Deny(s)
    <2>1. UNCHANGED page /\ seen'.told = seen.told /\ ShapedSeen
      BY <1>3 DEF Deny, Doubt, PInv, Shaped, ShapedSeen
    <2> QED
      BY <1>3, <2>1, EffectIsGood, AnswerKeeps DEF Deny, Doubt
  <1> QED
    BY <1>1, <1>2, <1>3

LEMMA EveryoneKeeps == ASSUME PInv, Others PROVE PInv'
  <1>1. ASSUME NEW n \in Nominees, OtherSelects(n) PROVE PInv'
    <2>1. UNCHANGED <<page, req>> /\ seen'.told = seen.told /\ ShapedSeen
      BY <1>1 DEF OtherSelects, Doubt, PInv, Shaped, ShapedSeen
    <2> QED
      BY <1>1, <2>1, InsertIsGood, OthersKeep DEF OtherSelects, Doubt, PInv
  <1>2. ASSUME NEW w \in winners, OtherRemoves(w) PROVE PInv'
    <2>1. UNCHANGED <<page, req>> /\ seen'.told = seen.told /\ ShapedSeen
      BY <1>2 DEF OtherRemoves, Doubt, PInv, Shaped, ShapedSeen
    <2>2. GoodChange
      BY <1>2, FewerIsGood DEF OtherRemoves, Doubt, PInv
    <2> QED
      BY <2>1, <2>2, OthersKeep
  <1>3. ASSUME NEW id \in spent, DeleteRow(id) PROVE PInv'
    <2>1. UNCHANGED <<page, req>> /\ seen'.told = seen.told /\ ShapedSeen
      BY <1>3 DEF DeleteRow, Doubt, PInv, Shaped, ShapedSeen
    <2>2. GoodChange
      BY <1>3, FewerIsGood DEF DeleteRow, Doubt, PInv
    <2> QED
      BY <2>1, <2>2, OthersKeep
  <1>4. CASE UNCHANGED <<winners, issued, pageVars>>
    BY <1>4 DEF pageVars, PInv, Shaped, IdsIssued, PageTold, RemovalsKnown, Known, AnswersIssued
  <1> QED
    BY <1>1, <1>2, <1>3, <1>4 DEF Others

-----------------------------------------------------------------------------
LEMMA InitHolds == Init => PInv
  BY DEF Init, PInv, Shaped, IdsIssued, PageTold, RemovalsKnown, AnswersIssued, Closed, NoRequest

LEMMA NextKeeps == ASSUME PInv, [Next]_vars PROVE PInv'
  <1>1. CASE UNCHANGED <<winners, issued, pageVars>>
    BY <1>1 DEF pageVars, PInv, Shaped, IdsIssued, PageTold, RemovalsKnown, Known, AnswersIssued
  <1>2. ASSUME NEW s \in Slots, \/ SelectWinner(s) \/ RemoveWinner(s) \/ Hear(s) \/ Lose(s)
                                \/ Serve(s) \/ Refuse(s) \/ Deny(s)
        PROVE  PInv'
    BY <1>2, SendKeeps, HearKeeps, LoseKeeps, ServerKeeps
  <1> QED
    BY <1>1, <1>2, LoadKeeps, LeaveKeeps, EveryoneKeeps DEF Next, OtherReads, vars

THEOREM PageInvariant == Spec => []PInv
  BY InitHolds, NextKeeps, PTL DEF Spec

\* Only requests remove winners of this administrator's page, and they remove the
\* winner with the id they carry: a row with another id, whoever selected it, stays.
LEMMA OnlyKnownGo == ASSUME PInv, [Next]_vars
                     PROVE  req' # req => \A w \in winners \ winners' : w.id \in seen.told
  <1>1. ASSUME NEW s \in Slots, req[s].pc = "sent", Effect(s)
        PROVE  \A w \in winners \ winners' : w.id \in seen.told
    <2>1. CASE req[s].op = "remove"
      <3>1. Known(req[s].row.id)
        BY <1>1, <2>1 DEF PInv, RemovalsKnown
      <3>2. winners' = winners \ WithId(req[s].row)
        BY <1>1, <2>1, EffectIsGood
      <3> QED
        BY <3>1, <3>2 DEF WithId, Known
    <2>2. CASE req[s].op = "select"
      BY <1>1, <2>2, EffectIsGood
    <2> QED
      BY <1>1, <2>1, <2>2 DEF Effect
  <1>2. ASSUME NEW s \in Slots, Serve(s) \/ Deny(s)
        PROVE  \A w \in winners \ winners' : w.id \in seen.told
    BY <1>1, <1>2 DEF Serve, Deny
  <1>3. ASSUME NEW s \in Slots, SelectWinner(s) \/ RemoveWinner(s) \/ Hear(s) \/ Lose(s) \/ Refuse(s)
        PROVE  winners' = winners
    BY <1>3 DEF SelectWinner, RemoveWinner, Request, Hear, Lose, Refuse
  <1>4. ASSUME Others \/ OtherReads \/ UNCHANGED <<winners, issued, pageVars>>
        PROVE  req' = req
    BY <1>4 DEF Others, OtherReads, OtherSelects, OtherRemoves, DeleteRow, pageVars
  <1>5. ASSUME OpenPage \/ ReadWinners \/ Render \/ Leave
        PROVE  winners' = winners
    BY <1>5 DEF OpenPage, ReadWinners, Render, Leave
  <1> QED
    BY <1>2, <1>3, <1>4, <1>5 DEF Next, vars

\* However old the page's list and however many requests are under way, the page
\* removes no winner that its administrator was not shown (DeleteWinner goes by id).
THEOREM OthersAlwaysStand == Spec => OthersStand
  BY PageInvariant, OnlyKnownGo, PTL DEF Spec, OthersStand

-----------------------------------------------------------------------------
(* The cards of the page *)

Selected(s) == req[s].pc = "served" /\ req[s].ok /\ req[s].op = "select"
Removing(s) == req[s].pc # "idle" /\ req[s].op # "select"
Removed(s) == req[s].pc = "served" /\ req[s].ok /\ req[s].op # "select"

\* The rows of winners that the table, the page or a request has.
Carried(w) == \/ w \in winners \cup page.winners
              \/ \E s \in Slots : (Selected(s) \/ Removing(s)) /\ req[s].row = w

\* They were written, each id once.
RowsInv == /\ \A w : Carried(w) => w.id \in issued
           /\ \A v, w : Carried(v) /\ Carried(w) /\ v.id = w.id => v = w

\* A winner whose selection has not been heard is on no list yet and nobody removes it.
Apart ==
    \A s \in Slots : Selected(s) =>
       /\ \A w \in page.winners : w.id # req[s].row.id
       /\ \A t \in Slots : Removing(t) \/ (Selected(t) /\ t # s) => req[t].row.id # req[s].row.id

\* Until the page is drawn, what is under way was sent by an earlier page.
Waiting == page.at # "ready" => \A s \in Slots : req[s].pc # "idle" => req[s].pc = "sent"
                                                                      /\ ~req[s].heard

\* The page will have the row once it has heard every answer on its way, in any order.
Pending(w) == /\ w \in page.winners \/ \E s \in Slots : Selected(s) /\ req[s].row = w
              /\ \A s \in Slots : Removed(s) => req[s].row.id # w.id

\* A card will be what the table has.
Card(n) == /\ page.got /\ page.at # "closed"
           /\ \A s \in Slots : req[s].pc # "idle" /\ req[s].row.nominee = n => req[s].heard
           /\ \A w : w.nominee = n => (w \in winners <=> Pending(w))

CInv == /\ RowsInv /\ Apart /\ Waiting
        /\ \A n \in Nominees \ seen.doubted : Card(n)

\* The requests after a step of one slot.
LEMMA OneSlot == ASSUME PInv, NEW s \in Slots, NEW r, req' = [req EXCEPT ![s] = r]
                 PROVE  \A t \in Slots : req'[t] = IF t = s THEN r ELSE req[t]
  <1>1. DOMAIN req = Slots
    BY DEF PInv, Shaped
  <1> QED
    BY <1>1

LEMMA DoubtSpreads == ASSUME PInv, NEW S, Doubt(S)
                      PROVE  seen'.doubted = seen.doubted \cup (S \cap Nominees)
  BY DEF Doubt, PInv, Shaped

\* A new row has a new id.
LEMMA Fresh == ASSUME PInv, NEW n, Insert(n)
               PROVE  /\ winners' = winners \cup {Inserted(n)}
                      /\ issued' = issued \cup {NewId} /\ NewId \notin issued
                      /\ Inserted(n).id = NewId /\ Inserted(n).nominee = n
  <1>1. \E id \in WinnerIds : id \notin issued
    BY DEF Insert, PInv, IdsIssued
  <1>2. NewId \notin issued
    BY <1>1 DEF NewId
  <1> QED
    BY <1>2 DEF Insert, Inserted

\* A step that brings no row, or one with a new id.
LEMMA RowsStay == ASSUME RowsInv, issued \subseteq issued',
                         \A w : Carried(w)' => Carried(w)
                  PROVE  RowsInv'
  BY DEF RowsInv

LEMMA RowsGrow == ASSUME RowsInv, issued \subseteq issued', NEW new,
                         new.id \in issued', new.id \notin issued,
                         \A w : Carried(w)' => Carried(w) \/ w = new
                  PROVE  RowsInv'
  <1>1. \A w : Carried(w)' => w.id \in issued'
    BY DEF RowsInv
  <1>2. ASSUME NEW v, NEW w, Carried(v)', Carried(w)', v.id = w.id PROVE v = w
    BY <1>2 DEF RowsInv
  <1> QED
    BY <1>1, <1>2 DEF RowsInv

\* Nothing that counts has changed.
LEMMA CardsStutter == ASSUME CInv, UNCHANGED <<winners, issued, req>>,
                             page'.winners = page.winners, page'.got = page.got,
                             page'.at = page.at \/ page'.at = "ready",
                             seen.doubted \subseteq seen'.doubted
                      PROVE  CInv'
  <1>1. \A s \in Slots : /\ Selected(s)' <=> Selected(s)
                         /\ Removing(s)' <=> Removing(s)
                         /\ Removed(s)' <=> Removed(s)
    BY DEF Selected, Removing, Removed
  <1>2. RowsInv'
    BY <1>1, RowsStay DEF CInv, Carried
  <1>3. Apart' /\ Waiting'
    BY <1>1 DEF CInv, Apart, Waiting
  <1>4. ASSUME NEW n \in Nominees \ seen'.doubted PROVE Card(n)'
    <2>1. Card(n)
      BY DEF CInv
    <2>2. \A w : Pending(w)' <=> Pending(w)
      BY <1>1 DEF Pending
    <2> QED
      BY <2>1, <2>2 DEF Card
  <1> QED
    BY <1>2, <1>3, <1>4 DEF CInv

\* A request leaves.
LEMMA CardsSend == ASSUME PInv, CInv, NEW s \in Slots, NEW op, NEW row, Request(s, op, row),
                          op # "select" => row \in page.winners
                   PROVE  CInv'
  <1> DEFINE r == [pc |-> "sent", op |-> op, row |-> row, ok |-> FALSE, heard |-> TRUE]
  <1>1. UNCHANGED <<winners, issued, page, seen>> /\ page.at = "ready" /\ req[s].pc = "idle"
    BY DEF Request
  <1>2. \A t \in Slots : req'[t] = IF t = s THEN r ELSE req[t]
    BY OneSlot DEF Request
  <1>3. r.pc = "sent" /\ r.op = op /\ r.row = row /\ r.heard
    OBVIOUS
  <1> HIDE DEF r
  <1>4. \A t \in Slots : /\ Selected(t)' <=> Selected(t)
                         /\ Removed(t)' <=> Removed(t)
                         /\ Selected(t) \/ Removed(t) => t # s /\ req'[t].row = req[t].row
                         /\ Removing(t)' <=> Removing(t) \/ (t = s /\ op # "select")
                         /\ Removing(t) => t # s
    BY <1>1, <1>2, <1>3 DEF Selected, Removed, Removing
  <1>5. RowsInv'
    <2>1. \A w : Carried(w)' => Carried(w)
      BY <1>1, <1>2, <1>3, <1>4 DEF Carried
    <2> QED
      BY <1>1, <2>1, RowsStay DEF CInv
  <1>6. Apart'
    BY <1>1, <1>2, <1>3, <1>4 DEF CInv, Apart
  <1>7. ASSUME NEW n \in Nominees \ seen.doubted PROVE Card(n)'
    <2>1. Card(n)
      BY DEF CInv
    <2>2. \A w : Pending(w)' <=> Pending(w)
      BY <1>1, <1>4 DEF Pending
    <2>3. \A t \in Slots : req'[t].pc # "idle" /\ req'[t].row.nominee = n => req'[t].heard
      BY <1>2, <1>3, <2>1 DEF Card
    <2> QED
      BY <1>1, <2>1, <2>2, <2>3 DEF Card
  <1> QED
    BY <1>1, <1>5, <1>6, <1>7 DEF CInv, Waiting

\* The end of a request of which the page hears no success: whatever it did, it did to
\* the winners of a nominee that is in doubt.
LEMMA CardsBeside ==
    ASSUME PInv, CInv, RowsInv', NEW s \in Slots, NEW r, req' = [req EXCEPT ![s] = r],
           page' = page, seen.doubted \subseteq seen'.doubted,
           r.pc = "served" => ~r.ok,
           r.pc # "idle" /\ r.op # "select" => Removing(s) /\ r.row = req[s].row,
           page.at # "ready" /\ r.pc # "idle" => r.pc = "sent" /\ ~r.heard,
           \A n \in Nominees \ seen'.doubted :
              /\ r.pc # "idle" /\ r.row.nominee = n => r.heard
              /\ req[s].pc = "served" => req[s].row.nominee # n
              /\ \A w : w.nominee = n => (w \in winners' <=> w \in winners)
    PROVE  CInv'
  <1>1. \A t \in Slots : req'[t] = IF t = s THEN r ELSE req[t]
    BY ONLY PInv, s \in Slots, req' = [req EXCEPT ![s] = r], OneSlot
  <1>2. \A t \in Slots : /\ Selected(t)' <=> Selected(t) /\ t # s
                         /\ Removed(t)' <=> Removed(t) /\ t # s
                         /\ Removing(t)' => Removing(t) /\ req'[t].row = req[t].row
                         /\ t # s => req'[t].row = req[t].row
    BY <1>1 DEF Selected, Removed, Removing
  <1>3. Apart'
    BY <1>2 DEF CInv, Apart
  <1>4. Waiting'
    BY <1>1 DEF CInv, Waiting
  <1>5. ASSUME NEW n \in Nominees \ seen'.doubted PROVE Card(n)'
    <2>1. Card(n)
      BY DEF CInv
    <2>2. ASSUME NEW w, w.nominee = n PROVE Pending(w)' <=> Pending(w)
      <3>1. ~(Selected(s) /\ req[s].row = w)
        BY <1>5, <2>2 DEF Selected
      <3>2. ASSUME Carried(w), Removed(s) PROVE req[s].row.id # w.id
        <4>1. Carried(req[s].row) /\ req[s].row.nominee # n
          BY <1>5, <3>2 DEF Carried, Removed, Removing
        <4> QED
          BY <2>2, <3>2, <4>1 DEF CInv, RowsInv
      <3>3. (\E t \in Slots : Selected(t)' /\ req'[t].row = w)
               <=> (\E t \in Slots : Selected(t) /\ req[t].row = w)
        BY <1>2, <3>1
      <3>4. Carried(w) => ((\A t \in Slots : Removed(t)' => req'[t].row.id # w.id)
                              <=> (\A t \in Slots : Removed(t) => req[t].row.id # w.id))
        BY <1>2, <3>2
      <3>5. w \in page.winners \/ (\E t \in Slots : Selected(t) /\ req[t].row = w) => Carried(w)
        BY DEF Carried
      <3> QED
        BY <3>3, <3>4, <3>5 DEF Pending
    <2>3. \A t \in Slots : req'[t].pc # "idle" /\ req'[t].row.nominee = n => req'[t].heard
      BY <1>1, <1>5, <2>1 DEF Card
    <2> QED
      BY <1>5, <2>1, <2>2, <2>3 DEF Card
  <1> QED
    BY <1>3, <1>4, <1>5 DEF CInv

LEMMA CardsLose == ASSUME PInv, CInv, NEW s \in Slots, Lose(s)
                   PROVE  CInv'
  <1>1. /\ UNCHANGED <<winners, issued, page>> /\ req[s].heard
        /\ seen'.doubted = seen.doubted \cup ({req[s].row.nominee} \cap Nominees)
    BY DoubtSpreads DEF Lose
  <1>2. PICK r : /\ req' = [req EXCEPT ![s] = r]
                 /\ \/ r.pc = "idle"
                    \/ /\ r.pc = "sent" /\ req[s].pc = "sent" /\ ~r.heard
                       /\ r.op = req[s].op /\ r.row = req[s].row
    <2>1. CASE req' = [req EXCEPT ![s] = NoRequest]
      <3>1. NoRequest.pc = "idle"
        BY DEF NoRequest
      <3> QED
        BY <2>1, <3>1
    <2>2. CASE req[s].pc = "sent" /\ req' = [req EXCEPT ![s] = Unheard(req[s])]
      <3>1. /\ Unheard(req[s]).pc = "sent" /\ ~Unheard(req[s]).heard
            /\ Unheard(req[s]).op = req[s].op /\ Unheard(req[s]).row = req[s].row
        BY DEF Unheard
      <3> QED
        BY <2>2, <3>1
    <2> QED
      BY <2>1, <2>2 DEF Lose
  <1>3. RowsInv'
    <2>1. \A t \in Slots : req'[t] = IF t = s THEN r ELSE req[t]
      BY ONLY PInv, s \in Slots, <1>2, OneSlot
    <2>2. \A t \in Slots : Selected(t)' \/ Removing(t)' => /\ Selected(t) \/ Removing(t)
                                                          /\ req'[t].row = req[t].row
      BY <1>2, <2>1 DEF Selected, Removing
    <2>3. \A w : Carried(w)' => Carried(w)
      BY <1>1, <2>2 DEF Carried
    <2> QED
      BY <1>1, <2>3, RowsStay DEF CInv
  <1> QED
    BY <1>1, <1>2, <1>3, CardsBeside DEF Removing

\* The rows after a request was served, whatever its answer.
LEMMA EffectOnRows == ASSUME PInv, CInv, NEW s \in Slots, NEW r, req' = [req EXCEPT ![s] = r],
                             req[s].pc = "sent", Effect(s), page' = page,
                             r.pc = "idle" \/ r.op = "select" \/ r.row = req[s].row,
                             r.pc # "idle" => r.op = "select" \/ r.op = req[s].op,
                             r.pc = "served" /\ r.ok /\ r.op = "select"
                                => /\ req[s].op = "select"
                                   /\ r.row = Inserted(req[s].row.nominee)
                      PROVE  RowsInv'
  <1>1. \A t \in Slots : req'[t] = IF t = s THEN r ELSE req[t]
    BY ONLY PInv, s \in Slots, req' = [req EXCEPT ![s] = r], OneSlot
  <1>2. \A t \in Slots \ {s} : Selected(t)' \/ Removing(t)' => /\ Selected(t) \/ Removing(t)
                                                              /\ req'[t].row = req[t].row
    BY <1>1 DEF Selected, Removing
  <1>3. CASE req[s].op = "select" /\ Insert(req[s].row.nominee)
    <2> DEFINE new == Inserted(req[s].row.nominee)
    <2>1. /\ winners' = winners \cup {new} /\ issued' = issued \cup {NewId}
          /\ NewId \notin issued /\ new.id = NewId
      BY <1>3, Fresh
    <2>2. Selected(s)' \/ Removing(s)' => req'[s].row = new
      BY <1>1, <1>3 DEF Selected, Removing
    <2> HIDE DEF new
    <2>3. \A w : Carried(w)' => Carried(w) \/ w = new
      BY <1>2, <2>1, <2>2 DEF Carried
    <2> QED
      BY <2>1, <2>3, RowsGrow DEF CInv
  <1>4. CASE req[s].op = "remove" /\ winners' = winners \ WithId(req[s].row) /\ UNCHANGED issued
    <2>1. Removing(s)
      BY <1>4 DEF Removing
    <2>2. Selected(s)' \/ Removing(s)' => req'[s].row = req[s].row
      BY <1>1, <1>4 DEF Selected, Removing
    <2>3. \A w : Carried(w)' => Carried(w)
      BY <1>2, <1>4, <2>1, <2>2 DEF Carried
    <2> QED
      BY <1>4, <2>3, RowsStay DEF CInv
  <1> QED
    BY <1>3, <1>4 DEF Effect

\* What a request does to the table concerns the nominee that it is about.
LEMMA EffectIsLocal == ASSUME PInv, CInv, NEW s \in Slots, req[s].pc = "sent", Effect(s),
                              NEW w, w.nominee # req[s].row.nominee
                       PROVE  w \in winners' <=> w \in winners
  <1>1. CASE req[s].op = "select" /\ Insert(req[s].row.nominee)
    BY <1>1, Fresh
  <1>2. CASE req[s].op = "remove" /\ winners' = winners \ WithId(req[s].row)
    <2>1. Carried(req[s].row)
      BY <1>2 DEF Carried, Removing
    <2>2. ASSUME w \in winners PROVE w.id # req[s].row.id
      <3>1. Carried(w)
        BY <2>2 DEF Carried
      <3> QED
        BY <2>1, <3>1 DEF CInv, RowsInv
    <2> QED
      BY <1>2, <2>2 DEF WithId
  <1> QED
    BY <1>1, <1>2 DEF Effect

\* Nobody hears what was done, or the page is told that it was not.
LEMMA CardsDeny ==
    ASSUME PInv, CInv, NEW s \in Slots, req[s].pc = "sent", Effect(s), page' = page,
           Deny(s) \/ (Serve(s) /\ ~req[s].heard)
    PROVE  CInv'
  <1>1. PICK r : /\ req' = [req EXCEPT ![s] = r]
                 /\ \/ r.pc = "idle" /\ ~req[s].heard
                    \/ r.pc = "served" /\ ~r.ok /\ r.op = "select" /\ r.heard /\ req[s].heard
    <2>1. CASE ~req[s].heard
      <3>1. req' = [req EXCEPT ![s] = NoRequest]
        BY <2>1 DEF Deny, Serve, Answer
      <3>2. NoRequest.pc = "idle"
        BY DEF NoRequest
      <3> QED
        BY <2>1, <3>1, <3>2
    <2>2. CASE req[s].heard
      <3> DEFINE r == [pc |-> "served", op |-> "select", row |-> NoRow, ok |-> FALSE,
                       heard |-> TRUE]
      <3>1. req' = [req EXCEPT ![s] = r]
        BY <2>2 DEF Deny, Answer
      <3>2. r.pc = "served" /\ ~r.ok /\ r.op = "select" /\ r.heard
        OBVIOUS
      <3> HIDE DEF r
      <3> QED
        BY <2>2, <3>1, <3>2
    <2> QED
      BY <2>1, <2>2
  <1>2. RowsInv'
    BY <1>1, EffectOnRows
  <1>3. /\ seen.doubted \subseteq seen'.doubted
        /\ \A n \in Nominees \ seen'.doubted : req[s].row.nominee # n
    <2>1. CASE Deny(s)
      <3>1. seen'.doubted = seen.doubted \cup ({req[s].row.nominee} \cap Nominees)
        BY <2>1, DoubtSpreads DEF Deny
      <3> QED
        BY <3>1
    <2>2. CASE Serve(s) /\ ~req[s].heard
      <3>1. seen' = seen
        BY <2>2 DEF Serve
      <3>2. \A n \in Nominees \ seen.doubted : Card(n)
        BY DEF CInv
      <3> QED
        BY <2>2, <3>1, <3>2 DEF Card
    <2> QED
      BY <2>1, <2>2
  <1>4. page.at # "ready" /\ r.pc # "idle" => FALSE
    BY <1>1 DEF CInv, Waiting
  <1>5. \A n \in Nominees \ seen'.doubted : \A w : w.nominee = n => (w \in winners' <=> w \in winners)
    BY <1>3, EffectIsLocal
  <1> QED
    BY <1>1, <1>2, <1>3, <1>4, <1>5, CardsBeside

\* A refusal is on its way.
LEMMA CardsRefuse == ASSUME PInv, CInv, NEW s \in Slots, Refuse(s)
                     PROVE  CInv'
  <1>1. UNCHANGED <<winners, issued, page, seen>> /\ req[s].pc = "sent"
    BY DEF Refuse
  <1>2. PICK r : /\ req' = [req EXCEPT ![s] = r]
                 /\ \/ r.pc = "idle"
                    \/ r.pc = "served" /\ ~r.ok /\ r.op = "select" /\ r.heard /\ req[s].heard
    <2>1. CASE ~req[s].heard
      <3>1. req' = [req EXCEPT ![s] = NoRequest]
        BY <2>1 DEF Refuse, Answer
      <3>2. NoRequest.pc = "idle"
        BY DEF NoRequest
      <3> QED
        BY <2>1, <3>1, <3>2
    <2>2. CASE req[s].heard
      <3> DEFINE r == [pc |-> "served", op |-> "select", row |-> NoRow, ok |-> FALSE,
                       heard |-> TRUE]
      <3>1. req' = [req EXCEPT ![s] = r]
        BY <2>2 DEF Refuse, Answer
      <3>2. r.pc = "served" /\ ~r.ok /\ r.op = "select" /\ r.heard
        OBVIOUS
      <3> HIDE DEF r
      <3> QED
        BY <2>2, <3>1, <3>2
    <2> QED
      BY <2>1, <2>2
  <1>3. \A t \in Slots : req'[t] = IF t = s THEN r ELSE req[t]
    <2>1. req' = [req EXCEPT ![s] = r]
      BY <1>2
    <2> QED
      BY ONLY PInv, s \in Slots, <2>1, OneSlot
  <1>4. \A t \in Slots : Selected(t)' \/ Removing(t)' => /\ Selected(t) \/ Removing(t)
                                                        /\ req'[t].row = req[t].row
    BY <1>2, <1>3 DEF Selected, Removing
  <1>5. \A w : Carried(w)' => Carried(w)
    BY <1>1, <1>4 DEF Carried
  <1>6. RowsInv'
    BY <1>1, <1>5, RowsStay DEF CInv
  <1>7. page.at # "ready" /\ r.pc # "idle" => FALSE
    BY <1>1, <1>2 DEF CInv, Waiting
  <1> QED
    BY <1>1, <1>2, <1>6, <1>7, CardsBeside

\* A winner is selected: its new id is on no list and in no other request.
LEMMA CardsSelected == ASSUME PInv, CInv, NEW s \in Slots, Serve(s), req[s].heard,
                              req[s].op = "select"
                       PROVE  CInv'
  <1> DEFINE new == Inserted(req[s].row.nominee)
             r == [pc |-> "served", op |-> "select", row |-> new, ok |-> TRUE, heard |-> TRUE]
  <1>1. UNCHANGED <<page, seen>> /\ req[s].pc = "sent" /\ Effect(s)
    BY DEF Serve
  <1>2. Insert(req[s].row.nominee)
    BY <1>1 DEF Effect
  <1>3. /\ winners' = winners \cup {new} /\ issued' = issued \cup {NewId}
        /\ new.id = NewId /\ NewId \notin issued
    BY <1>2, Fresh
  <1>4. req' = [req EXCEPT ![s] = r]
    BY DEF Serve, Answer
  <1>5. \A t \in Slots : req'[t] = IF t = s THEN r ELSE req[t]
    BY ONLY PInv, s \in Slots, <1>4, OneSlot
  <1>6. r.pc = "served" /\ r.op = "select" /\ r.ok /\ r.heard /\ r.row = new
    OBVIOUS
  <1>7. RowsInv'
    BY <1>1, <1>4, <1>6, EffectOnRows
  <1> HIDE DEF r, new
  <1>8. \A t \in Slots : /\ Selected(t)' <=> Selected(t) \/ t = s
                         /\ Removed(t)' <=> Removed(t)
                         /\ Selected(t) \/ Removed(t) => t # s /\ req'[t].row = req[t].row
                         /\ Removing(t)' => Removing(t) /\ t # s /\ req'[t].row = req[t].row
    BY <1>1, <1>5, <1>6 DEF Selected, Removed, Removing
  <1>9. /\ \A t \in Slots : Removing(t) \/ Selected(t) => req[t].row.id \in issued
        /\ \A w \in page.winners : w.id \in issued
        /\ \A t \in Slots : Removed(t) => Removing(t)
    BY DEF CInv, RowsInv, Carried, Removing, Removed
  <1>10. req'[s].row = new
    BY <1>5, <1>6
  <1>11. Apart'
    <2> SUFFICES ASSUME NEW t \in Slots, Selected(t)'
                 PROVE  /\ \A w \in page.winners : w.id # req'[t].row.id
                        /\ \A u \in Slots : Removing(u)' \/ (Selected(u)' /\ u # t)
                                           => req'[u].row.id # req'[t].row.id
      BY <1>1 DEF Apart
    <2>1. CASE t = s
      BY <1>3, <1>8, <1>9, <1>10, <2>1
    <2>2. CASE t # s
      <3>1. Selected(t) /\ req'[t].row = req[t].row /\ req[t].row.id \in issued
        BY <1>8, <1>9, <2>2
      <3> QED
        BY <1>3, <1>8, <1>10, <3>1 DEF CInv, Apart
    <2> QED
      BY <2>1, <2>2
  <1>12. Waiting'
    BY <1>1 DEF CInv, Waiting
  <1>13. \A w : Pending(w)' <=> Pending(w) \/ w = new
    <2> SUFFICES ASSUME NEW w PROVE Pending(w)' <=> Pending(w) \/ w = new
      OBVIOUS
    <2>1. \A t \in Slots : Removed(t) => req[t].row.id # new.id
      BY <1>3, <1>9
    <2>2. (\E t \in Slots : Selected(t)' /\ req'[t].row = w)
             <=> (\E t \in Slots : Selected(t) /\ req[t].row = w) \/ w = new
      BY <1>8, <1>10
    <2>3. (\A t \in Slots : Removed(t)' => req'[t].row.id # w.id)
             <=> (\A t \in Slots : Removed(t) => req[t].row.id # w.id)
      BY <1>8
    <2> QED
      BY <1>1, <2>1, <2>2, <2>3 DEF Pending
  <1>14. ASSUME NEW n \in Nominees \ seen.doubted PROVE Card(n)'
    <2>1. Card(n)
      BY DEF CInv
    <2>2. \A t \in Slots : req'[t].pc # "idle" /\ req'[t].row.nominee = n => req'[t].heard
      BY <1>5, <1>6, <2>1 DEF Card
    <2> QED
      BY <1>1, <1>3, <1>13, <2>1, <2>2 DEF Card
  <1> QED
    BY <1>1, <1>7, <1>11, <1>12, <1>14 DEF CInv

\* A winner is removed from the table, and still to be removed from the list.
LEMMA CardsRemoved == ASSUME PInv, CInv, NEW s \in Slots, Serve(s), req[s].heard,
                             req[s].op = "remove"
                      PROVE  CInv'
  <1> DEFINE row == req[s].row
             r == [pc |-> "served", op |-> "remove", row |-> row, ok |-> TRUE, heard |-> TRUE]
  <1>1. UNCHANGED <<page, seen>> /\ req[s].pc = "sent" /\ Effect(s)
    BY DEF Serve
  <1>2. winners' = {w \in winners : w.id # row.id} /\ issued' = issued
    BY <1>1 DEF Effect, WithId
  <1>3. req' = [req EXCEPT ![s] = r]
    BY DEF Serve, Answer
  <1>4. \A t \in Slots : req'[t] = IF t = s THEN r ELSE req[t]
    BY ONLY PInv, s \in Slots, <1>3, OneSlot
  <1>5. r.pc = "served" /\ r.op = "remove" /\ r.ok /\ r.heard /\ r.row = req[s].row
    OBVIOUS
  <1> HIDE DEF r
  <1>6. \A t \in Slots : /\ Selected(t)' <=> Selected(t)
                         /\ Removed(t)' <=> Removed(t) \/ t = s
                         /\ Removing(t)' <=> Removing(t)
                         /\ req'[t].row = req[t].row
    BY <1>1, <1>4, <1>5 DEF Selected, Removed, Removing
  <1>7. RowsInv'
    <2>1. \A w : Carried(w)' => Carried(w)
      BY <1>1, <1>2, <1>6 DEF Carried
    <2> QED
      BY <1>2, <2>1, RowsStay DEF CInv
  <1>8. Apart' /\ Waiting'
    BY <1>1, <1>6 DEF CInv, Apart, Waiting
  <1>9. \A w : Pending(w)' <=> Pending(w) /\ w.id # row.id
    BY <1>1, <1>6 DEF Pending
  <1>10. ASSUME NEW n \in Nominees \ seen.doubted PROVE Card(n)'
    <2>1. Card(n)
      BY DEF CInv
    <2>2. \A t \in Slots : req'[t].pc # "idle" /\ req'[t].row.nominee = n => req'[t].heard
      BY <1>4, <1>5, <2>1 DEF Card
    <2> HIDE DEF row
    <2> QED
      BY <1>1, <1>2, <1>9, <2>1, <2>2 DEF Card
  <1> QED
    BY <1>1, <1>7, <1>8, <1>10 DEF CInv

\* An answer is heard: what it says moves from the request to the list.
LEMMA CardsHear == ASSUME PInv, CInv, NEW s \in Slots, Hear(s)
                   PROVE  CInv'
  <1>1. /\ UNCHANGED <<winners, issued>> /\ req[s].pc = "served" /\ seen'.doubted = seen.doubted
        /\ req' = [req EXCEPT ![s] = NoRequest] /\ page.at = "ready"
    BY DEF Hear, PInv, Shaped, CInv, Waiting
  <1>2. \A t \in Slots : req'[t] = IF t = s THEN NoRequest ELSE req[t]
    BY ONLY PInv, s \in Slots, <1>1, OneSlot
  <1>3. \A t \in Slots : /\ Selected(t)' <=> Selected(t) /\ t # s
                         /\ Removed(t)' <=> Removed(t) /\ t # s
                         /\ Removing(t)' <=> Removing(t) /\ t # s
                         /\ t # s => req'[t].row = req[t].row
    BY <1>2 DEF Selected, Removed, Removing, NoRequest
  <1>4. Apart
    BY DEF CInv
  <1>5. /\ page'.got = page.got /\ page'.at = page.at
        /\ \A w \in page'.winners : Carried(w)
        /\ Apart' /\ \A w : Pending(w)' <=> Pending(w)
    <2>1. CASE ~req[s].ok
      <3>1. page' = page
        BY <2>1 DEF Hear
      <3>2. ~Selected(s) /\ ~Removed(s)
        BY <2>1 DEF Selected, Removed
      <3>3. Apart'
        BY <1>3, <1>4, <3>1 DEF Apart
      <3>4. \A w : Pending(w)' <=> Pending(w)
        BY <1>3, <3>1, <3>2 DEF Pending
      <3> QED
        BY <3>1, <3>3, <3>4 DEF Carried
    <2>2. CASE req[s].ok /\ req[s].op = "select"
      <3>1. page' = [page EXCEPT !.winners = @ \cup {req[s].row}]
        BY <2>2 DEF Hear
      <3>2. /\ page'.winners = page.winners \cup {req[s].row}
            /\ page'.got = page.got /\ page'.at = page.at
        BY <3>1 DEF PInv, Shaped
      <3>3. Selected(s) /\ ~Removed(s)
        BY <1>1, <2>2 DEF Selected, Removed
      <3>4. Apart'
        BY <1>3, <1>4, <3>2, <3>3 DEF Apart
      <3>5. \A w : Pending(w)' <=> Pending(w)
        BY <1>3, <3>2, <3>3 DEF Pending
      <3> QED
        BY <3>2, <3>3, <3>4, <3>5 DEF Carried
    <2>3. CASE req[s].ok /\ req[s].op # "select"
      <3>1. page' = [page EXCEPT !.winners = Filtered(req[s].row)]
        BY <2>3 DEF Hear
      <3>2. /\ page'.winners = {w \in page.winners : w.id # req[s].row.id}
            /\ page'.got = page.got /\ page'.at = page.at
        BY <3>1 DEF PInv, Shaped, Filtered
      <3>3. ~Selected(s) /\ Removed(s) /\ Removing(s)
        BY <1>1, <2>3 DEF Selected, Removed, Removing
      <3>4. Apart'
        BY <1>3, <1>4, <3>2, <3>3 DEF Apart
      <3>5. ASSUME NEW w PROVE Pending(w)' <=> Pending(w)
        <4>1. \A t \in Slots : Selected(t) => t # s /\ req[t].row.id # req[s].row.id
          BY <1>4, <3>3 DEF Apart
        <4>2. (\E t \in Slots : Selected(t)' /\ req'[t].row = w)
                 <=> (\E t \in Slots : Selected(t) /\ req[t].row = w)
          BY <1>3, <4>1
        <4>3. (\A t \in Slots : Removed(t) => req[t].row.id # w.id)
                 <=> /\ \A t \in Slots : Removed(t)' => req'[t].row.id # w.id
                     /\ req[s].row.id # w.id
          BY <1>3, <3>3
        <4>4. (\E t \in Slots : Selected(t) /\ req[t].row = w) => w.id # req[s].row.id
          BY <4>1
        <4> QED
          BY <3>2, <4>2, <4>3, <4>4 DEF Pending
      <3> QED
        BY <3>2, <3>4, <3>5 DEF Carried
    <2> QED
      BY <2>1, <2>2, <2>3
  <1>6. RowsInv'
    <2>1. \A w : Carried(w)' => Carried(w)
      BY <1>1, <1>3, <1>5 DEF Carried
    <2> QED
      BY <1>1, <2>1, RowsStay DEF CInv
  <1>7. ASSUME NEW n \in Nominees \ seen.doubted PROVE Card(n)'
    <2>1. Card(n)
      BY DEF CInv
    <2>2. \A t \in Slots : req'[t].pc # "idle" /\ req'[t].row.nominee = n => req'[t].heard
      BY <1>2, <2>1 DEF Card, NoRequest
    <2> QED
      BY <1>1, <1>5, <2>1, <2>2 DEF Card
  <1> QED
    BY <1>1, <1>5, <1>6, <1>7 DEF CInv, Waiting

\* When the list is read, the nominees that requests under way are about are in doubt.
LEMMA CardsBegin == ASSUME PInv, CInv, ReadWinners PROVE CInv'
  <1>1. /\ page'.got /\ page'.at = "loading" /\ page'.winners = winners /\ page.at = "loading"
        /\ UNCHANGED <<winners, issued, req>>
        /\ seen'.doubted = {req[s].row.nominee : s \in Slots} \cap Nominees
    BY DEF ReadWinners, PInv, Shaped
  <1>2. \A s \in Slots : req[s].pc # "idle" => req[s].pc = "sent" /\ ~req[s].heard
    BY <1>1 DEF CInv, Waiting
  <1>3. \A s \in Slots : /\ ~Selected(s) /\ ~Removed(s) /\ ~Selected(s)' /\ ~Removed(s)'
                         /\ Removing(s)' <=> Removing(s)
    BY <1>1, <1>2 DEF Selected, Removed, Removing
  <1>4. \A w : Carried(w)' => Carried(w)
    BY <1>1, <1>3 DEF Carried
  <1>5. RowsInv'
    BY <1>1, <1>4, RowsStay DEF CInv
  <1>6. Apart' /\ Waiting'
    BY <1>1, <1>2, <1>3 DEF Apart, Waiting
  <1>7. ASSUME NEW n \in Nominees \ seen'.doubted PROVE Card(n)'
    <2>1. \A s \in Slots : req'[s].row.nominee # n
      BY <1>1, <1>7
    <2>2. \A w : Pending(w)' <=> w \in winners
      BY <1>1, <1>3 DEF Pending
    <2> QED
      BY <1>1, <2>1, <2>2 DEF Card
  <1> QED
    BY <1>5, <1>6, <1>7 DEF CInv

LEMMA CardsLeave == ASSUME PInv, CInv, Leave PROVE CInv'
  <1>1. /\ UNCHANGED <<winners, issued>> /\ page'.winners = {} /\ seen'.doubted = Nominees
        /\ req' = [s \in Slots |-> IF req[s].pc = "sent" THEN Unheard(req[s]) ELSE NoRequest]
    BY DEF Leave, Closed
  <1>2. ASSUME NEW s \in Slots
        PROVE  /\ req'[s].pc # "idle" => req'[s].pc = "sent" /\ ~req'[s].heard
               /\ ~Selected(s)'
               /\ Removing(s)' => Removing(s) /\ req'[s].row = req[s].row
    <2>1. CASE req[s].pc = "sent"
      <3>1. req'[s] = Unheard(req[s])
        BY <1>1, <2>1
      <3> QED
        BY <2>1, <3>1 DEF Unheard, Selected, Removing
    <2>2. CASE req[s].pc # "sent"
      <3>1. req'[s] = NoRequest
        BY <1>1, <2>2
      <3> QED
        BY <3>1 DEF NoRequest, Selected, Removing
    <2> QED
      BY <2>1, <2>2
  <1>3. \A w : Carried(w)' => Carried(w)
    BY <1>1, <1>2 DEF Carried
  <1>4. RowsInv'
    BY <1>1, <1>3, RowsStay DEF CInv
  <1> QED
    BY <1>1, <1>2, <1>4 DEF CInv, Apart, Waiting

\* Someone else changes the winners of nominees that are in doubt from then on.
LEMMA CardsOthers == ASSUME CInv, RowsInv', UNCHANGED <<page, req>>,
                            seen.doubted \subseteq seen'.doubted,
                            \A n \in Nominees \ seen'.doubted : \A w :
                               w.nominee = n => (w \in winners' <=> w \in winners)
                     PROVE  CInv'
  <1>1. \A s \in Slots : /\ Selected(s)' <=> Selected(s)
                         /\ Removing(s)' <=> Removing(s)
                         /\ Removed(s)' <=> Removed(s)
    BY DEF Selected, Removing, Removed
  <1>2. Apart' /\ Waiting'
    BY <1>1 DEF CInv, Apart, Waiting
  <1>3. ASSUME NEW n \in Nominees \ seen'.doubted PROVE Card(n)'
    <2>1. Card(n)
      BY DEF CInv
    <2>2. \A w : Pending(w)' <=> Pending(w)
      BY <1>1 DEF Pending
    <2> QED
      BY <2>1, <2>2 DEF Card
  <1> QED
    BY <1>2, <1>3 DEF CInv

LEMMA CardsAmongOthers == ASSUME PInv, CInv, Others PROVE CInv'
  <1>1. ASSUME NEW n \in Nominees, OtherSelects(n) PROVE CInv'
    <2>1. /\ winners' = winners \cup {Inserted(n)} /\ issued' = issued \cup {NewId}
          /\ NewId \notin issued /\ Inserted(n).id = NewId /\ Inserted(n).nominee = n
      BY <1>1, Fresh DEF OtherSelects
    <2>2. UNCHANGED <<page, req>> /\ seen'.doubted = seen.doubted \cup ({n} \cap Nominees)
      BY <1>1, DoubtSpreads DEF OtherSelects
    <2>3. \A w : Carried(w)' => Carried(w) \/ w = Inserted(n)
      BY <2>1, <2>2 DEF Carried, Selected, Removing
    <2>4. RowsInv'
      BY <2>1, <2>3, RowsGrow DEF CInv
    <2> QED
      BY <2>1, <2>2, <2>4, CardsOthers
  <1>2. ASSUME winners' \subseteq winners, UNCHANGED <<issued, page, req>>,
               Doubt({w.nominee : w \in winners \ winners'})
        PROVE  CInv'
    <2>1. seen'.doubted = seen.doubted \cup ({w.nominee : w \in winners \ winners'} \cap Nominees)
      BY <1>2, DoubtSpreads
    <2>2. \A w : Carried(w)' => Carried(w)
      BY <1>2 DEF Carried, Selected, Removing
    <2>3. RowsInv'
      BY <1>2, <2>2, RowsStay DEF CInv
    <2>4. \A n \in Nominees \ seen'.doubted : \A w : w.nominee = n => (w \in winners' <=> w \in winners)
      BY <1>2, <2>1
    <2> QED
      BY <1>2, <2>1, <2>3, <2>4, CardsOthers
  <1>3. ASSUME NEW w \in winners, OtherRemoves(w) PROVE CInv'
    <2>1. {v.nominee : v \in winners \ winners'} = {w.nominee}
      BY <1>3 DEF OtherRemoves
    <2> QED
      BY <1>2, <1>3, <2>1 DEF OtherRemoves
  <1>4. ASSUME NEW id \in spent, DeleteRow(id) PROVE CInv'
    <2>1. winners' \subseteq winners
      BY <1>4 DEF DeleteRow
    <2> QED
      BY <1>2, <1>4, <2>1 DEF DeleteRow
  <1>5. CASE UNCHANGED <<winners, issued, pageVars>>
    BY <1>5, CardsStutter DEF pageVars
  <1> QED
    BY <1>1, <1>3, <1>4, <1>5 DEF Others

LEMMA CardsKeep == ASSUME PInv, CInv, [Next]_vars PROVE CInv'
  <1>1. CASE UNCHANGED <<winners, issued, pageVars>>
    BY <1>1, CardsStutter DEF pageVars
  <1>2. CASE OpenPage
    <2>1. /\ UNCHANGED <<winners, issued, req, seen>> /\ page.at = "closed"
          /\ page'.at = "loading" /\ page'.winners = {}
      BY <1>2 DEF OpenPage, Closed
    <2>2. /\ \A s \in Slots : (Selected(s)' <=> Selected(s)) /\ (Removing(s)' <=> Removing(s))
          /\ \A n \in Nominees \ seen.doubted : FALSE
      BY <2>1 DEF CInv, Card, Selected, Removing
    <2>3. \A w : Carried(w)' => Carried(w)
      BY <2>1, <2>2 DEF Carried
    <2>4. RowsInv'
      BY <2>1, <2>3, RowsStay DEF CInv
    <2> QED
      BY <2>1, <2>2, <2>4 DEF CInv, Apart, Waiting
  <1>3. CASE Render
    <2>1. /\ page'.got = page.got /\ page'.winners = page.winners /\ page'.at = "ready"
          /\ UNCHANGED <<winners, issued, req, seen>>
      BY <1>3 DEF Render, PInv, Shaped
    <2> QED
      BY <2>1, CardsStutter
  <1>4. ASSUME NEW s \in Slots, SelectWinner(s) PROVE CInv'
    <2>1. PICK n \in page.shown : Request(s, "select", [NoRow EXCEPT !.nominee = n])
      BY <1>4 DEF SelectWinner
    <2> QED
      BY <2>1, CardsSend
  <1>5. ASSUME NEW s \in Slots, RemoveWinner(s) PROVE CInv'
    <2>1. PICK w \in page.winners : Request(s, "remove", w)
      BY <1>5 DEF RemoveWinner
    <2> QED
      BY <2>1, CardsSend
  <1>6. ASSUME NEW s \in Slots, Serve(s) \/ Deny(s) PROVE CInv'
    <2>1. req[s].pc = "sent" /\ Effect(s) /\ page' = page
      BY <1>6 DEF Serve, Deny
    <2>2. req[s].op = "select" \/ req[s].op = "remove"
      BY <2>1 DEF Effect
    <2> QED
      BY <1>6, <2>1, <2>2, CardsSelected, CardsRemoved, CardsDeny
  <1> QED
    BY <1>1, <1>2, <1>3, <1>4, <1>5, <1>6, CardsBegin, CardsLeave, CardsHear, CardsLose,
       CardsRefuse, CardsAmongOthers
    DEF Next, OtherReads, vars

\* A card with nothing in flight for its nominee shows the table, whatever order the
\* answers come in and whatever was lost or done by others for the other nominees.
THEOREM CardsAlwaysExact == Spec => []CardsExact
  <1>1. Init => CInv
    BY DEF Init, CInv, RowsInv, Carried, Apart, Waiting, Selected, Removing, Closed, NoRequest
  <1>2. CInv => CardsExact
    <2> SUFFICES ASSUME CInv, NEW n \in Nominees \ seen.doubted,
                        \A s \in Slots : req[s].row.nominee # n,
                        NEW w, w.nominee = n
                 PROVE  w \in page.winners <=> w \in winners
      BY DEF CardsExact
    <2>1. w \in winners <=> Pending(w)
      BY DEF CInv, Card
    <2>2. \A s \in Slots : ~(Selected(s) /\ req[s].row = w)
      OBVIOUS
    <2>3. ASSUME w \in page.winners, NEW s \in Slots, Removed(s) PROVE req[s].row.id # w.id
      <3>1. Carried(w) /\ Carried(req[s].row)
        BY <2>3 DEF Carried, Removed, Removing
      <3> QED
        BY <3>1 DEF CInv, RowsInv
    <2> QED
      BY <2>1, <2>2, <2>3 DEF Pending
  <1> QED
    BY <1>1, <1>2, InitHolds, NextKeeps, CardsKeep, PTL DEF Spec

-----------------------------------------------------------------------------
(* The lists: which rows the sequences of Listing hold *)

LEMMA LeastNumber == ASSUME NEW T \in SUBSET Nat, T # {}
                     PROVE  \E n \in T : \A m \in T : n <= m
  <1>1. PICK n \in T : \A m \in T : <<m, n>> \notin OpToRel(<, Nat)
    BY WFMin, NatLessThanWellFounded
  <1>2. \A m \in T : ~ (m < n)
    BY <1>1 DEF OpToRel
  <1> QED
    BY <1>2

LEMMA SetOfSeq == ASSUME NEW S, NEW s \in Seq(S)
                  PROVE  /\ ToSet(s) = {s[i] : i \in 1..Len(s)}
                         /\ ToSet(s) \subseteq S
                         /\ Len(s) \in Nat
                         /\ s = <<>> => ToSet(s) = {}
  BY DEF ToSet

LEMMA SetOfPrefix == ASSUME NEW S, NEW s \in Seq(S), NEW k \in 0..Len(s)
                     PROVE  /\ SubSeq(s, 1, k) \in Seq(S)
                            /\ Len(SubSeq(s, 1, k)) = k
                            /\ ToSet(SubSeq(s, 1, k)) \subseteq ToSet(s)
                            /\ k = Len(s) => SubSeq(s, 1, k) = s
  <1>1. \A i \in 1..k : s[i] \in S
    OBVIOUS
  <1>2. /\ SubSeq(s, 1, k) \in Seq(S)
        /\ Len(SubSeq(s, 1, k)) = k
        /\ \A i \in 1..k : SubSeq(s, 1, k)[i] = s[i]
    <2>1. 1 \in Int /\ k \in Int
      OBVIOUS
    <2>2. /\ SubSeq(s, 1, k) \in Seq(S)
          /\ Len(SubSeq(s, 1, k)) = IF 1 <= k THEN k - 1 + 1 ELSE 0
          /\ \A i \in 1..(k - 1 + 1) : SubSeq(s, 1, k)[i] = s[1 + i - 1]
      BY <1>1, <2>1, SubSeqProperties
    <2> QED
      BY <2>2
  <1>3. k = Len(s) => SubSeq(s, 1, k) = s
    BY SubSeqFull
  <1> DEFINE p == SubSeq(s, 1, k)
  <1> HIDE DEF p
  <1>4. p \in Seq(S) /\ Len(p) = k /\ \A i \in 1..k : p[i] = s[i]
    BY <1>2 DEF p
  <1>5. ToSet(p) \subseteq ToSet(s)
    BY <1>4 DEF ToSet
  <1> QED
    BY <1>3, <1>4, <1>5 DEF p

\* w is s with x at place k.
HasInserted(w, s, k, x) ==
    \A i \in 1..(Len(s) + 1) : w[i] = IF i < k THEN s[i] ELSE IF i = k THEN x ELSE s[i - 1]

LEMMA ElementsOfInsert ==
    ASSUME NEW S, NEW s \in Seq(S), NEW k \in 1..(Len(s) + 1), NEW x \in S
    PROVE  /\ InsertAt(s, k, x) \in Seq(S)
           /\ Len(InsertAt(s, k, x)) = Len(s) + 1
           /\ HasInserted(InsertAt(s, k, x), s, k, x)
  <1> DEFINE a == SubSeq(s, 1, k - 1)
             c == SubSeq(s, k, Len(s))
             b == a \o <<x>>
  <1>0. Len(s) \in Nat /\ k - 1 \in 0..Len(s) /\ k \in Int /\ Len(s) \in Int /\ k \in Nat
    OBVIOUS
  <1>1. a \in Seq(S) /\ Len(a) = k - 1 /\ \A i \in 1..(k - 1) : a[i] = s[i]
    <2>1. /\ SubSeq(s, 1, k - 1) \in Seq(S)
          /\ Len(SubSeq(s, 1, k - 1)) = IF 1 <= k - 1 THEN (k - 1) - 1 + 1 ELSE 0
          /\ \A i \in 1..((k - 1) - 1 + 1) : SubSeq(s, 1, k - 1)[i] = s[1 + i - 1]
      BY <1>0, SubSeqProperties
    <2> QED
      BY <1>0, <2>1
  <1>2. /\ c \in Seq(S) /\ Len(c) = Len(s) - k + 1
        /\ \A i \in 1..(Len(s) - k + 1) : c[i] = s[k + i - 1]
    <2>1. /\ SubSeq(s, k, Len(s)) \in Seq(S)
          /\ Len(SubSeq(s, k, Len(s))) = IF k <= Len(s) THEN Len(s) - k + 1 ELSE 0
          /\ \A i \in 1..(Len(s) - k + 1) : SubSeq(s, k, Len(s))[i] = s[k + i - 1]
      BY <1>0, SubSeqProperties
    <2> QED
      BY <1>0, <2>1
  <1> HIDE DEF a, c
  <1>3. b \in Seq(S) /\ Len(b) = k /\ b[k] = x /\ \A i \in 1..(k - 1) : b[i] = s[i]
    BY <1>0, <1>1
  <1> HIDE DEF b
  <1> DEFINE w == b \o c
  <1>4. /\ w \in Seq(S) /\ Len(w) = Len(s) + 1
        /\ \A i \in 1..(Len(s) + 1) : w[i] = IF i <= k THEN b[i] ELSE c[i - k]
    BY <1>0, <1>2, <1>3, ConcatProperties
  <1>5. InsertAt(s, k, x) = w
    BY DEF InsertAt, a, b, c
  <1> HIDE DEF w
  <1>6. \A i \in 1..(Len(s) + 1) : w[i] = IF i < k THEN s[i] ELSE IF i = k THEN x ELSE s[i - 1]
    <2> SUFFICES ASSUME NEW i \in 1..(Len(s) + 1)
                 PROVE  w[i] = IF i < k THEN s[i] ELSE IF i = k THEN x ELSE s[i - 1]
      OBVIOUS
    <2>1. CASE i < k
      <3>1. i \in 1..(k - 1) /\ i <= k
        BY <1>0, <2>1
      <3> QED
        BY <1>3, <1>4, <2>1, <3>1
    <2>2. CASE i = k
      BY <1>0, <1>3, <1>4, <2>2
    <2>3. CASE i > k
      <3>1. /\ i - k \in 1..(Len(s) - k + 1) /\ ~ (i <= k) /\ ~ (i < k) /\ i # k
            /\ k + (i - k) - 1 = i - 1
        BY <1>0, <2>3
      <3>2. w[i] = c[i - k] /\ c[i - k] = s[k + (i - k) - 1]
        BY <1>2, <1>4, <3>1
      <3> QED
        BY <3>1, <3>2
    <2> QED
      BY <1>0, <2>1, <2>2, <2>3
  <1> QED
    BY <1>4, <1>5, <1>6 DEF HasInserted

LEMMA SetOfInsert == ASSUME NEW S, NEW s \in Seq(S), NEW k \in 1..(Len(s) + 1), NEW x \in S
                     PROVE  /\ InsertAt(s, k, x) \in Seq(S)
                            /\ ToSet(InsertAt(s, k, x)) = ToSet(s) \cup {x}
  <1>0. Len(s) \in Nat /\ k \in 1..(Len(s) + 1) /\ k \in Nat
    OBVIOUS
  <1> DEFINE w == InsertAt(s, k, x)
  <1>4. w \in Seq(S) /\ Len(w) = Len(s) + 1 /\ HasInserted(w, s, k, x)
    BY ElementsOfInsert
  <1> HIDE DEF w
  <1>6. \A i \in 1..(Len(s) + 1) : w[i] = IF i < k THEN s[i] ELSE IF i = k THEN x ELSE s[i - 1]
    BY <1>4 DEF HasInserted
  <1>7. DOMAIN w = 1..(Len(s) + 1) /\ DOMAIN s = 1..Len(s)
    BY <1>4
  <1>8. ASSUME NEW i \in DOMAIN w PROVE w[i] \in ToSet(s) \cup {x}
    <2>1. i < k => i \in DOMAIN s
      BY <1>0, <1>7
    <2>2. ~ (i < k) /\ i # k => i - 1 \in DOMAIN s
      BY <1>0, <1>7
    <2> QED
      BY <1>6, <1>7, <2>1, <2>2 DEF ToSet
  <1>9. k \in DOMAIN w /\ w[k] = x
    BY <1>0, <1>6, <1>7
  <1>10. ASSUME NEW i \in DOMAIN s PROVE \E j \in DOMAIN w : w[j] = s[i]
    <2>1. CASE i < k
      <3>1. i \in DOMAIN w /\ w[i] = s[i]
        BY <1>0, <1>6, <1>7, <2>1
      <3> QED
        BY <3>1
    <2>2. CASE ~ (i < k)
      <3>1. i + 1 \in DOMAIN w /\ ~ (i + 1 < k) /\ i + 1 # k /\ (i + 1) - 1 = i
        BY <1>0, <1>7, <2>2
      <3>2. w[i + 1] = s[i]
        BY <1>6, <1>7, <3>1
      <3> QED
        BY <3>1, <3>2
    <2> QED
      BY <2>1, <2>2
  <1>11. ToSet(w) = ToSet(s) \cup {x}
    BY <1>8, <1>9, <1>10 DEF ToSet
  <1> QED
    BY <1>4, <1>11 DEF w

LEMMA SetOfAppend == ASSUME NEW S, NEW q \in Seq(S), NEW x \in S
                     PROVE  /\ Append(q, x) \in Seq(S)
                            /\ ToSet(Append(q, x)) = ToSet(q) \cup {x}
  <1> DEFINE w == Append(q, x)
  <1>1. /\ w \in Seq(S) /\ Len(w) = Len(q) + 1 /\ Len(q) \in Nat
        /\ \A i \in 1..Len(q) : w[i] = q[i]
        /\ w[Len(q) + 1] = x
    BY AppendProperties, LenProperties
  <1> HIDE DEF w
  <1>2. DOMAIN w = 1..(Len(q) + 1) /\ DOMAIN q = 1..Len(q)
    BY <1>1
  <1>3. DOMAIN w = DOMAIN q \cup {Len(q) + 1}
    BY <1>1, <1>2
  <1>4. ToSet(w) = ToSet(q) \cup {x}
    BY <1>1, <1>2, <1>3 DEF ToSet
  <1> QED
    BY <1>1, <1>4 DEF w

\* The recursion of Keep.
Kept(s, K, f, i) == IF i = 0 THEN <<>>
                    ELSE IF s[i] \in K THEN Append(f[i - 1], s[i])
                    ELSE f[i - 1]
IsKept(s, K, n, f) == f = [i \in 0..n |-> Kept(s, K, f, i)]

\* There is a function that satisfies it: otherwise take the least length without one.
LEMMA KeptExists == ASSUME NEW s, NEW K, NEW n \in Nat
                    PROVE  \E f : IsKept(s, K, n, f)
  <1> DEFINE T == {m \in Nat : ~ \E f : IsKept(s, K, m, f)}
  <1>1. SUFFICES ASSUME T # {} PROVE FALSE
    OBVIOUS
  <1>2. PICK m \in T : \A k \in T : m <= k
    BY <1>1, LeastNumber
  <1>3. m \in Nat /\ ~ \E f : IsKept(s, K, m, f)
    BY <1>2
  <1>4. CASE m = 0
    <2> DEFINE f == [i \in 0..0 |-> <<>>]
    <2>1. \A i \in 0..0 : Kept(s, K, f, i) = <<>>
      BY DEF Kept
    <2>2. IsKept(s, K, 0, f)
      BY <2>1 DEF IsKept
    <2> QED
      BY <1>3, <1>4, <2>2
  <1>5. CASE m # 0
    <2>1. m - 1 \in Nat /\ ~ (m <= m - 1)
      BY <1>3, <1>5
    <2>2. PICK f : IsKept(s, K, m - 1, f)
      BY <1>2, <2>1
    <2> DEFINE g == [i \in 0..m |-> IF i = m THEN Kept(s, K, f, m) ELSE f[i]]
    <2>3. \A i \in 0..(m - 1) : f[i] = Kept(s, K, f, i)
      BY <2>2 DEF IsKept
    <2>4. \A i \in 0..(m - 1) : g[i] = f[i]
      BY <1>3, <2>1
    <2>5. g[m] = Kept(s, K, f, m) /\ DOMAIN g = 0..m /\ g = [i \in 0..m |-> g[i]]
      BY <1>3
    <2> HIDE DEF g
    <2>6. \A i \in 0..m : Kept(s, K, g, i) = Kept(s, K, f, i)
      <3> SUFFICES ASSUME NEW i \in 0..m PROVE Kept(s, K, g, i) = Kept(s, K, f, i)
        OBVIOUS
      <3>1. i = 0 \/ i - 1 \in 0..(m - 1)
        BY <1>3
      <3>2. i = 0 \/ g[i - 1] = f[i - 1]
        BY <2>4, <3>1
      <3> QED
        BY <3>2 DEF Kept
    <2>7. \A i \in 0..m : i = m \/ i \in 0..(m - 1)
      BY <1>3
    <2>8. \A i \in 0..m : g[i] = Kept(s, K, g, i)
      BY <2>3, <2>4, <2>5, <2>6, <2>7
    <2>9. IsKept(s, K, m, g)
      BY <2>5, <2>8 DEF IsKept
    <2> QED
      BY <1>3, <2>9
  <1> QED
    BY <1>4, <1>5

Firsts(s, i) == {s[j] : j \in 1..i}

LEMMA KeptHolds ==
    ASSUME NEW S, NEW s \in Seq(S), NEW K, NEW f, IsKept(s, K, Len(s), f)
    PROVE  \A i \in 0..Len(s) : /\ f[i] \in Seq(S)
                                /\ ToSet(f[i]) = Firsts(s, i) \cap K
  <1> DEFINE Fine(i) == f[i] \in Seq(S) /\ ToSet(f[i]) = Firsts(s, i) \cap K
             T == {i \in 0..Len(s) : ~Fine(i)}
  <1>1. SUFFICES ASSUME T # {} PROVE FALSE
    OBVIOUS
  <1>2. Len(s) \in Nat /\ T \in SUBSET Nat
    BY LenProperties
  <1>3. PICK m \in T : \A k \in T : m <= k
    BY <1>1, <1>2, LeastNumber
  <1>4. m \in 0..Len(s) /\ ~Fine(m) /\ f[m] = Kept(s, K, f, m)
    BY <1>3 DEF IsKept
  <1>5. m # 0
    <2> SUFFICES ASSUME m = 0 PROVE FALSE
      OBVIOUS
    <2>1. f[m] = <<>> /\ Firsts(s, m) = {}
      BY <1>4 DEF Kept, Firsts
    <2>2. <<>> \in Seq(S) /\ ToSet(<<>>) = {}
      BY DEF ToSet
    <2> QED
      BY <1>4, <2>1, <2>2
  <1>6. m - 1 \in 0..Len(s) /\ ~ (m <= m - 1) /\ m \in 1..Len(s) /\ 1..m = 1..(m - 1) \cup {m}
    BY <1>2, <1>4, <1>5
  <1>7. Fine(m - 1)
    BY <1>3, <1>6
  <1>8. s[m] \in S
    BY <1>6
  <1>9. Firsts(s, m) = Firsts(s, m - 1) \cup {s[m]}
    BY <1>6 DEF Firsts
  <1>10. CASE s[m] \in K
    <2>1. f[m] = Append(f[m - 1], s[m])
      BY <1>4, <1>5, <1>10 DEF Kept
    <2>2. f[m] \in Seq(S) /\ ToSet(f[m]) = ToSet(f[m - 1]) \cup {s[m]}
      BY <1>7, <1>8, <2>1, SetOfAppend
    <2> QED
      BY <1>4, <1>7, <1>9, <1>10, <2>2
  <1>11. CASE s[m] \notin K
    <2>1. f[m] = f[m - 1]
      BY <1>4, <1>5, <1>11 DEF Kept
    <2> QED
      BY <1>4, <1>7, <1>9, <1>11, <2>1
  <1> QED
    BY <1>10, <1>11

\* Keep returns what SelectSeq would, as far as its elements go.
LEMMA SetOfKeep == ASSUME NEW S, NEW s \in Seq(S), NEW K
                   PROVE  /\ Keep(s, K) \in Seq(S)
                          /\ ToSet(Keep(s, K)) = ToSet(s) \cap K
  <1> DEFINE kept == CHOOSE f : IsKept(s, K, Len(s), f)
  <1>1. Len(s) \in Nat
    BY LenProperties
  <1>2. IsKept(s, K, Len(s), kept)
    BY <1>1, KeptExists
  <1>3. Keep(s, K) = kept[Len(s)]
    BY DEF Keep, IsKept, Kept
  <1> HIDE DEF kept
  <1>4. \A i \in 0..Len(s) : /\ kept[i] \in Seq(S)
                             /\ ToSet(kept[i]) = Firsts(s, i) \cap K
    BY <1>2, KeptHolds
  <1>5. kept[Len(s)] \in Seq(S) /\ ToSet(kept[Len(s)]) = Firsts(s, Len(s)) \cap K
    BY <1>1, <1>4
  <1> QED
    BY <1>3, <1>5, SetOfSeq DEF Firsts

LEMMA SetOfTail == ASSUME NEW S, NEW s \in Seq(S), s # <<>>
                   PROVE  /\ Head(s) \in S
                          /\ Tail(s) \in Seq(S)
                          /\ ToSet(s) = {Head(s)} \cup ToSet(Tail(s))
  <1> DEFINE w == Tail(s)
  <1>1. /\ Head(s) \in S /\ w \in Seq(S) /\ Len(w) = Len(s) - 1 /\ Len(s) \in Nat \ {0}
        /\ \A i \in 1..Len(w) : w[i] = s[i + 1]
    BY HeadTailProperties, EmptySeq
  <1>2. Head(s) = s[1]
    OBVIOUS
  <1> HIDE DEF w
  <1>3. DOMAIN w = 1..(Len(s) - 1) /\ DOMAIN s = 1..Len(s)
    BY <1>1
  <1>4. ASSUME NEW i \in DOMAIN s PROVE s[i] = s[1] \/ \E j \in DOMAIN w : w[j] = s[i]
    <2>1. i = 1 \/ (i - 1 \in DOMAIN w /\ (i - 1) + 1 = i /\ i - 1 \in 1..Len(w))
      BY <1>1, <1>3
    <2> QED
      BY <1>1, <2>1
  <1>5. ASSUME NEW j \in DOMAIN w PROVE j + 1 \in DOMAIN s /\ w[j] = s[j + 1]
    BY <1>1, <1>3
  <1>6. 1 \in DOMAIN s
    BY <1>1, <1>3
  <1>7. ToSet(s) = {s[1]} \cup ToSet(w)
    BY <1>4, <1>5, <1>6 DEF ToSet
  <1> QED
    BY <1>1, <1>2, <1>7 DEF w

\* What a limited read of rows returns, all of it or what came before the connection broke.
LEMMA SetOfLimited ==
    ASSUME NEW S, NEW rows \in Seq(S)
    PROVE  /\ Limited(rows) \in Seq(S)
           /\ ToSet(Limited(rows)) \subseteq ToSet(rows)
           /\ Len(rows) <= Limit => Limited(rows) = rows
           /\ \A k \in 0..Len(Limited(rows)) :
                 /\ ToSet(SubSeq(Limited(rows), 1, k)) \subseteq ToSet(rows)
                 /\ k = Len(Limited(rows)) /\ Len(rows) <= Limit
                       => ToSet(SubSeq(Limited(rows), 1, k)) = ToSet(rows)
  <1>1. Len(rows) \in Nat /\ Limit \in Nat
    BY LenProperties, LimitAssumption
  <1>2. PICK m \in 0..Len(rows) : /\ Limited(rows) = SubSeq(rows, 1, m)
                                  /\ Len(rows) <= Limit => m = Len(rows)
    BY <1>1 DEF Limited
  <1> DEFINE l == Limited(rows)
  <1>3. /\ l \in Seq(S)
        /\ ToSet(l) \subseteq ToSet(rows)
        /\ Len(rows) <= Limit => l = rows
    BY <1>2, SetOfPrefix
  <1> HIDE DEF l
  <1>4. ASSUME NEW k \in 0..Len(l)
        PROVE  /\ ToSet(SubSeq(l, 1, k)) \subseteq ToSet(l)
               /\ k = Len(l) => SubSeq(l, 1, k) = l
    BY <1>3, SetOfPrefix
  <1> QED
    BY <1>3, <1>4 DEF l

-----------------------------------------------------------------------------
(* The requests that list nominees *)

\* What is still to be read, of the three tables and of one category.
T0 == Reads
T1 == <<"nominees", "movies">>
T2 == <<"movies">>
T3 == <<>>
N1 == <<"nominees">>

TablesTyped == /\ table = [t \in Tables |-> table[t]]
               /\ table["categories"] \in Seq(Categories)
               /\ table["movies"] \in Seq(Movies)
               /\ table["nominees"] \in Seq(Nominees)

ReadShaped == /\ read = [kind |-> read.kind, todo |-> read.todo, categories |-> read.categories,
                         nominees |-> read.nominees, movies |-> read.movies,
                         begun |-> read.begun, whole |-> read.whole]
              /\ read.kind \in {"none", "all", "category"}
              /\ read.categories \subseteq Categories
              /\ read.movies \subseteq Movies
              /\ read.nominees \cup read.begun \subseteq Nominees
              /\ read.whole \in BOOLEAN

\* No id is given out twice, and a nominee stands with its category and its movie.
IdsSpent == /\ spent \subseteq Categories \cup Movies \cup Nominees
            /\ \A t \in Tables : Present(t) \subseteq spent
            /\ read.nominees \cup read.begun \subseteq spent

KeysHold == \A n \in Present("nominees") : /\ CategoryOf[n] \in Present("categories")
                                           /\ MovieOf[n] \in Present("movies")

Remaining == read.begun \cap Present("nominees")

\* What the reads of NomineesByCategory that are done have brought.
AllGathers ==
    read.kind = "all" =>
       /\ read.todo \in {T0, T1, T2, T3}
       /\ read.whole =>
             /\ read.todo # T0 => \A n \in Remaining : CategoryOf[n] \in read.categories
             /\ read.todo \in {T2, T3} => Remaining \subseteq read.nominees
             /\ read.todo = T3 => \A n \in read.nominees \cap Present("nominees") :
                                     MovieOf[n] \in read.movies

\* What the reads of ListNominatedsByCategory that are done have brought.
CategoryGathers ==
    read.kind = "category" =>
       /\ \A c, d \in read.categories : c = d
       /\ \A n \in read.begun : CategoryOf[n] \in read.categories
       /\ read.todo # N1 =>
             /\ read.todo \in Seq(Nominees)
             /\ read.whole =>
                   /\ Remaining \subseteq read.nominees
                   /\ \A n \in read.nominees \cap Present("nominees") :
                         n \in ToSet(read.todo) \/ MovieOf[n] \in read.movies

LInv == TablesTyped /\ ReadShaped /\ IdsSpent /\ KeysHold /\ AllGathers /\ CategoryGathers

\* A list that is whole tells of every nominee that has stayed.
LEMMA ListsTell == LInv => StableListed /\ TitlesKnown
  <1> SUFFICES ASSUME LInv, Done, read.whole
               PROVE  /\ read.begun \cap Present("nominees") \subseteq Shown
                      /\ Shown \cap Present("nominees") \subseteq Titled
    BY DEF StableListed, TitlesKnown
  <1>1. read.todo = <<>> /\ (read.kind = "all" \/ read.kind = "category")
    BY DEF Done, LInv, ReadShaped
  <1>2. T3 # T0 /\ <<>> = T3 /\ <<>> # N1 /\ T3 \in {T2, T3}
    BY DEF T0, T3, N1, Reads
  <1>3. Remaining \subseteq read.nominees
    BY <1>1, <1>2 DEF LInv, AllGathers, CategoryGathers
  <1>4. \A n \in Remaining : CategoryOf[n] \in read.categories
    BY <1>1, <1>2 DEF LInv, AllGathers, CategoryGathers, Remaining
  <1>5. \A n \in read.nominees \cap Present("nominees") : MovieOf[n] \in read.movies
    <2>1. CASE read.kind = "all"
      BY <1>1, <1>2, <2>1 DEF LInv, AllGathers
    <2>2. CASE read.kind = "category"
      <3>1. ToSet(read.todo) = {}
        BY <1>1 DEF ToSet
      <3> QED
        BY <1>1, <1>2, <2>2, <3>1 DEF LInv, CategoryGathers
    <2> QED
      BY <1>1, <2>1, <2>2
  <1> QED
    BY <1>3, <1>4, <1>5 DEF Shown, Titled, Remaining

\* The rows of a table.
LEMMA PresentRows == ASSUME TablesTyped
                     PROVE  /\ Present("categories") \subseteq Categories
                            /\ Present("movies") \subseteq Movies
                            /\ Present("nominees") \subseteq Nominees
  BY SetOfSeq DEF TablesTyped, Present

\* A step that reads leaves the tables and what is known of them alone.
LEMMA TablesStay == ASSUME LInv, UNCHANGED <<table, spent>>,
                           read'.nominees \cup read'.begun \subseteq spent
                    PROVE  /\ TablesTyped' /\ KeysHold' /\ IdsSpent'
                           /\ \A t : Present(t)' = Present(t)
  BY DEF LInv, TablesTyped, KeysHold, IdsSpent, Present

LEMMA TodoFacts == /\ Head(T0) = "categories" /\ Tail(T0) = T1
                   /\ Head(T1) = "nominees" /\ Tail(T1) = T2
                   /\ Head(T2) = "movies" /\ Tail(T2) = T3
                   /\ T0 # T1 /\ T0 # T2 /\ T0 # T3 /\ T1 # T2 /\ T1 # T3 /\ T2 # T3
                   /\ T3 # N1
  BY DEF T0, T1, T2, T3, N1, Reads

LEMMA NoReadKeeps == ASSUME LInv, read' = NoRead, UNCHANGED <<table, spent>>
                     PROVE  LInv'
  <1>1. /\ read'.kind = "none" /\ read'.nominees = {} /\ read'.begun = {}
        /\ read'.categories = {} /\ read'.movies = {} /\ read'.whole = TRUE
        /\ ReadShaped'
    BY DEF NoRead, ReadShaped
  <1>2. TablesTyped' /\ KeysHold' /\ IdsSpent'
    BY <1>1, TablesStay
  <1> QED
    BY <1>1, <1>2 DEF LInv, AllGathers, CategoryGathers

LEMMA AskAllKeeps == ASSUME LInv, AskAll
                     PROVE  LInv'
  <1>1. /\ read'.kind = "all" /\ read'.todo = T0 /\ read'.nominees = {} /\ read'.categories = {}
        /\ read'.movies = {} /\ read'.begun = Present("nominees") /\ read'.whole = TRUE
        /\ read' = [kind |-> read'.kind, todo |-> read'.todo, categories |-> read'.categories,
                    nominees |-> read'.nominees, movies |-> read'.movies,
                    begun |-> read'.begun, whole |-> read'.whole]
    BY DEF AskAll, NoRead, T0
  <1>2. Present("nominees") \subseteq Nominees /\ Present("nominees") \subseteq spent
    BY PresentRows DEF LInv, IdsSpent, Tables
  <1>3. ReadShaped'
    BY <1>1, <1>2 DEF ReadShaped
  <1>4. TablesTyped' /\ KeysHold' /\ IdsSpent'
    BY <1>1, <1>2, TablesStay DEF AskAll
  <1>5. AllGathers'
    BY <1>1, TodoFacts DEF AllGathers
  <1>6. CategoryGathers'
    BY <1>1 DEF CategoryGathers
  <1> QED
    BY <1>3, <1>4, <1>5, <1>6 DEF LInv

\* What a read of the rows brings.
LEMMA RowsRead == ASSUME NEW S, NEW s \in Seq(S), NEW k \in 0..Len(Limited(s)), NEW X,
                         X = ToSet(SubSeq(Limited(s), 1, k))
                  PROVE  /\ X \subseteq ToSet(s)
                         /\ k = Len(Limited(s)) /\ Len(s) <= Limit => X = ToSet(s)
  BY SetOfLimited

\* One of the three reads: X is what it brings.
LEMMA ReadTableKeeps == ASSUME LInv, ReadTable
                        PROVE  LInv'
  <1>1. read.kind = "all" /\ read.todo # T3 /\ UNCHANGED <<table, spent>>
    BY DEF ReadTable, T3
  <1>2. read.todo \in {T0, T1, T2}
    BY <1>1 DEF LInv, AllGathers
  <1> DEFINE Bring(t, X, all) == read' = [read EXCEPT ![t] = X, !.todo = Tail(@),
                                                      !.whole = @ /\ all]
             Brought(t, X, all) == /\ X \subseteq Present(t)
                                   /\ all => X = Present(t)
                                   /\ all \in BOOLEAN
  <1>3. \E X, all : Bring(Head(read.todo), X, all) /\ Brought(Head(read.todo), X, all)
    <2> DEFINE t == Head(read.todo)
               rows == Limited(table[t])
    <2>1. PICK k \in 0..Len(rows) :
             read' = [read EXCEPT ![t] = ToSet(SubSeq(rows, 1, k)), !.todo = Tail(@),
                                  !.whole = @ /\ (k = Len(rows)) /\ Len(table[t]) <= Limit]
      BY DEF ReadTable
    <2> DEFINE X == ToSet(SubSeq(rows, 1, k))
               all == (k = Len(rows)) /\ Len(table[t]) <= Limit
    <2>2. \E S : table[t] \in Seq(S)
      BY <1>2, TodoFacts DEF LInv, TablesTyped
    <2>3. Brought(t, X, all)
      BY <2>2, RowsRead DEF Present
    <2>4. Bring(t, X, all)
      BY <2>1
    <2> QED
      BY <2>3, <2>4
  <1>4. PICK X, all : Bring(Head(read.todo), X, all) /\ Brought(Head(read.todo), X, all)
    BY <1>3
  <1>5. \A t : Present(t)' = Present(t)
    BY <1>1 DEF Present
  <1>6. /\ Present("categories") \subseteq Categories /\ Present("movies") \subseteq Movies
        /\ Present("nominees") \subseteq Nominees /\ Present("nominees") \subseteq spent
    BY PresentRows DEF LInv, IdsSpent, Tables
  <1>7. CASE read.todo = T0
    <2>1. Bring("categories", X, all) /\ Brought("categories", X, all)
      BY <1>4, <1>7, TodoFacts
    <2>2. /\ read' = [kind |-> "all", todo |-> T1, categories |-> X, nominees |-> read.nominees,
                      movies |-> read.movies, begun |-> read.begun, whole |-> read.whole /\ all]
      BY <1>1, <1>7, <2>1, TodoFacts DEF LInv, ReadShaped
    <2>3. /\ read'.kind = "all" /\ read'.todo = T1 /\ read'.categories = X
          /\ read'.nominees = read.nominees /\ read'.begun = read.begun
          /\ read'.whole = (read.whole /\ all)
      BY <2>2
    <2>4. ReadShaped'
      BY <1>6, <2>1, <2>2 DEF LInv, ReadShaped
    <2>5. TablesTyped' /\ KeysHold' /\ IdsSpent'
      BY <1>1, <2>3, TablesStay DEF LInv, IdsSpent
    <2>6. AllGathers'
      <3>1. read'.whole => \A n \in Remaining' : CategoryOf[n] \in read'.categories
        BY <1>5, <2>1, <2>3 DEF LInv, KeysHold, Remaining
      <3> QED
        BY <2>3, <3>1, TodoFacts DEF AllGathers
    <2>7. CategoryGathers'
      BY <2>3 DEF CategoryGathers
    <2> QED
      BY <2>4, <2>5, <2>6, <2>7 DEF LInv
  <1>8. CASE read.todo = T1
    <2>1. Bring("nominees", X, all) /\ Brought("nominees", X, all)
      BY <1>4, <1>8, TodoFacts
    <2>2. /\ read' = [kind |-> "all", todo |-> T2, categories |-> read.categories, nominees |-> X,
                      movies |-> read.movies, begun |-> read.begun, whole |-> read.whole /\ all]
      BY <1>1, <1>8, <2>1, TodoFacts DEF LInv, ReadShaped
    <2>3. /\ read'.kind = "all" /\ read'.todo = T2 /\ read'.categories = read.categories
          /\ read'.nominees = X /\ read'.begun = read.begun
          /\ read'.whole = (read.whole /\ all)
      BY <2>2
    <2>4. ReadShaped'
      BY <1>6, <2>1, <2>2 DEF LInv, ReadShaped
    <2>5. TablesTyped' /\ KeysHold' /\ IdsSpent'
      BY <1>1, <1>6, <2>1, <2>3, TablesStay DEF LInv, IdsSpent
    <2>6. AllGathers'
      <3>1. read'.whole => \A n \in Remaining' : CategoryOf[n] \in read'.categories
        BY <1>1, <1>5, <1>8, <2>3, TodoFacts DEF LInv, AllGathers, Remaining
      <3>2. read'.whole => Remaining' \subseteq read'.nominees
        BY <1>5, <2>1, <2>3 DEF Remaining
      <3> QED
        BY <2>3, <3>1, <3>2, TodoFacts DEF AllGathers
    <2>7. CategoryGathers'
      BY <2>3 DEF CategoryGathers
    <2> QED
      BY <2>4, <2>5, <2>6, <2>7 DEF LInv
  <1>9. CASE read.todo = T2
    <2>1. Bring("movies", X, all) /\ Brought("movies", X, all)
      BY <1>4, <1>9, TodoFacts
    <2>2. /\ read' = [kind |-> "all", todo |-> T3, categories |-> read.categories,
                      nominees |-> read.nominees, movies |-> X, begun |-> read.begun,
                      whole |-> read.whole /\ all]
      BY <1>1, <1>9, <2>1, TodoFacts DEF LInv, ReadShaped
    <2>3. /\ read'.kind = "all" /\ read'.todo = T3 /\ read'.categories = read.categories
          /\ read'.nominees = read.nominees /\ read'.movies = X /\ read'.begun = read.begun
          /\ read'.whole = (read.whole /\ all)
      BY <2>2
    <2>4. ReadShaped'
      BY <1>6, <2>1, <2>2 DEF LInv, ReadShaped
    <2>5. TablesTyped' /\ KeysHold' /\ IdsSpent'
      BY <1>1, <2>3, TablesStay DEF LInv, IdsSpent
    <2>6. AllGathers'
      <3>1. read'.whole => \A n \in Remaining' : CategoryOf[n] \in read'.categories
        BY <1>1, <1>5, <1>9, <2>3, TodoFacts DEF LInv, AllGathers, Remaining
      <3>2. read'.whole => Remaining' \subseteq read'.nominees
        BY <1>1, <1>5, <1>9, <2>3, TodoFacts DEF LInv, AllGathers, Remaining
      <3>3. read'.whole => \A n \in read'.nominees \cap Present("nominees")' :
                              MovieOf[n] \in read'.movies
        BY <1>5, <2>1, <2>3 DEF LInv, KeysHold
      <3> QED
        BY <2>3, <3>1, <3>2, <3>3, TodoFacts DEF AllGathers
    <2>7. CategoryGathers'
      BY <2>3 DEF CategoryGathers
    <2> QED
      BY <2>4, <2>5, <2>6, <2>7 DEF LInv
  <1> QED
    BY <1>2, <1>7, <1>8, <1>9

-----------------------------------------------------------------------------
(* The list of one category *)

LEMMA InCategory == ASSUME TablesTyped, NEW c
                    PROVE  /\ In(c) \in Seq(Nominees)
                           /\ ToSet(In(c)) = {n \in Present("nominees") : CategoryOf[n] = c}
  <1>1. Present("nominees") \subseteq Nominees
    BY PresentRows
  <1> QED
    BY <1>1, SetOfKeep DEF In, TablesTyped, Present

LEMMA AskCategoryKeeps == ASSUME LInv, NEW c \in Categories, AskCategory(c)
                          PROVE  LInv'
  <1>1. /\ read' = [kind |-> "category", todo |-> N1, categories |-> {c}, nominees |-> {},
                    movies |-> {}, begun |-> ToSet(In(c)), whole |-> TRUE]
        /\ UNCHANGED <<table, spent>>
    BY DEF AskCategory, NoRead, N1
  <1>2. /\ read'.kind = "category" /\ read'.todo = N1 /\ read'.categories = {c}
        /\ read'.nominees = {} /\ read'.movies = {} /\ read'.begun = ToSet(In(c))
        /\ read'.whole = TRUE
    BY <1>1
  <1>3. /\ ToSet(In(c)) = {n \in Present("nominees") : CategoryOf[n] = c}
        /\ Present("nominees") \subseteq Nominees /\ Present("nominees") \subseteq spent
    BY InCategory, PresentRows DEF LInv, IdsSpent, Tables
  <1>4. ReadShaped'
    BY <1>1, <1>3 DEF ReadShaped
  <1>5. TablesTyped' /\ KeysHold' /\ IdsSpent'
    BY <1>1, <1>2, <1>3, TablesStay
  <1>6. AllGathers'
    BY <1>2 DEF AllGathers
  <1>7. CategoryGathers'
    BY <1>2, <1>3 DEF CategoryGathers
  <1> QED
    BY <1>4, <1>5, <1>6, <1>7 DEF LInv

LEMMA ReadCategoryKeeps == ASSUME LInv, ReadCategory
                           PROVE  LInv'
  <1>1. read.kind = "category" /\ read.todo = N1 /\ UNCHANGED <<table, spent>>
    BY DEF ReadCategory, N1
  <1>2. PICK c \in read.categories :
           read' = [read EXCEPT !.nominees = ToSet(Limited(In(c))), !.todo = Limited(In(c)),
                                !.whole = Len(In(c)) <= Limit]
    BY DEF ReadCategory
  <1> DEFINE l == Limited(In(c))
             all == Len(In(c)) <= Limit
  <1>3. /\ l \in Seq(Nominees)
        /\ ToSet(l) \subseteq {n \in Present("nominees") : CategoryOf[n] = c}
        /\ all => ToSet(l) = {n \in Present("nominees") : CategoryOf[n] = c}
        /\ all \in BOOLEAN
    BY InCategory, SetOfLimited DEF LInv
  <1>4. /\ read' = [kind |-> "category", todo |-> l, categories |-> read.categories,
                    nominees |-> ToSet(l), movies |-> read.movies, begun |-> read.begun,
                    whole |-> all]
    BY <1>1, <1>2 DEF LInv, ReadShaped
  <1> HIDE DEF l, all
  <1>5. /\ read'.kind = "category" /\ read'.todo = l /\ read'.categories = read.categories
        /\ read'.nominees = ToSet(l) /\ read'.movies = read.movies /\ read'.begun = read.begun
        /\ read'.whole = all
    BY <1>4
  <1>6. Present("nominees") \subseteq Nominees /\ Present("nominees") \subseteq spent
    BY PresentRows DEF LInv, IdsSpent, Tables
  <1>7. \A t : Present(t)' = Present(t)
    BY <1>1 DEF Present
  <1>8. ReadShaped'
    BY <1>3, <1>4, <1>6 DEF LInv, ReadShaped
  <1>9. TablesTyped' /\ KeysHold' /\ IdsSpent'
    BY <1>1, <1>3, <1>5, <1>6, TablesStay DEF LInv, IdsSpent
  <1>10. AllGathers'
    BY <1>5 DEF AllGathers
  <1>11. CategoryGathers'
    <2>1. /\ \A d, e \in read.categories : d = e
          /\ \A n \in read.begun : CategoryOf[n] \in read.categories
      BY <1>1 DEF LInv, CategoryGathers
    <2>2. all => Remaining' \subseteq ToSet(l)
      BY <1>2, <1>3, <1>5, <1>7, <2>1 DEF Remaining
    <2> QED
      BY <1>3, <1>5, <2>1, <2>2 DEF CategoryGathers
  <1> QED
    BY <1>8, <1>9, <1>10, <1>11 DEF LInv

\* Get of the movie of the next nominee, with an answer or with an error.
LEMMA LookUpKeeps == ASSUME LInv, LookUp
                     PROVE  LInv'
  <1> DEFINE n == Head(read.todo)
             found == {MovieOf[n]} \cap Present("movies")
  <1>1. /\ read.kind = "category" /\ read.todo # <<>> /\ read.todo # N1
        /\ UNCHANGED <<table, spent>>
    BY DEF LookUp, N1
  <1>2. read.todo \in Seq(Nominees)
    BY <1>1 DEF LInv, CategoryGathers
  <1>3. /\ n \in Nominees /\ Tail(read.todo) \in Seq(Nominees)
        /\ ToSet(read.todo) = {n} \cup ToSet(Tail(read.todo))
    BY <1>1, <1>2, SetOfTail
  <1>4. Present("movies") \subseteq Movies
    BY PresentRows DEF LInv
  <1>5. PICK movies, whole :
           /\ read' = [kind |-> "category", todo |-> Tail(read.todo),
                       categories |-> read.categories, nominees |-> read.nominees,
                       movies |-> movies, begun |-> read.begun, whole |-> whole]
           /\ whole \in BOOLEAN
           /\ whole => read.whole /\ found \subseteq movies
           /\ read.movies \subseteq movies /\ movies \subseteq Movies
    <2>1. CASE read' = [read EXCEPT !.todo = Tail(@), !.movies = @ \cup found]
      <3>1. read' = [kind |-> "category", todo |-> Tail(read.todo),
                     categories |-> read.categories, nominees |-> read.nominees,
                     movies |-> read.movies \cup found, begun |-> read.begun,
                     whole |-> read.whole]
        BY <1>1, <2>1 DEF LInv, ReadShaped
      <3>2. read.movies \cup found \subseteq Movies /\ read.whole \in BOOLEAN
        BY <1>4 DEF LInv, ReadShaped
      <3> HIDE DEF found
      <3> QED
        BY <3>1, <3>2
    <2>2. CASE read' = [read EXCEPT !.todo = Tail(@), !.whole = FALSE]
      <3>1. read' = [kind |-> "category", todo |-> Tail(read.todo),
                     categories |-> read.categories, nominees |-> read.nominees,
                     movies |-> read.movies, begun |-> read.begun, whole |-> FALSE]
        BY <1>1, <2>2 DEF LInv, ReadShaped
      <3>2. read.movies \subseteq Movies
        BY DEF LInv, ReadShaped
      <3> HIDE DEF found
      <3> QED
        BY <3>1, <3>2
    <2> QED
      BY <2>1, <2>2 DEF LookUp
  <1>6. /\ read'.kind = "category" /\ read'.todo = Tail(read.todo)
        /\ read'.categories = read.categories /\ read'.nominees = read.nominees
        /\ read'.movies = movies /\ read'.begun = read.begun /\ read'.whole = whole
    BY <1>5
  <1>7. ReadShaped'
    BY <1>5 DEF LInv, ReadShaped
  <1>8. TablesTyped' /\ KeysHold' /\ IdsSpent' /\ \A t : Present(t)' = Present(t)
    BY <1>1, <1>6, TablesStay DEF LInv, IdsSpent
  <1>9. AllGathers'
    BY <1>6 DEF AllGathers
  <1>10. CategoryGathers'
    <2>1. /\ \A d, e \in read.categories : d = e
          /\ \A m \in read.begun : CategoryOf[m] \in read.categories
      BY <1>1 DEF LInv, CategoryGathers
    <2>2. whole => Remaining' \subseteq read.nominees
      BY <1>1, <1>5, <1>6, <1>8 DEF LInv, CategoryGathers, Remaining
    <2>3. ASSUME whole, NEW m \in read.nominees \cap Present("nominees")
          PROVE  m \in ToSet(Tail(read.todo)) \/ MovieOf[m] \in movies
      <3>1. m \in ToSet(read.todo) \/ MovieOf[m] \in read.movies
        BY <1>1, <1>5, <2>3 DEF LInv, CategoryGathers
      <3>2. CASE m = n
        BY <1>5, <2>3, <3>2 DEF LInv, KeysHold
      <3>3. CASE m # n
        BY <1>3, <1>5, <3>1, <3>3
      <3> QED
        BY <3>2, <3>3
    <2> QED
      BY <1>3, <1>6, <1>8, <2>1, <2>2, <2>3 DEF CategoryGathers
  <1> QED
    BY <1>7, <1>8, <1>9, <1>10 DEF LInv

-----------------------------------------------------------------------------
(* Rows come and go *)

\* A nominee that is there after the step, and whose id had been given out, was there before.
LEMMA WritersKeep ==
    ASSUME LInv, read' = read, spent \subseteq spent', TablesTyped', KeysHold',
           spent' \subseteq Categories \cup Movies \cup Nominees,
           \A t \in Tables : Present(t)' \subseteq spent',
           Present("nominees")' \cap spent \subseteq Present("nominees")
    PROVE  LInv'
  <1>1. ReadShaped'
    BY DEF LInv, ReadShaped
  <1>2. IdsSpent'
    BY DEF LInv, IdsSpent
  <1>3. /\ Remaining' \subseteq Remaining
        /\ read'.nominees \cap Present("nominees")' \subseteq read.nominees \cap Present("nominees")
    BY DEF LInv, IdsSpent, Remaining
  <1>4. AllGathers'
    BY <1>3 DEF LInv, AllGathers
  <1>5. CategoryGathers'
    BY <1>3 DEF LInv, CategoryGathers
  <1> QED
    BY <1>1, <1>2, <1>4, <1>5 DEF LInv

LEMMA DeleteKeeps == ASSUME LInv, NEW id, Delete(id)
                     PROVE  LInv' /\ Present("nominees")' \subseteq Present("nominees")
  <1>1. /\ table' = [t \in Tables |-> Keep(table[t], Present(t) \ Gone(id))]
        /\ UNCHANGED <<spent, read>>
        /\ \E t \in Tables : id \in Present(t)
    BY DEF Delete
  <1>2. {"categories", "movies", "nominees"} = Tables
    BY DEF Tables
  <1>3. /\ table' = [t \in Tables |-> table'[t]]
        /\ \A t \in Tables : table'[t] = Keep(table[t], Present(t) \ Gone(id))
    BY <1>1
  <1>4. ASSUME NEW t \in Tables, NEW S, table[t] \in Seq(S)
        PROVE  table'[t] \in Seq(S) /\ ToSet(table'[t]) = Present(t) \ Gone(id)
    <2> DEFINE K == Present(t) \ Gone(id)
    <2>1. Keep(table[t], K) \in Seq(S) /\ ToSet(Keep(table[t], K)) = ToSet(table[t]) \cap K
      BY <1>4, SetOfKeep
    <2>2. ToSet(table[t]) \cap K = Present(t) \ Gone(id)
      BY DEF Present
    <2> QED
      BY <1>3, <2>1, <2>2
  <1>5. /\ table["categories"] \in Seq(Categories)
        /\ table["movies"] \in Seq(Movies)
        /\ table["nominees"] \in Seq(Nominees)
    BY DEF LInv, TablesTyped
  <1>6. /\ table'["categories"] \in Seq(Categories)
        /\ table'["movies"] \in Seq(Movies)
        /\ table'["nominees"] \in Seq(Nominees)
    BY <1>2, <1>4, <1>5
  <1>7. \A t \in Tables : Present(t)' = Present(t) \ Gone(id)
    BY <1>4, <1>5 DEF Present, Tables
  <1>8. /\ Present("nominees")' = Present("nominees") \ Gone(id)
        /\ Present("categories")' = Present("categories") \ Gone(id)
        /\ Present("movies")' = Present("movies") \ Gone(id)
    BY <1>2, <1>7
  <1>9. TablesTyped'
    BY <1>3, <1>6 DEF TablesTyped
  <1>10. KeysHold'
    <2>1. ASSUME NEW n \in Present("nominees"), n \notin Gone(id)
          PROVE  CategoryOf[n] \notin Gone(id) /\ MovieOf[n] \notin Gone(id)
      <3>1. n \in Nominees
        BY PresentRows DEF LInv
      <3>2. CategoryOf[n] \in Categories /\ MovieOf[n] \in Movies
        BY <3>1, KeysAssumption
      <3>3. CategoryOf[n] \notin Nominees /\ MovieOf[n] \notin Nominees
        BY <3>2, KeysAssumption
      <3> QED
        BY <2>1, <3>1, <3>3 DEF Gone
    <2> QED
      BY <1>8, <2>1 DEF LInv, KeysHold
  <1> QED
    BY <1>1, <1>7, <1>8, <1>9, <1>10, WritersKeep DEF LInv, IdsSpent

LEMMA AddRowKeeps == ASSUME LInv, AddRow
                     PROVE  LInv'
  <1>0. /\ table["categories"] \in Seq(Categories)
        /\ table["movies"] \in Seq(Movies)
        /\ table["nominees"] \in Seq(Nominees)
    BY DEF LInv, TablesTyped
  <1>1. {"categories", "movies", "nominees"} = Tables
    BY DEF Tables
  <1>2. DOMAIN table = Tables
    BY DEF LInv, TablesTyped
  <1> DEFINE Grown(t, id) == Present(t)' = Present(t) \cup {id}
             Same(t) == table'[t] = table[t] /\ Present(t)' = Present(t)
  <1>3. ASSUME NEW t \in Tables, NEW id, NEW k, Add(t, id, k)
        PROVE  /\ id \notin spent /\ spent' = spent \cup {id} /\ read' = read
               /\ table' = [u \in Tables |-> table'[u]]
               /\ table'[t] = InsertAt(table[t], k, id)
               /\ \A u \in Tables \ {t} : Same(u)
    BY <1>2, <1>3 DEF Add, Present
  <1>4. ASSUME NEW c \in Categories, NEW k \in 1..(Len(table["categories"]) + 1),
               Add("categories", c, k)
        PROVE  LInv'
    <2>1. table'["categories"] \in Seq(Categories) /\ Grown("categories", c)
      <3>1. /\ InsertAt(table["categories"], k, c) \in Seq(Categories)
            /\ ToSet(InsertAt(table["categories"], k, c)) = ToSet(table["categories"]) \cup {c}
        BY <1>0, SetOfInsert
      <3>2. table'["categories"] = InsertAt(table["categories"], k, c)
        BY <1>1, <1>3, <1>4
      <3> QED
        BY <3>1, <3>2 DEF Present
    <2>2. Same("movies") /\ Same("nominees")
      BY <1>1, <1>3, <1>4
    <2>3. TablesTyped' /\ KeysHold'
      BY <1>1, <1>3, <1>4, <2>1, <2>2 DEF LInv, TablesTyped, KeysHold
    <2> QED
      BY <1>1, <1>3, <1>4, <2>1, <2>2, <2>3, WritersKeep DEF LInv, IdsSpent, Tables
  <1>5. ASSUME NEW m \in Movies, NEW k \in 1..(Len(table["movies"]) + 1),
               Add("movies", m, k)
        PROVE  LInv'
    <2>1. table'["movies"] \in Seq(Movies) /\ Grown("movies", m)
      <3>1. /\ InsertAt(table["movies"], k, m) \in Seq(Movies)
            /\ ToSet(InsertAt(table["movies"], k, m)) = ToSet(table["movies"]) \cup {m}
        BY <1>0, SetOfInsert
      <3>2. table'["movies"] = InsertAt(table["movies"], k, m)
        BY <1>1, <1>3, <1>5
      <3> QED
        BY <3>1, <3>2 DEF Present
    <2>2. Same("categories") /\ Same("nominees")
      BY <1>1, <1>3, <1>5
    <2>3. TablesTyped' /\ KeysHold'
      BY <1>1, <1>3, <1>5, <2>1, <2>2 DEF LInv, TablesTyped, KeysHold
    <2> QED
      BY <1>1, <1>3, <1>5, <2>1, <2>2, <2>3, WritersKeep DEF LInv, IdsSpent, Tables
  <1>6. ASSUME NEW n \in Nominees, CategoryOf[n] \in Present("categories"),
               MovieOf[n] \in Present("movies"), Add("nominees", n, 1)
        PROVE  LInv'
    <2>1. 1 \in 1..(Len(table["nominees"]) + 1)
      <3>1. Len(table["nominees"]) \in Nat
        BY <1>0
      <3> QED
        BY <3>1
    <2>2. table'["nominees"] \in Seq(Nominees) /\ Grown("nominees", n)
      <3>1. /\ InsertAt(table["nominees"], 1, n) \in Seq(Nominees)
            /\ ToSet(InsertAt(table["nominees"], 1, n)) = ToSet(table["nominees"]) \cup {n}
        BY <1>0, <2>1, SetOfInsert
      <3>2. table'["nominees"] = InsertAt(table["nominees"], 1, n)
        BY <1>1, <1>3, <1>6
      <3> QED
        BY <3>1, <3>2 DEF Present
    <2>3. Same("categories") /\ Same("movies")
      BY <1>1, <1>3, <1>6
    <2>4. TablesTyped' /\ KeysHold'
      BY <1>1, <1>3, <1>6, <2>2, <2>3 DEF LInv, TablesTyped, KeysHold
    <2> QED
      BY <1>1, <1>3, <1>6, <2>2, <2>3, <2>4, WritersKeep DEF LInv, IdsSpent, Tables
  <1> QED
    BY <1>4, <1>5, <1>6 DEF AddRow

LEMMA ListingKeeps == ASSUME LInv, [Next]_vars
                      PROVE  LInv'
  <1>1. CASE UNCHANGED listingVars
    <2>1. UNCHANGED <<table, spent, read>>
      BY <1>1 DEF listingVars
    <2>2. TablesTyped' /\ KeysHold' /\ IdsSpent' /\ \A t : Present(t)' = Present(t)
      BY <2>1, TablesStay DEF LInv, IdsSpent
    <2>3. Present("nominees")' \cap spent \subseteq Present("nominees") /\ spent \subseteq spent'
      BY <2>1, <2>2
    <2> QED
      BY <2>1, <2>2, <2>3, WritersKeep DEF LInv, IdsSpent
  <1>2. CASE OpenPage
    BY <1>2, AskAllKeeps DEF OpenPage
  <1>3. CASE Render \/ Leave \/ EndRead
    <2>1. read' = NoRead /\ UNCHANGED <<table, spent>>
      BY <1>3 DEF Render, Leave, EndRead
    <2> QED
      BY <2>1, NoReadKeeps
  <1>4. CASE ReadTable
    BY <1>4, ReadTableKeeps
  <1>5. ASSUME NEW id, DeleteRow(id) PROVE LInv'
    BY <1>5, DeleteKeeps DEF DeleteRow
  <1>6. CASE AddRow
    BY <1>6, AddRowKeeps
  <1>7. ASSUME NEW c \in Categories, AskCategory(c) PROVE LInv'
    BY <1>7, AskCategoryKeeps
  <1>8. CASE ReadCategory
    BY <1>8, ReadCategoryKeeps
  <1>9. CASE LookUp
    BY <1>9, LookUpKeeps
  <1>10. CASE ReadWinners
    BY <1>1, <1>10 DEF ReadWinners
  <1>11. ASSUME NEW s \in Slots,
                SelectWinner(s) \/ RemoveWinner(s) \/ Hear(s) \/ Lose(s)
                   \/ Serve(s) \/ Refuse(s) \/ Deny(s)
         PROVE  UNCHANGED listingVars
    BY <1>11 DEF SelectWinner, RemoveWinner, Request, Hear, Lose, Serve, Refuse, Deny, Doubt
  <1>12. CASE Others
    <2>1. CASE \/ \E n \in Nominees : OtherSelects(n)
               \/ \E w \in winners : OtherRemoves(w)
      BY <1>1, <2>1 DEF OtherSelects, OtherRemoves
    <2> QED
      BY <1>5, <1>6, <1>12, <2>1 DEF Others
  <1>13. CASE OtherReads
    BY <1>3, <1>7, <1>8, <1>9, <1>13 DEF OtherReads
  <1>14. CASE UNCHANGED vars
    BY <1>1, <1>14 DEF vars
  <1> QED
    BY <1>1, <1>2, <1>3, <1>4, <1>10, <1>11, <1>12, <1>13, <1>14 DEF Next

LEMMA ListingBegins == Init => LInv
  <1> SUFFICES ASSUME Init PROVE LInv
    OBVIOUS
  <1>1. table = [t \in Tables |-> <<>>] /\ spent = {} /\ read = NoRead
    BY DEF Init, ListingInit
  <1>2. \A t \in Tables : table[t] = <<>> /\ Present(t) = {}
    BY <1>1 DEF Present, ToSet
  <1>3. /\ table["categories"] = <<>> /\ table["movies"] = <<>> /\ table["nominees"] = <<>>
        /\ Present("nominees") = {} /\ table = [t \in Tables |-> table[t]]
    BY <1>1, <1>2 DEF Tables
  <1>4. TablesTyped
    BY <1>3, EmptySeq DEF TablesTyped
  <1>5. /\ read.kind = "none" /\ read.nominees = {} /\ read.begun = {}
        /\ ReadShaped
    BY <1>1 DEF NoRead, ReadShaped
  <1>6. IdsSpent /\ KeysHold
    BY <1>1, <1>2, <1>3, <1>5 DEF IdsSpent, KeysHold
  <1> QED
    BY <1>4, <1>5, <1>6 DEF LInv, AllGathers, CategoryGathers

LEMMA ListingInvariant == Spec => []LInv
  <1> QED
    BY ListingBegins, ListingKeeps, PTL DEF Spec

\* NomineesByCategory and ListNominatedsByCategory: a nominee that was there when the
\* request began and still is does not fall between the reads of the tables, unless
\* a read was cut short.
THEOREM StableAlwaysListed == Spec => []StableListed
  BY ListingInvariant, ListsTell, PTL

\* Nor is a nominee that is still there shown without the title of its movie.
THEOREM TitlesAlwaysKnown == Spec => []TitlesKnown
  BY ListingInvariant, ListsTell, PTL

-----------------------------------------------------------------------------
(* The order of the lists: what is missing from them is old *)

\* m comes before n in s.
Ahead(s, m, n) == \E i \in 1..Len(s) : s[i] = m /\ \A j \in 1..i : s[j] # n

LEMMA AheadInPrefix ==
    ASSUME NEW S, NEW s \in Seq(S), NEW k \in 0..Len(s), NEW m, NEW n, Ahead(s, m, n),
           n \in ToSet(SubSeq(s, 1, k))
    PROVE  m \in ToSet(SubSeq(s, 1, k)) /\ Ahead(SubSeq(s, 1, k), m, n)
  <1> DEFINE p == SubSeq(s, 1, k)
  <1>0. Len(s) \in Nat /\ k \in Nat /\ k <= Len(s)
    OBVIOUS
  <1>1. p \in Seq(S) /\ Len(p) = k
    BY SetOfPrefix
  <1>2. \A i \in 1..k : p[i] = s[i]
    <2>1. \A i \in 1..(k - 1 + 1) : SubSeq(s, 1, k)[i] = s[1 + i - 1]
      <3>1. 1 \in Int /\ k \in Int /\ \A i \in 1..k : s[i] \in S
        OBVIOUS
      <3> QED
        BY <3>1, SubSeqProperties
    <2> QED
      BY <1>0, <2>1
  <1>3. n \in ToSet(p)
    OBVIOUS
  <1> HIDE DEF p
  <1>4. PICK i \in 1..Len(s) : s[i] = m /\ \A j \in 1..i : s[j] # n
    BY DEF Ahead
  <1>5. PICK l \in 1..k : p[l] = n
    BY <1>1, <1>3 DEF ToSet
  <1>6. l \notin 1..i /\ l \in 1..k
    BY <1>2, <1>4, <1>5
  <1>7. i \in 1..k
    BY <1>0, <1>6
  <1>8. p[i] = m /\ \A j \in 1..i : p[j] # n
    BY <1>0, <1>2, <1>4, <1>7
  <1>9. m \in ToSet(p)
    <2>1. i \in DOMAIN p
      BY <1>1, <1>7
    <2> QED
      BY <1>8, <2>1 DEF ToSet
  <1>10. Ahead(p, m, n)
    <2>1. i \in 1..Len(p)
      BY <1>1, <1>7
    <2> QED
      BY <1>8, <2>1 DEF Ahead
  <1> QED
    BY <1>9, <1>10 DEF p

LEMMA AheadInInsert ==
    ASSUME NEW S, NEW s \in Seq(S), NEW x \in S, NEW m, NEW n, m # x,
           Ahead(InsertAt(s, 1, x), m, n)
    PROVE  Ahead(s, m, n)
  <1> DEFINE w == InsertAt(s, 1, x)
  <1>0. Len(s) \in Nat /\ 1 \in 1..(Len(s) + 1)
    OBVIOUS
  <1>1. /\ Len(w) = Len(s) + 1
        /\ \A i \in 1..(Len(s) + 1) : w[i] = IF i < 1 THEN s[i] ELSE IF i = 1 THEN x ELSE s[i - 1]
    BY <1>0, ElementsOfInsert DEF HasInserted
  <1>2. PICK i \in 1..Len(w) : w[i] = m /\ \A j \in 1..i : w[j] # n
    BY DEF Ahead
  <1> HIDE DEF w
  <1>3. i # 1 /\ i \in 1..(Len(s) + 1)
    BY <1>0, <1>1, <1>2
  <1>4. i - 1 \in 1..Len(s) /\ s[i - 1] = m
    BY <1>0, <1>1, <1>2, <1>3
  <1>5. ASSUME NEW j \in 1..(i - 1) PROVE s[j] # n
    <2>1. j + 1 \in 1..i /\ j + 1 \in 1..(Len(s) + 1) /\ ~ (j + 1 < 1) /\ j + 1 # 1 /\ (j + 1) - 1 = j
      BY <1>0, <1>3
    <2>2. w[j + 1] = s[j] /\ w[j + 1] # n
      BY <1>1, <1>2, <2>1
    <2> QED
      BY <2>2
  <1> QED
    BY <1>4, <1>5 DEF Ahead

\* The rows that stay keep their order: otherwise take the first row where it changes.
LEMMA AheadInKeep ==
    ASSUME NEW S, NEW s \in Seq(S), NEW K, NEW m, NEW n, n \in K, Ahead(Keep(s, K), m, n)
    PROVE  Ahead(s, m, n)
  <1> DEFINE f == CHOOSE g : IsKept(s, K, Len(s), g)
             T == {i \in 0..Len(s) : Ahead(f[i], m, n)}
  <1>1. Len(s) \in Nat /\ T \in SUBSET Nat
    BY LenProperties
  <1>2. IsKept(s, K, Len(s), f)
    BY <1>1, KeptExists
  <1>3. Keep(s, K) = f[Len(s)]
    BY DEF Keep, IsKept, Kept
  <1> HIDE DEF f
  <1>4. T # {}
    BY <1>1, <1>3
  <1>5. PICK i \in T : \A k \in T : i <= k
    BY <1>1, <1>4, LeastNumber
  <1>6. i \in 0..Len(s) /\ Ahead(f[i], m, n) /\ f[i] = Kept(s, K, f, i)
    BY <1>2, <1>5 DEF IsKept
  <1>7. i # 0
    <2> SUFFICES ASSUME i = 0 PROVE FALSE
      OBVIOUS
    <2>1. f[i] = <<>>
      BY <1>6 DEF Kept
    <2> QED
      BY <1>6, <2>1 DEF Ahead
  <1>8. i - 1 \in 0..Len(s) /\ ~ (i <= i - 1) /\ i \in 1..Len(s)
    BY <1>1, <1>6, <1>7
  <1>9. ~Ahead(f[i - 1], m, n)
    BY <1>5, <1>8
  <1>10. f[i] # f[i - 1]
    BY <1>6, <1>9
  <1>11. f[i] = Append(f[i - 1], s[i])
    BY <1>6, <1>7, <1>10 DEF Kept
  <1> DEFINE q == f[i - 1]
             w == f[i]
  <1>12. q \in Seq(S) /\ s[i] \in S /\ ToSet(w) = Firsts(s, i) \cap K
    BY <1>2, <1>6, <1>8, KeptHolds
  <1>13. /\ Len(w) = Len(q) + 1 /\ Len(q) \in Nat
         /\ \A j \in 1..Len(q) : w[j] = q[j]
         /\ w[Len(q) + 1] = s[i]
    BY <1>11, <1>12, AppendProperties, LenProperties
  <1>14. w \in Seq(S)
    BY <1>11, <1>12, AppendProperties
  <1>15. Ahead(w, m, n) /\ ~Ahead(q, m, n)
    BY <1>6, <1>9
  <1> HIDE DEF q, w
  <1>16. PICK k \in 1..Len(w) : w[k] = m /\ \A j \in 1..k : w[j] # n
    BY <1>15 DEF Ahead
  <1>17. k = Len(q) + 1
    <2> SUFFICES ASSUME k # Len(q) + 1 PROVE FALSE
      OBVIOUS
    <2>1. k \in 1..Len(q) /\ \A j \in 1..k : j \in 1..Len(q)
      BY <1>13
    <2>2. q[k] = m /\ \A j \in 1..k : q[j] # n
      BY <1>13, <1>16, <2>1
    <2> QED
      BY <1>15, <2>1, <2>2 DEF Ahead
  <1>18. n \notin ToSet(w)
    <2>1. ToSet(w) = {w[j] : j \in 1..Len(w)}
      BY <1>14, SetOfSeq
    <2> QED
      BY <1>13, <1>16, <1>17, <2>1
  <1>19. \A j \in 1..i : s[j] # n
    BY <1>12, <1>18 DEF Firsts
  <1> QED
    BY <1>8, <1>13, <1>16, <1>17, <1>19 DEF Ahead

\* What NomineesByCategory has read of the nominees.
NewestRead ==
    read.kind = "all" /\ read.todo \in {T2, T3} =>
       \A n \in read.nominees \cap Present("nominees"), m \in Remaining :
          Ahead(table["nominees"], m, n) => m \in read.nominees

LEMMA NewestReadTell == LInv /\ NewestRead => NewestListed
  <1> SUFFICES ASSUME LInv, NewestRead, Done, read.kind = "all",
                      NEW n \in Shown \cap Present("nominees"), NEW m \in Remaining,
                      CategoryOf[m] = CategoryOf[n], Newer(m, n)
               PROVE  m \in Shown
    BY DEF NewestListed, Remaining
  <1>1. read.todo \in {T2, T3}
    BY DEF Done, T3
  <1>2. Ahead(table["nominees"], m, n)
    BY DEF Newer, Ahead
  <1>3. n \in read.nominees /\ CategoryOf[n] \in read.categories
    BY DEF Shown
  <1>4. m \in read.nominees
    BY <1>1, <1>2, <1>3 DEF NewestRead
  <1> QED
    BY <1>3, <1>4 DEF Shown

\* The read of the nominees: the limit, and then the connection, cut the oldest off.
LEMMA NewestReadByReading == ASSUME LInv, NewestRead, ReadTable
                             PROVE  NewestRead'
  <1>1. /\ read.kind = "all" /\ read.todo # T3 /\ UNCHANGED <<table, spent>>
        /\ read.todo \in {T0, T1, T2}
    BY DEF ReadTable, T3, LInv, AllGathers
  <1> DEFINE t == Head(read.todo)
             rows == Limited(table[t])
  <1>2. PICK k \in 0..Len(rows) :
           read' = [read EXCEPT ![t] = ToSet(SubSeq(rows, 1, k)), !.todo = Tail(@),
                                !.whole = @ /\ (k = Len(rows)) /\ Len(table[t]) <= Limit]
    BY DEF ReadTable
  <1> DEFINE X == ToSet(SubSeq(rows, 1, k))
  <1>3. read'.todo = Tail(read.todo) /\ read'.begun = read.begun
    BY <1>1, <1>2, TodoFacts DEF LInv, ReadShaped
  <1>4. Present("nominees")' = Present("nominees") /\ Remaining' = Remaining
    BY <1>1, <1>3 DEF Present, Remaining
  <1>5. CASE read.todo = T0
    BY <1>3, <1>5, TodoFacts DEF NewestRead
  <1>6. CASE read.todo = T1
    <2>1. t = "nominees" /\ read'.nominees = X
      BY <1>2, <1>6, TodoFacts DEF LInv, ReadShaped
    <2>2. table["nominees"] \in Seq(Nominees)
      BY DEF LInv, TablesTyped
    <2>3. Len(table["nominees"]) \in Nat /\ Limit \in Nat
      BY <2>2, LenProperties, LimitAssumption
    <2>4. PICK a \in 0..Len(table["nominees"]) : rows = SubSeq(table["nominees"], 1, a)
      BY <2>1, <2>3 DEF Limited
    <2>5. rows \in Seq(Nominees)
      BY <2>2, <2>4, SetOfPrefix
    <2> DEFINE l == rows
    <2>6. l \in Seq(Nominees) /\ k \in 0..Len(l) /\ l = SubSeq(table["nominees"], 1, a)
          /\ X = ToSet(SubSeq(l, 1, k))
      BY <2>4, <2>5
    <2> HIDE DEF l, X
    <2>7. ASSUME NEW m, NEW n \in X, Ahead(table["nominees"], m, n)
          PROVE  m \in X
      <3>1. n \in ToSet(l)
        BY <2>6, <2>7, SetOfPrefix
      <3>2. Ahead(l, m, n)
        BY <2>2, <2>4, <2>6, <2>7, <3>1, AheadInPrefix
      <3> QED
        BY <2>6, <2>7, <3>2, AheadInPrefix
    <2> QED
      BY <1>1, <2>1, <2>7 DEF NewestRead
  <1>7. CASE read.todo = T2
    <2>1. read'.nominees = read.nominees
      BY <1>2, <1>7, TodoFacts DEF LInv, ReadShaped
    <2> QED
      BY <1>1, <1>4, <1>7, <2>1 DEF NewestRead
  <1> QED
    BY <1>1, <1>5, <1>6, <1>7

\* A step that changes the table of nominees keeps the order of those that stay.
LEMMA NewestReadByWriting ==
    ASSUME LInv, NewestRead, read' = read,
           Present("nominees")' \cap spent \subseteq Present("nominees"),
           \A m, n \in Present("nominees")' \cap spent :
              Ahead(table'["nominees"], m, n) => Ahead(table["nominees"], m, n)
    PROVE  NewestRead'
  <1>1. read.nominees \cup read.begun \subseteq spent
    BY DEF LInv, IdsSpent
  <1>2. Remaining' = read.begun \cap Present("nominees")'
    BY DEF Remaining
  <1> SUFFICES ASSUME read.kind = "all" /\ read.todo \in {T2, T3},
                      NEW n \in read.nominees \cap Present("nominees")', NEW m \in Remaining',
                      Ahead(table'["nominees"], m, n)
               PROVE  m \in read.nominees
    BY DEF NewestRead
  <1>3. m \in Present("nominees")' \cap spent /\ n \in Present("nominees")' \cap spent
        /\ m \in read.begun
    BY <1>1, <1>2
  <1>4. Ahead(table["nominees"], m, n) /\ m \in Remaining /\ n \in read.nominees \cap Present("nominees")
    BY <1>3 DEF Remaining
  <1> QED
    BY <1>4 DEF NewestRead

LEMMA NewestReadByDelete == ASSUME LInv, NewestRead, NEW id, Delete(id)
                            PROVE  NewestRead'
  <1> DEFINE K == Present("nominees") \ Gone(id)
  <1>1. table["nominees"] \in Seq(Nominees) /\ "nominees" \in Tables
    BY DEF LInv, TablesTyped, Tables
  <1>2. table'["nominees"] = Keep(table["nominees"], K) /\ read' = read
    BY <1>1 DEF Delete
  <1>3. Present("nominees")' = ToSet(table["nominees"]) \cap K
    BY <1>1, <1>2, SetOfKeep DEF Present
  <1> HIDE DEF K
  <1>4. ASSUME NEW m, NEW n \in K, Ahead(table'["nominees"], m, n)
        PROVE  Ahead(table["nominees"], m, n)
    BY <1>1, <1>2, <1>4, AheadInKeep
  <1>5. Present("nominees")' \subseteq Present("nominees") \cap K
    BY <1>3 DEF Present
  <1> QED
    BY <1>2, <1>4, <1>5, NewestReadByWriting

LEMMA NewestReadByAdd == ASSUME LInv, NewestRead, AddRow
                         PROVE  NewestRead'
  <1>0. PICK t \in Tables : \E id, k : Add(t, id, k) /\ (t = "nominees" => id \in Nominees /\ k = 1)
    BY DEF AddRow, Tables
  <1>1. PICK id, k : Add(t, id, k) /\ (t = "nominees" => id \in Nominees /\ k = 1)
    BY <1>0
  <1>2. id \notin spent /\ read' = read /\ table' = [table EXCEPT ![t] = InsertAt(@, k, id)]
    BY <1>1 DEF Add
  <1>3. table["nominees"] \in Seq(Nominees) /\ DOMAIN table = Tables /\ "nominees" \in Tables
    BY DEF LInv, TablesTyped, Tables
  <1>4. CASE t # "nominees"
    <2>1. table'["nominees"] = table["nominees"] /\ Present("nominees")' = Present("nominees")
      BY <1>2, <1>3, <1>4 DEF Present
    <2> QED
      BY <1>2, <2>1, NewestReadByWriting
  <1>5. CASE t = "nominees"
    <2>1. table'["nominees"] = InsertAt(table["nominees"], 1, id) /\ id \in Nominees
      BY <1>1, <1>2, <1>3, <1>5
    <2>2. Present("nominees")' = Present("nominees") \cup {id}
      <3>1. 1 \in 1..(Len(table["nominees"]) + 1)
        BY <1>3
      <3>2. ToSet(table'["nominees"]) = ToSet(table["nominees"]) \cup {id}
        BY <1>3, <2>1, <3>1, SetOfInsert
      <3> QED
        BY <3>2 DEF Present
    <2>3. ASSUME NEW m, NEW n, m # id, Ahead(table'["nominees"], m, n)
          PROVE  Ahead(table["nominees"], m, n)
      BY <1>3, <2>1, <2>3, AheadInInsert
    <2> QED
      BY <1>2, <2>2, <2>3, NewestReadByWriting
  <1> QED
    BY <1>4, <1>5

LEMMA NewestReadKeeps == ASSUME LInv, NewestRead, [Next]_vars
                         PROVE  NewestRead'
  <1>1. CASE UNCHANGED listingVars
    BY <1>1 DEF listingVars, NewestRead, Remaining, Present
  <1>2. CASE OpenPage
    <2>1. read'.todo = T0
      BY <1>2 DEF OpenPage, AskAll, NoRead, T0
    <2> QED
      BY <2>1, TodoFacts DEF NewestRead
  <1>3. CASE Render \/ Leave \/ EndRead
    <2>1. read'.kind = "none"
      BY <1>3 DEF Render, Leave, EndRead, NoRead
    <2> QED
      BY <2>1 DEF NewestRead
  <1>4. CASE ReadTable
    BY <1>4, NewestReadByReading
  <1>5. ASSUME NEW id, DeleteRow(id) PROVE NewestRead'
    BY <1>5, NewestReadByDelete DEF DeleteRow
  <1>6. CASE AddRow
    BY <1>6, NewestReadByAdd
  <1>7. CASE ReadCategory \/ LookUp \/ \E c \in Categories : AskCategory(c)
    <2>1. read'.kind = "category"
      BY <1>7 DEF ReadCategory, LookUp, AskCategory, NoRead, LInv, ReadShaped
    <2> QED
      BY <2>1 DEF NewestRead
  <1>8. CASE ReadWinners
    BY <1>1, <1>8 DEF ReadWinners
  <1>9. ASSUME NEW s \in Slots,
               SelectWinner(s) \/ RemoveWinner(s) \/ Hear(s) \/ Lose(s)
                  \/ Serve(s) \/ Refuse(s) \/ Deny(s)
        PROVE  UNCHANGED listingVars
    BY <1>9 DEF SelectWinner, RemoveWinner, Request, Hear, Lose, Serve, Refuse, Deny, Doubt
  <1>10. CASE Others
    <2>1. CASE \/ \E n \in Nominees : OtherSelects(n)
               \/ \E w \in winners : OtherRemoves(w)
      BY <1>1, <2>1 DEF OtherSelects, OtherRemoves
    <2> QED
      BY <1>5, <1>6, <1>10, <2>1 DEF Others
  <1>11. CASE OtherReads
    BY <1>3, <1>7, <1>11 DEF OtherReads
  <1>12. CASE UNCHANGED vars
    BY <1>1, <1>12 DEF vars
  <1> QED
    BY <1>1, <1>2, <1>3, <1>4, <1>8, <1>9, <1>10, <1>11, <1>12 DEF Next

\* NomineesByCategory: of the nominees of a category that were there all the time, a limit
\* or a connection that breaks leaves out none that is newer than one it lists.
THEOREM NewestAlwaysListed == Spec => []NewestListed
  <1>1. Init => NewestRead
    BY DEF Init, ListingInit, NoRead, NewestRead
  <1> QED
    BY <1>1, ListingInvariant, NewestReadKeeps, NewestReadTell, PTL DEF Spec

-----------------------------------------------------------------------------
(* The types of the page *)

Places == {"closed", "loading", "ready"}
Pages == [at : Places, got : BOOLEAN, winners : SUBSET Row, shown : SUBSET Nominees]

\* What a request carries: the nominee to select, the winner to remove or to show, or nothing.
Asked == [id : WinnerIds \cup {None}, nominee : Nominees \cup {None}]

Stages == {"idle", "sent", "served"}
Operations == {"select", "remove"}
Requests == [pc : Stages, op : Operations, row : Asked, ok : BOOLEAN, heard : BOOLEAN]

\* An answer that tells of a winner has one.
Sound(r) == /\ r \in Requests
            /\ r.pc = "served" /\ r.ok /\ r.op = "select" => r.row \in Row

PageTyped == /\ winners \subseteq Row
             /\ page \in Pages
             /\ req \in [Slots -> Requests]
             /\ \A s \in Slots : Sound(req[s])
             /\ seen.doubted \subseteq Nominees

LEMMA RowsAreAsked == Row \subseteq Asked /\ NoRow \in Asked
  BY DEF Row, Asked, NoRow

LEMMA SoundRequest ==
    ASSUME NEW pc \in Stages, NEW op \in Operations, NEW row \in Asked, NEW ok \in BOOLEAN,
           NEW heard \in BOOLEAN,
           pc = "served" /\ ok /\ op = "select" => row \in Row
    PROVE  Sound([pc |-> pc, op |-> op, row |-> row, ok |-> ok, heard |-> heard])
  BY DEF Sound, Requests

LEMMA SoundNone == Sound(NoRequest)
  <1>1. "idle" \in Stages /\ "select" \in Operations /\ "idle" # "served"
    BY DEF Stages, Operations
  <1> QED
    BY <1>1, RowsAreAsked, SoundRequest DEF NoRequest

LEMMA SoundFields == ASSUME NEW r, Sound(r)
                     PROVE  /\ r.pc \in Stages /\ r.op \in Operations /\ r.row \in Asked
                            /\ r.ok \in BOOLEAN /\ r.heard \in BOOLEAN
  BY DEF Sound, Requests

LEMMA SoundUnheard == ASSUME NEW r, Sound(r)
                      PROVE  Sound(Unheard(r))
  <1>1. "sent" \in Stages /\ "sent" # "served"
    BY DEF Stages
  <1> QED
    BY <1>1, SoundFields, SoundRequest DEF Unheard

\* A step of one request that leaves the page with a page of its type.
LEMMA TypedByRequest ==
    ASSUME PageTyped, winners' \subseteq Row, page' \in Pages, seen'.doubted \subseteq Nominees,
           NEW s \in Slots, NEW r, Sound(r), req' = [req EXCEPT ![s] = r]
    PROVE  PageTyped'
  <1>1. r \in Requests
    BY DEF Sound
  <1>2. req' \in [Slots -> Requests]
    BY <1>1 DEF PageTyped
  <1>3. \A t \in Slots : req'[t] = IF t = s THEN r ELSE req[t]
    BY DEF PageTyped
  <1>4. \A t \in Slots : Sound(req'[t])
    BY <1>3 DEF PageTyped
  <1> QED
    BY <1>2, <1>4 DEF PageTyped

LEMMA TypedByOthers ==
    ASSUME PageTyped, winners' \subseteq Row, page' \in Pages, seen'.doubted \subseteq Nominees, req' = req
    PROVE  PageTyped'
  BY DEF PageTyped

LEMMA InsertTyped == ASSUME PageTyped, LInv, PInv, NEW n, Insert(n)
                     PROVE  winners' \subseteq Row /\ Inserted(n) \in Row
  <1>1. n \in Nominees
    BY PresentRows DEF LInv, Insert
  <1>2. NewId \in WinnerIds
    <2>1. \E id \in WinnerIds : id \notin issued
      BY DEF Insert, PInv, IdsIssued
    <2> QED
      BY <2>1 DEF NewId
  <1> QED
    BY <1>1, <1>2 DEF Insert, Inserted, PageTyped, Row

\* The page opens, loads, is drawn and is left.
LEMMA LoadTyped == ASSUME PageTyped, LInv, OpenPage \/ ReadWinners \/ Render \/ Leave
                   PROVE  PageTyped'
  <1>0. /\ page.at \in Places /\ page.got \in BOOLEAN /\ page.winners \subseteq Row
        /\ page.shown \subseteq Nominees
        /\ page = [at |-> page.at, got |-> page.got, winners |-> page.winners,
                   shown |-> page.shown]
        /\ "closed" \in Places /\ "loading" \in Places /\ "ready" \in Places
    BY DEF PageTyped, Pages, Places
  <1>1. CASE OpenPage
    <2>1. page' = [at |-> "loading", got |-> FALSE, winners |-> {}, shown |-> {}]
      BY <1>1 DEF OpenPage, Closed
    <2>2. page' \in Pages
      BY <1>0, <2>1 DEF Pages
    <2> QED
      BY <1>1, <2>2, TypedByOthers DEF OpenPage, PageTyped
  <1>2. CASE ReadWinners
    <2>1. page' = [at |-> page.at, got |-> TRUE, winners |-> winners, shown |-> page.shown]
      BY <1>0, <1>2 DEF ReadWinners
    <2>2. page' \in Pages
      BY <1>0, <2>1 DEF Pages, PageTyped
    <2>3. seen'.doubted \subseteq Nominees
      BY <1>2 DEF ReadWinners
    <2> QED
      BY <1>2, <2>2, <2>3, TypedByOthers DEF ReadWinners, PageTyped
  <1>3. CASE Render
    <2>1. page' = [at |-> "ready", got |-> page.got, winners |-> page.winners, shown |-> Shown]
      BY <1>0, <1>3 DEF Render
    <2>2. Shown \subseteq Nominees
      BY DEF Shown, LInv, ReadShaped
    <2>3. page' \in Pages
      BY <1>0, <2>1, <2>2 DEF Pages
    <2> QED
      BY <1>3, <2>3, TypedByOthers DEF Render, PageTyped
  <1>4. CASE Leave
    <2>1. page' = [at |-> "closed", got |-> FALSE, winners |-> {}, shown |-> {}]
      BY <1>4 DEF Leave, Closed
    <2>2. page' \in Pages
      BY <1>0, <2>1 DEF Pages
    <2>3. req' = [s \in Slots |-> IF req[s].pc = "sent" THEN Unheard(req[s]) ELSE NoRequest]
      BY <1>4 DEF Leave
    <2>4. \A s \in Slots : Sound(Unheard(req[s])) /\ Sound(NoRequest)
      BY SoundUnheard, SoundNone DEF PageTyped
    <2>5. \A s \in Slots : Sound(req'[s])
      BY <2>3, <2>4
    <2>6. req' \in [Slots -> Requests]
      BY <2>3, <2>4 DEF Sound
    <2>7. winners' \subseteq Row /\ seen'.doubted \subseteq Nominees
      BY <1>4 DEF Leave, PageTyped
    <2> QED
      BY <2>2, <2>5, <2>6, <2>7 DEF PageTyped
  <1> QED
    BY <1>1, <1>2, <1>3, <1>4

\* The buttons, the answers and what the server does with a request.
LEMMA ExchangeTyped ==
    ASSUME PageTyped, LInv, PInv, NEW s \in Slots,
           \/ SelectWinner(s) \/ RemoveWinner(s) \/ Hear(s) \/ Lose(s)
           \/ Serve(s) \/ Refuse(s) \/ Deny(s)
    PROVE  PageTyped'
  <1> DEFINE q == req[s]
  <1>1. /\ Sound(q) /\ q.op \in Operations /\ q.row \in Asked /\ q.heard \in BOOLEAN
        /\ q.ok \in BOOLEAN
        /\ winners \subseteq Row /\ page \in Pages /\ seen.doubted \subseteq Nominees
        /\ DOMAIN req = Slots
    BY SoundFields DEF PageTyped
  <1>2. /\ "sent" \in Stages /\ "served" \in Stages /\ "sent" # "served"
        /\ "select" \in Operations /\ "remove" \in Operations /\ "remove" # "select"
    BY DEF Stages, Operations
  <1>3. ASSUME NEW op \in Operations, NEW row \in Asked, Request(s, op, row) PROVE PageTyped'
    <2> DEFINE r == [pc |-> "sent", op |-> op, row |-> row, ok |-> FALSE, heard |-> TRUE]
    <2>1. Sound(r)
      BY <1>2, SoundRequest
    <2>2. req' = [req EXCEPT ![s] = r] /\ UNCHANGED <<winners, page, seen>>
      BY <1>3 DEF Request
    <2> HIDE DEF r
    <2> QED
      BY <1>1, <2>1, <2>2, TypedByRequest
  <1>4. CASE SelectWinner(s)
    <2>1. PICK n \in page.shown : Request(s, "select", [NoRow EXCEPT !.nominee = n])
      BY <1>4 DEF SelectWinner
    <2>2. n \in Nominees
      BY <1>1 DEF Pages
    <2>3. [NoRow EXCEPT !.nominee = n] \in Asked
      BY <2>2 DEF NoRow, Asked
    <2> QED
      BY <1>2, <1>3, <2>1, <2>3
  <1>5. CASE RemoveWinner(s)
    <2>1. PICK w \in page.winners : Request(s, "remove", w)
      BY <1>5 DEF RemoveWinner
    <2>2. w \in Asked
      BY <1>1, RowsAreAsked DEF Pages
    <2> QED
      BY <1>2, <1>3, <2>1, <2>2
  <1>6. CASE Hear(s)
    <2>1. /\ req' = [req EXCEPT ![s] = NoRequest] /\ winners' = winners
          /\ q.pc = "served"
          /\ page' = CASE ~q.ok -> page
                       [] q.ok /\ q.op = "select" ->
                             [page EXCEPT !.winners = @ \cup {q.row}]
                       [] OTHER -> [page EXCEPT !.winners = Filtered(q.row)]
      BY <1>6 DEF Hear
    <2>2. seen'.doubted = seen.doubted
      BY <1>6 DEF Hear, PInv, Shaped
    <2>3. /\ page.winners \subseteq Row
          /\ \A ws \in SUBSET Row : [page EXCEPT !.winners = ws] \in Pages
      BY <1>1 DEF Pages
    <2>4. page' \in Pages
      <3>1. CASE ~q.ok
        BY <1>1, <2>1, <3>1
      <3>2. CASE q.ok /\ q.op = "select"
        <4>1. q.row \in Row
          BY <1>1, <2>1, <3>2 DEF Sound
        <4>2. page.winners \cup {q.row} \in SUBSET Row
          BY <2>3, <4>1
        <4>3. page' = [page EXCEPT !.winners = page.winners \cup {q.row}]
          BY <2>1, <3>2
        <4> QED
          BY <2>3, <4>2, <4>3
      <3>3. CASE q.ok /\ q.op # "select"
        <4>1. Filtered(q.row) \in SUBSET Row
          BY <2>3 DEF Filtered
        <4>2. page' = [page EXCEPT !.winners = Filtered(q.row)]
          BY <2>1, <3>3
        <4> QED
          BY <2>3, <4>1, <4>2
      <3> QED
        BY <3>1, <3>2, <3>3
    <2> QED
      BY <1>1, <2>1, <2>2, <2>4, SoundNone, TypedByRequest
  <1>7. CASE Lose(s)
    <2>1. /\ \/ req' = [req EXCEPT ![s] = NoRequest]
             \/ req' = [req EXCEPT ![s] = Unheard(q)]
          /\ UNCHANGED <<winners, page>>
      BY <1>7 DEF Lose
    <2>2. seen'.doubted \subseteq Nominees
      BY <1>1, <1>7, DoubtSpreads DEF Lose
    <2>3. Sound(NoRequest) /\ Sound(Unheard(q))
      BY <1>1, SoundNone, SoundUnheard
    <2> QED
      BY <1>1, <2>1, <2>2, <2>3, TypedByRequest
  <1>8. ASSUME NEW ok \in BOOLEAN, NEW row \in Asked, Answer(s, ok, row),
               ok /\ q.op = "select" => row \in Row,
               winners' \subseteq Row, page' = page, seen'.doubted \subseteq Nominees
        PROVE  PageTyped'
    <2> DEFINE op == IF ok THEN q.op ELSE "select"
               r == [pc |-> "served", op |-> op, row |-> row, ok |-> ok, heard |-> TRUE]
    <2>1. op \in Operations /\ (ok => op = q.op)
      BY <1>1, <1>2
    <2>2. Sound(r)
      BY <1>2, <1>8, <2>1, SoundRequest
    <2>3. req' = [req EXCEPT ![s] = IF ~q.heard THEN NoRequest ELSE r]
      BY <1>1, <1>8 DEF Answer
    <2> HIDE DEF r
    <2>4. Sound(IF ~q.heard THEN NoRequest ELSE r)
      BY <2>2, SoundNone
    <2> QED
      BY <1>1, <1>8, <2>3, <2>4, TypedByRequest
  <1>9. CASE Serve(s) \/ Deny(s)
    <2>1. Effect(s)
      BY <1>9 DEF Serve, Deny
    <2>2. winners' \subseteq Row /\ (q.op = "select" => Inserted(q.row.nominee) \in Row)
      BY <1>1, <1>2, <2>1, InsertTyped DEF Effect
    <2>3. CASE Serve(s)
      <3> DEFINE row == IF q.op = "select" THEN Inserted(q.row.nominee) ELSE q.row
      <3>1. Answer(s, TRUE, row) /\ UNCHANGED <<page, seen>>
        BY <2>3 DEF Serve
      <3>2. row \in Asked /\ (q.op = "select" => row \in Row)
        BY <1>1, <2>2, RowsAreAsked
      <3> HIDE DEF row
      <3> QED
        BY <1>1, <1>8, <2>2, <3>1, <3>2
    <2>4. CASE Deny(s)
      <3>1. Answer(s, FALSE, NoRow) /\ page' = page
        BY <2>4 DEF Deny
      <3>2. seen'.doubted \subseteq Nominees
        BY <1>1, <2>4, DoubtSpreads DEF Deny
      <3> QED
        BY <1>8, <2>2, <3>1, <3>2, RowsAreAsked
    <2> QED
      BY <1>9, <2>3, <2>4
  <1>10. CASE Refuse(s)
    BY <1>1, <1>8, <1>10, RowsAreAsked DEF Refuse
  <1> QED
    BY <1>4, <1>5, <1>6, <1>7, <1>9, <1>10

LEMMA EveryoneTyped == ASSUME PageTyped, LInv, PInv, Others
                       PROVE  PageTyped'
  <1>1. winners \subseteq Row /\ page \in Pages /\ seen.doubted \subseteq Nominees
    BY DEF PageTyped
  <1>2. ASSUME NEW n, OtherSelects(n) PROVE PageTyped'
    <2>1. winners' \subseteq Row
      BY <1>2, InsertTyped DEF OtherSelects
    <2>2. UNCHANGED <<page, req>> /\ seen'.doubted \subseteq Nominees
      BY <1>1, <1>2, DoubtSpreads DEF OtherSelects
    <2> QED
      BY <1>1, <2>1, <2>2, TypedByOthers
  <1>3. ASSUME NEW w, OtherRemoves(w) PROVE PageTyped'
    <2>1. winners' \subseteq Row /\ UNCHANGED <<page, req>> /\ seen'.doubted \subseteq Nominees
      BY <1>1, <1>3 DEF OtherRemoves, Doubt, PInv, Shaped
    <2> QED
      BY <1>1, <2>1, TypedByOthers
  <1>4. ASSUME NEW id, DeleteRow(id) PROVE PageTyped'
    <2>1. winners' \subseteq Row /\ UNCHANGED <<page, req>> /\ seen'.doubted \subseteq Nominees
      BY <1>1, <1>4 DEF DeleteRow, Doubt, PInv, Shaped
    <2> QED
      BY <1>1, <2>1, TypedByOthers
  <1>5. CASE UNCHANGED <<winners, issued, pageVars>>
    BY <1>5 DEF PageTyped, pageVars
  <1> QED
    BY <1>2, <1>3, <1>4, <1>5 DEF Others

LEMMA TypedBegins == Init => PageTyped
  <1> SUFFICES ASSUME Init PROVE PageTyped
    OBVIOUS
  <1>1. /\ winners = {} /\ seen.doubted = Nominees
        /\ page = [at |-> "closed", got |-> FALSE, winners |-> {}, shown |-> {}]
        /\ req = [s \in Slots |-> NoRequest]
    BY DEF Init, Closed
  <1>2. page \in Pages
    BY <1>1 DEF Pages, Places
  <1>3. NoRequest \in Requests
    BY SoundNone DEF Sound
  <1> QED
    BY <1>1, <1>2, <1>3, SoundNone DEF PageTyped

LEMMA TypedKeeps == ASSUME PageTyped, LInv, PInv, [Next]_vars
                    PROVE  PageTyped'
  <1>1. CASE UNCHANGED <<winners, issued, pageVars>>
    BY <1>1 DEF PageTyped, pageVars
  <1> QED
    BY <1>1, LoadTyped, ExchangeTyped, EveryoneTyped DEF Next, OtherReads, vars

LEMMA Typed == ASSUME LInv, PInv, PageTyped
               PROVE  TypeOK
  <1>1. ListingTypeOK
    <2>1. table \in [Tables -> Seq(Categories) \cup Seq(Movies) \cup Seq(Nominees)]
      <3>1. \A t \in Tables : table[t] \in Seq(Categories) \cup Seq(Movies) \cup Seq(Nominees)
        BY DEF LInv, TablesTyped, Tables
      <3>2. table = [t \in Tables |-> table[t]]
        BY DEF LInv, TablesTyped
      <3> QED
        BY <3>1, <3>2
    <2> QED
      BY <2>1 DEF ListingTypeOK, LInv, ReadShaped, IdsSpent
  <1>2. winners \subseteq Row /\ issued \subseteq WinnerIds /\ seen.told \subseteq WinnerIds
    BY DEF PageTyped, PInv, IdsIssued
  <1>3. page \in [at : {"closed", "loading", "ready"}, got : BOOLEAN, winners : SUBSET Row,
                  shown : SUBSET Nominees]
    BY DEF PageTyped, Pages, Places
  <1>4. req \in [Slots -> [pc : {"idle", "sent", "served"}, op : {"select", "remove"},
                           row : [id : WinnerIds \cup {None}, nominee : Nominees \cup {None}],
                           ok : BOOLEAN, heard : BOOLEAN]]
    BY DEF PageTyped, Requests, Stages, Operations, Asked
  <1>5. seen \in [doubted : SUBSET Nominees, told : SUBSET WinnerIds]
    BY <1>2 DEF PageTyped, PInv, Shaped
  <1> QED
    BY <1>1, <1>2, <1>3, <1>4, <1>5 DEF TypeOK

\* Every variable of the page and of the lists keeps its type.
THEOREM TypeCorrect == Spec => []TypeOK
  <1>1. PInv /\ LInv /\ PageTyped /\ [Next]_vars => PageTyped'
    BY TypedKeeps
  <1> QED
    BY <1>1, TypedBegins, PageInvariant, ListingInvariant, Typed, PTL DEF Spec
=============================================================================
