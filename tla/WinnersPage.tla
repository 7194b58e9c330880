---------------------------- MODULE WinnersPage ----------------------------
(***************************************************************************)
(* The administrator's page winners_view.html over the lists of Listing:   *)
(* it loads nominees and winners once, then keeps its own list of winners  *)
(* from the answers to its own requests, while others select and remove    *)
(* winners and nominees go.  AddWinner is one step here; Ceremony has its  *)
(* two statements.                                                         *)
(***************************************************************************)
EXTENDS Listing

CONSTANTS WinnerIds,  \* UUIDs for winners; bounds how many are ever selected
          Slots,      \* bounds the requests in flight
          None

VARIABLES winners,  \* rows of winners
          issued,   \* winner UUIDs handed out
          page,     \* what the script of the page keeps
          req,      \* its requests in flight
          seen      \* for the properties only: doubted, the nominees for which an answer
                    \* was lost or someone else changed the winners since the page read
                    \* them; told, the ids of the winners that this administrator was ever
                    \* shown (of those that are gone, not all)

pageVars == <<page, req, seen>>
vars == <<listingVars, winners, issued, pageVars>>

Row == [id : WinnerIds, nominee : Nominees]
NoRow == [id |-> None, nominee |-> None]

\* winners: the page's own list; got: whether /winners has answered; shown: the
\* nominees with a card.
Closed == [at |-> "closed", got |-> FALSE, winners |-> {}, shown |-> {}]

\* row: the nominee to select or the winner to remove, then the winner selected.
NoRequest == [pc |-> "idle", op |-> "select", row |-> NoRow, ok |-> FALSE, heard |-> FALSE]

Init == /\ ListingInit
        /\ winners = {}
        /\ issued = {}
        /\ page = Closed
        /\ req = [s \in Slots |-> NoRequest]
        /\ seen = [doubted |-> Nominees, told |-> {}]

-----------------------------------------------------------------------------
(* Loading: both fetches run at once *)

OpenPage == /\ page.at = "closed"
            /\ AskAll
            /\ page' = [Closed EXCEPT !.at = "loading"]
            /\ UNCHANGED <<winners, issued, req, seen>>

\* ListWinners.
ReadWinners ==
    /\ page.at = "loading" /\ ~page.got
    /\ page' = [page EXCEPT !.got = TRUE, !.winners = winners]
    /\ seen' = [doubted |-> {req[s].row.nominee : s \in Slots} \cap Nominees,
                told |-> seen.told \cup {w.id : w \in winners}]
    /\ UNCHANGED <<listingVars, winners, issued, req>>

Render == /\ page.at = "loading" /\ page.got
          /\ Done
          /\ page' = [page EXCEPT !.at = "ready", !.shown = Shown]
          /\ EndRead
          /\ UNCHANGED <<winners, issued, req, seen>>

Doubt(S) == seen' = [seen EXCEPT !.doubted = @ \cup (S \cap Nominees)]

\* A request under way once nobody waits for its answer.
Unheard(r) == [pc |-> "sent", op |-> r.op, row |-> r.row, ok |-> FALSE, heard |-> FALSE]

\* A fetch fails and nothing is drawn, or the page is left; what it has sent may
\* still be served.
Leave == /\ page.at # "closed"
         /\ page' = Closed
         /\ read' = NoRead
         /\ req' = [s \in Slots |-> IF req[s].pc = "sent" THEN Unheard(req[s]) ELSE NoRequest]
         /\ seen' = [doubted |-> Nominees, told |-> seen.told \cap {w.id : w \in winners}]
         /\ UNCHANGED <<table, spent, winners, issued>>

-----------------------------------------------------------------------------
(* Buttons and answers *)

Request(s, op, row) ==
    /\ page.at = "ready"
    /\ req[s].pc = "idle"
    /\ req' = [req EXCEPT ![s] = [pc |-> "sent", op |-> op, row |-> row,
                                  ok |-> FALSE, heard |-> TRUE]]
    /\ UNCHANGED <<listingVars, winners, issued, page, seen>>

SelectWinner(s) == \E n \in page.shown \ {w.nominee : w \in page.winners} :
                      Request(s, "select", [NoRow EXCEPT !.nominee = n])

RemoveWinner(s) == \E w \in page.winners : w.nominee \in page.shown /\ Request(s, "remove", w)

\* Mutant: removeWinner compares the id of the winner with those of nominees.
FilteredByNominee(row) == {w \in page.winners : w.nominee # row.id}

Filtered(row) == {w \in page.winners : w.id # row.id}

\* The answer; a refusal is an alert.
Hear(s) ==
    LET r == req[s] IN
    /\ r.pc = "served"
    /\ page' = CASE ~r.ok -> page
                 [] r.ok /\ r.op = "select" -> [page EXCEPT !.winners = @ \cup {r.row}]
                 [] OTHER -> [page EXCEPT !.winners = Filtered(r.row)]
    /\ seen' = [seen EXCEPT !.told = @ \cup {w.id : w \in page'.winners}]
    /\ req' = [req EXCEPT ![s] = NoRequest]
    /\ UNCHANGED <<listingVars, winners, issued>>

\* fetch fails: what was asked is done, will be, or never is.
Lose(s) == /\ req[s].heard
           /\ \/ req' = [req EXCEPT ![s] = NoRequest]
              \/ req[s].pc = "sent" /\ req' = [req EXCEPT ![s] = Unheard(@)]
           /\ Doubt({req[s].row.nominee})
           /\ UNCHANGED <<listingVars, winners, issued, page>>

-----------------------------------------------------------------------------
(* The server *)

NewId == CHOOSE id \in WinnerIds : id \notin issued

Insert(n) == /\ issued # WinnerIds
             /\ n \in Present("nominees")
             /\ \A w \in winners : w.nominee # n
             /\ winners' = winners \cup {[id |-> NewId, nominee |-> n]}
             /\ issued' = issued \cup {NewId}

\* Mutant: AddWinner answers with the winner it has read from the request.
AsRequested(n) == [id |-> None, nominee |-> n]

Inserted(n) == [id |-> NewId, nominee |-> n]

\* Mutant: DELETE FROM winners WHERE nominated_id = ...
OfNominee(row) == {w \in winners : w.nominee = row.nominee}

WithId(row) == {w \in winners : w.id = row.id}

Effect(s) == \/ /\ req[s].op = "select"
                /\ Insert(req[s].row.nominee)
             \/ /\ req[s].op = "remove"
                /\ winners' = winners \ WithId(req[s].row)
                /\ UNCHANGED issued

\* The answer: of a success with its row, which a refusal has none of.
Answer(s, ok, row) ==
    req' = [req EXCEPT ![s] = IF ~@.heard THEN NoRequest
                              ELSE [pc |-> "served", op |-> IF ok THEN @.op ELSE "select",
                                    row |-> row, ok |-> ok, heard |-> TRUE]]

\* CSRF token, then the statements.  A removal that meets no row is answered 204.
Serve(s) == /\ req[s].pc = "sent"
            /\ Effect(s)
            /\ Answer(s, TRUE, IF req[s].op = "select" THEN Inserted(req[s].row.nominee)
                                                      ELSE req[s].row)
            /\ UNCHANGED <<listingVars, page, seen>>

\* 403, when the cookie is no longer the one that the constant CSRF was read from;
\* 404 or 500: the statement fails, or it does not meet the constraints.
Refuse(s) == /\ req[s].pc = "sent"
             /\ Answer(s, FALSE, NoRow)
             /\ UNCHANGED <<listingVars, winners, issued, page, seen>>

\* 500, although the row was written: the word of the commit is lost.
Deny(s) == /\ req[s].pc = "sent"
           /\ Effect(s)
           /\ Answer(s, FALSE, NoRow)
           /\ Doubt({req[s].row.nominee})
           /\ UNCHANGED <<listingVars, page>>

-----------------------------------------------------------------------------
(* Everyone else *)

OtherSelects(n) == /\ Insert(n)
                   /\ Doubt({n})
                   /\ UNCHANGED <<listingVars, page, req>>

OtherRemoves(w) == /\ winners' = winners \ {w}
                   /\ Doubt({w.nominee})
                   /\ UNCHANGED <<listingVars, issued, page, req>>

\* Winners go with their nominees.
DeleteRow(id) ==
    /\ Delete(id)
    /\ winners' = {w \in winners : w.nominee \in ToSet(table'["nominees"])}
    /\ Doubt({w.nominee : w \in winners \ winners'})
    /\ UNCHANGED <<issued, page, req>>

\* Bound: rows are added until the page is drawn, which does not ask for them again.
Others == \/ \E n \in Nominees : OtherSelects(n)
          \/ \E w \in winners : OtherRemoves(w)
          \/ \E id \in spent : DeleteRow(id)
          \/ /\ page.at # "ready"
             /\ AddRow
             /\ UNCHANGED <<winners, issued, pageVars>>

\* Bound: another client lists one category while the page is not open.
OtherReads == /\ page.at = "closed"
              /\ \/ \E c \in Categories : AskCategory(c)
                 \/ ReadCategory \/ LookUp \/ EndRead
              /\ UNCHANGED <<winners, issued, pageVars>>

-----------------------------------------------------------------------------
Next == \/ OpenPage \/ ReadWinners \/ Render \/ Leave
        \/ ReadTable /\ UNCHANGED <<winners, issued, pageVars>>
        \/ \E s \in Slots : \/ SelectWinner(s) \/ RemoveWinner(s) \/ Hear(s) \/ Lose(s)
                            \/ Serve(s) \/ Refuse(s) \/ Deny(s)
        \/ Others
        \/ OtherReads

Spec == Init /\ [][Next]_vars

-----------------------------------------------------------------------------
TypeOK ==
    /\ ListingTypeOK
    /\ winners \subseteq Row
    /\ issued \subseteq WinnerIds
    /\ page \in [at : {"closed", "loading", "ready"}, got : BOOLEAN, winners : SUBSET Row,
                 shown : SUBSET Nominees]
    /\ req \in [Slots -> [pc : {"idle", "sent", "served"}, op : {"select", "remove"},
                          row : [id : WinnerIds \cup {None}, nominee : Nominees \cup {None}],
                          ok : BOOLEAN, heard : BOOLEAN]]
    /\ seen \in [doubted : SUBSET Nominees, told : SUBSET WinnerIds]

\* The page never asks for the winners again.  A nominee's card nevertheless shows
\* what the table has whenever no request for this nominee is in flight, unless one of
\* its own answers was lost or someone else selected or removed it since the page read
\* the winners: what goes wrong with one nominee leaves the other cards right.
CardsExact ==
    page.at = "ready" =>
       \A n \in Nominees \ seen.doubted :
          (\A s \in Slots : req[s].row.nominee # n)
             => {w \in page.winners : w.nominee = n} = {w \in winners : w.nominee = n}

\* However old the list is from which an administrator removes a winner, a winner
\* that someone else has selected since, and the page was not told of, stays.
OthersStand ==
    [][req' # req => \A w \in winners \ winners' : w.id \in seen.told]_vars
=============================================================================
