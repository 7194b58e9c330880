# Votação: a TLA+ verification of the voting server

The repository is a Go web server (`net/http`, `database/sql`, Postgres) for an awards pool. Registered users vote for one nominee per category until a deadline, administrators maintain the catalogue and enter the winners, and a leaderboard compares votes with winners. The server keeps no state between requests: all of it is in six tables, every request is a goroutine that runs a handful of statements, and almost every statement is a transaction of its own. What can go wrong is what happens between two statements.

## 1. Inventory

| Component | State | Operations | Talks to | Hard behaviour | What makes it correct |
|---|---|---|---|---|---|
| Vote endpoint (`vote_handlers.go`, `auth.go`, `sqlvotestore.go`) | `votes`, the `votes.id` sequence, the clock | `AddVote` behind `RequireAuth`; `Insert` = INSERT, then UPDATE on conflict | reads `users`, `nominees` | concurrent votes of one user, rows read early and used late, deadline read once, lost answers, crash between commit and answer | one row per user and category, rows refer to what exists, truthful created/changed answers, the tally freezes |
| Scores (`sqlvotestore.go`, `leaderboard_view.html`) | none | `GetMyScore` (two queries), `GetLeaderboard` (one), ranking in the page | reads `votes`, `winners`, `categories` | queries that see different tables, joins that multiply rows, ties | points never exceed the maximum, both score computations agree, a rank counts the better users |
| Winners (`handler.go`, `sqlwinnerstore.go`) | `winners` | `AddWinner` (lookup, INSERT), `DeleteWinner`, `ListWinners` | reads `nominees` | two administrators, deletion under them, lost answers | distinct, existing nominees |
| Catalogue writes (`handler.go`, three stores) | `movies`, `categories`, `nominees` | `AddMovie(s)`, `AddCategory/-ies`, `AddNominated(s)`, `CreateNominatedFromForm`, `AddNominatedsByNames` | each other's tables by foreign keys | multi-statement transactions that wait for each other, two transactions in one request | unique keys, whole lists or nothing, parents exist, no hanging request |
| Catalogue reads (`handler.go`, three stores) | none | `List*`, `NomineesByCategory`, `ListNominatedsByCategory` | all tables | `LIMIT 100`, several reads per answer, connections that break in the middle of the rows | what stays is listed, with its title |
| Startup (`db.go`, `main.go`) | `schema_migrations`, the schema, seeds | `Open`, `runMigrations`; by hand `make migrate` | Postgres | processes starting together, crashes between execute and record | a serving process has its schema, seeds exist once |
| Sessions (`user_handlers.go`, `auth.go`) | `users`, cookies `jwt` and `csrf_token` | `Register`, `Login`, `Logout`, `Me` | `users` | two cookies with different lifetimes, tokens that outlive users, duplicate registration | a logged-in user can vote, a cookie is never for the account of someone else |
| Vote page (`nominateds_view.html`, `auth_modal.html`) | pending vote, button, dialog, two timers | `vote`, login and retry | `/add_vote`, `/login`, `/votes` | votes that overlap, answers out of order, retry of a replaced vote | the vote that counts is the last one clicked or one that overlapped it, nothing is retried for ever |
| Winners page (`winners_view.html`) | a copy of the winners | `selectWinner`, `removeWinner` | `/add_winner`, `/delete_winner` | stale copy, lost answers, several administrators | a card shows the table unless its own nominee's answers were lost or others changed it; it removes only what it showed |
| Other pages, `Healthz`, routing, configuration | none | rendering, single reads | | | |

`PROJECT.json` lists the components with their status and every hazard at its line.

## 2. Modules

| Module | Models | Kind |
|---|---|---|
| `BallotBox` | what the vote endpoint promises | abstract specification |
| `Voting` | `POST /add_vote`, step by step | detailed specification, implements `BallotBox` |
| `VotingProofs` | proofs about `Voting` | TLAPS |
| `VotingRefinement` | the proof that `Voting` implements `BallotBox` | TLAPS |
| `Scoring` | the score queries and the ranking as operators | data definitions |
| `Ceremony` | winners, votes, score reads and deletions together | specification over `Scoring` |
| `CeremonyProofs` | proofs about `Ceremony` | TLAPS |
| `Catalog` | the transactions of the catalogue writes | specification |
| `CatalogProofs` | proofs about `Catalog` | TLAPS |
| `Migrations` | processes starting on one database | specification |
| `MigrationsProofs` | proofs about `Migrations` | TLAPS |
| `Session` | accounts, sign-in forms and the two cookies of a browser | specification |
| `SessionProofs` | proofs about `Session` | TLAPS |
| `VotePage` | the page of a category with its dialog, in the browser of `Session` | specification, extends `Session` |
| `VotePageProofs` | proofs about `VotePage`, over those of `SessionProofs` | TLAPS |
| `Listing` | the reads that lists of nominees are made of, and their writers | specification |
| `WinnersPage` | the administrator's page, over the lists of `Listing` | specification, extends `Listing` |
| `WinnersPageProofs` | proofs about `WinnersPage` and the lists of `Listing` | TLAPS |
| `MC*` | constants and symmetries for TLC | model checking |

`Ceremony` and `VotePage` treat a vote as one atomic cast. This is the abstraction that `Voting` is shown to implement (theorem `VotingImplementsBallotBox`, run `vote_race`), so the modules together cover a vote from the click to the score.

### State and actions against the code

**Voting.** `users`, `nominees` and `votes` are the tables, `lastId` the sequence of the SERIAL column, `issued` the UUIDs ever handed out, `closed` whether the server's clock has passed `VotingDeadline`, and `req[r]` the local variables of one goroutine with its program counter. The steps `Authenticate`, `CheckDeadline`, `CheckUser`, `CheckRequest`, `GetNominee`, `Insert*`, `Update*`, `Reply` follow the order of `RequireAuth`, `AddVote` and `SQLVoteStore.Insert`. There is one step per database access or clock reading; checks that read only the request share a step. The store's INSERT has four outcomes, in the order in which Postgres decides them: the sequence is used up, the unique key conflicts (on to the UPDATE; the value of the sequence is gone), a foreign key fails, or the row is written. The UPDATE meets a row or fails. `StatementLost` is a failing statement or a lost word of its commit, `Crash` the death of the process, `Register`, `AddNominee`, `DeleteUser`, `DeleteNominees` what other handlers and the operator do meanwhile.

**Ceremony.** `AskWinner`, `GetNominee`, `InsertWinner` are `AddWinner`; `DeleteWinner` is one statement; any number of administrators are at it at once. `None` stands for a request without a nominee or without its CSRF token, and the answer, on which nothing here depends, ends the request. `ReadMax` and `ReadPoints` are the two queries of `GetUserScore`. `final` says that no request can write votes any more; that this state is reached is `Voting`'s `TallyFreezes`.

**Scoring.** `MaxPoints` and `Points` are the two queries of `GetUserScore`, an INNER JOIN in the second. `ScoreRow` is the leaderboard's own query: `Joined` is its LEFT JOIN, `Earned` what `CASE WHEN w.id IS NOT NULL` gives a joined row, `EarnedPoints` their SUM. `Ranks` is the page's one pass.

**Catalog.** A request carries its list and the rows its open transaction has inserted so far. `Taken` is a unique violation, `WaitsFor` the wait of an INSERT for an uncommitted row with its key, `DeadlockDetected` Postgres's victim of a circle of waits. `AddNominatedsByNames` runs two such transactions, with `GetCategory` before them. `Check` refuses bodies with empty texts, or with a nominee that names no movie.

**Migrations.** Looking a file up, executing it and recording it are the steps `Check`, `Execute`, `Record`; `runs` counts executions, `rows` how many rows each seed has, `schema` what exists. `RecordFails` is the duplicate key that ends a process that was overtaken.

**Session.** `accounts` are the rows of `users`, `spent` the UUIDs handed out, `jar` the cookies of one browser (whose account the jwt is, whether there is a CSRF token) and `form` the registration or login it has sent. `ServeRegister` and `ServeLogin` are the handlers; their cookies travel with the answer and are stored by `HearForm`. `LoseForm` is a connection that fails before or after the server acted, `FormFails` a statement that fails or whose commit is not reported. `Expire` drops either cookie: `ensureCSRFCookie` sets a cookie only where there is none and never renews it, so the two end in any order. `OthersRegister` and `DeleteAccount` are everyone else, and the operator's reset.

**VotePage.** `page` holds the script's variables: `pending` for `pendingVote` and `pendingBtn`, `asking` for the dialog and the button that waits for it, `timer` and `reload` for the timeouts of 250 and 500 ms, `disabled` for the buttons. `req` are votes in flight, each with its voter: the account of the `jwt` that went along, or nobody if either cookie was missing, since such a vote can only be refused. `Click`, `Retry` and `Hear` are `vote` before and after its `fetch`; `Retry` reads what is pending when the timer fires, which need not be what was pending when it was set. `SubmitForm`, `HearSignIn` and `Cancel` are the dialog. `ServeVote` merges the refusals of `RequireAuth`, the deadline and `validateCSRF`: the page does the same on 401 as on 403. `seen` records what the user asked for (`latest`: the last click and, if votes were on their way then, those of the overlap) and was told; nothing but properties reads it.

**Listing.** `table` has the ids of each table in the order in which its `List` returns them, so that a limit is a prefix. `ReadTable` is one of the three `List`s of `NomineesByCategory`, `ReadCategory` and `LookUp` are the query and the `Get` per nominee of `ListNominatedsByCategory`. The `List`s do not ask `rows.Err`: they take the rows they have for all rows when the connection breaks, so `ReadTable` may return any prefix. `read.whole` notes that nothing was cut off, `read.begun` what the request should list.

**WinnersPage.** `page.winners` is the list that the page keeps. It is read once by `ReadWinners`, concurrently with the nominees, and then changed only by `Hear`. `Serve`, `Refuse` and `Deny` are the two handlers' successes, refusals and lost commits; `Lose` is an answer that does not arrive, before or after the server acted. `OtherSelects` and `OtherRemoves` are other administrators. `seen.doubted` are the nominees of which an answer was lost, or which someone else selected or removed, since the page read the winners; only properties read it.

### What is abstracted

- UUIDs, names, titles and texts are model values. A UUID is never handed out twice.
- HTTP is a request and an answer; methods, headers and formatting are left out. A redirect after a form counts as 201. Tokens are represented by their subject, CSRF by whether cookie and header agree.
- The handlers never delete users or nominees. `DeleteUser` and `DeleteNominees` are the operator's resets and scripts, which the code expects ("tokens may be stale after DB reset"). A deleted category deletes its nominees and votes, which `Voting` and `Ceremony` cover as the deletion of nominees; sequences are not restarted.
- In `Catalog` a list of nominees is in one category, and a DELETE of the scripts waits for open transactions without holding other locks itself.
- `database/sql` repeats a statement only if it never reached the server, which is not visible in the model.
- In `Session` passwords are reduced to whose they are, and ids are taken in a fixed order, since UUIDs are interchangeable. At the bound `Ids` a registration fails as it does when the database refuses it.
- In `VotePage` the three reads of `fetchNominateds` are the moment at which `/votes` is read, because the page has nothing that could act before it is drawn. Filling in a form takes longer than the 250 ms of the timer. Votes and forms whose answer nobody waits for keep only what the server may still do with them. One sign-in form is in flight at a time, although its button is not disabled meanwhile.
- In `Listing` a writer is a committed transaction of one row; `Catalog` has the statements. Rows of one transaction share their `created_at`; the model gives them an order. In `WinnersPage` `AddWinner` is one step, since `Ceremony` has both of its statements, and the list of the page is a set. The constant CSRF token of the page can become wrong, which is one of the reasons of `Refuse`.
- In `Scoring` a vote's weight depends on the name of its category; nicknames, percentages and medals are left out.

## 3. Runs

| Run | Question | Bounds | Result |
|---|---|---|---|
| `vote_race` | do INSERT and UPDATE of concurrent requests keep one row per user and category? Does `Voting` implement `BallotBox`? After the deadline, can ever fewer requests write, does the tally freeze, and does every request end? | 1 user, 2 rival nominees, 2 requests, 3 ids | holds; the last two under fairness |
| `vote_world` | do rows belong together although they are read early and written late? Do they persist? Are announced ids truthful? | 2 users, 2 categories, 3 nominees, 2 requests, 2 ids | holds |
| `late_vote` | is no vote written after the deadline? | 1 request | **violated** |
| `ceremony` | are winners, final scores, leaderboard and ranks right while everything moves? | 3 voters, 3 nominees in 2 categories, 2 administrators, 1 reader, 2 winner ids | holds |
| `torn_score` | does a score never exceed its maximum? | 2 voters, 1 winner id | **violated** |
| `catalogue` | unique keys, existing parents, whole lists; do requests that wait for each other end? | 2 requests, 14 request bodies, 5 ids | holds; the last under fairness |
| `orphan_movies` | does a failed request leave no movies? | as `catalogue` | **violated** |
| `start_safe` | what may a serving process rely on, and do all processes serve in the end? | 3 processes, 2 files, 2 crashes | holds; the last under fairness |
| `seeds_twice` | does every seed exist once? | 1 process, 1 file | **violated** |
| `vote_page` | does the last click count, is a cookie the user's own? | 2 accounts ever, 1 address, 2 nominees, 2 votes in flight | holds |
| `vote_page_ends` | do retries and logins come to an end? | as `vote_page`, with 1 vote in flight | holds under fairness |
| `winners_page` | does a listing keep what stays, and is what it leaves out the oldest? Does a card show the table? Does the page remove only what it showed? | 3 nominees of one movie and category, limit 2, 2 winner ids, 2 requests in flight | holds |

**Why the bounds are enough.** A conflict in `Voting` is about one user and one category, so one user with two requests shows the races on a key (one in the INSERT, one in the UPDATE, or both in the UPDATE while the row is deleted); two users and two categories show that keys are kept apart, and the theorems of section 4 cover any number of requests. Three ids let one row be created, deleted and created again, and are few enough to be used up. In `Ceremony` two nominees share a category, which is the case the joins could get wrong; three voters make two tie above or below the third; two winner ids let both winners of one category stand together. Two administrators can look up the same nominee before either inserts it, and a third would meet the same key; `WinnersAlwaysStand` is for any number. In `Catalog` two lists with both titles in common, in opposite orders, form the shortest circle; longer circles have the same step. In `Migrations` three processes let one overtake two, two files make their order visible (the repository embeds one), and two crashes allow one before and one after a record. In `vote_page` two accounts let the browser's account be reset and made again, or the address be taken by someone else; one address is the one they compete for. Two votes in flight let a second click, or the retry of the timer, overlap a vote on its way, and a vote whose answer was lost, or that an earlier page has sent, be served after a new one. With both slots taken a timer waits, as a timer in a browser may fire late; `LastClickAlwaysWins` is for any number. `vote_page_ends` has one slot because liveness is checked without symmetry. In `winners_page` three nominees exceed the limit of two by one, and stay below it when one is deleted; two winner ids let a winner be removed and its nominee be selected again by someone else, and two requests let a removal and a selection be on their way together. Runs with liveness properties use no symmetry.

**Fairness.** `Voting`: weak fairness of each request's handler (a Go goroutine runs, a statement returns) and of the clock. Clients, losses, crashes and deletions are not fair: nothing must happen. `Catalog`: weak fairness of each handler, including Postgres's deadlock detection. A transaction that waits may be overtaken by ever new requests, so `RequestsEnd` is claimed for clients that fall silent. `Migrations`: weak fairness of each process, including its restart, which `restart: unless-stopped` in `docker-compose.prod.yml` provides; crashes are bounded by `MaxCrashes`. `VotePage`: weak fairness of the browser (timers fire, handlers run), of the server's answers, and of a user who signs in when asked. Nothing is assumed of clicks, losses, expiries and resets, so both liveness properties say what must have gone on for ever if they fail: `Quiesces` that the user kept acting, `NoEndlessLogin` that obstacles recurred for ever, or that voting is closed or nobody can sign in any more.

Bounds in the guards: `MaxVoteId` is the real end of the sequence, scaled down; `WinnerIds` and `Ids` limit how many rows are ever made, where `IdsLeft` keeps a request from being sent when ids are missing, so that no started request gets stuck for lack of them; `MaxCrashes`; the `Ids` of `Session`; the `WinnerIds` and `Slots` of the pages. In `WinnersPage` rows are added only until the page is drawn, which does not ask for them again, and another client lists a category only while the page is closed.

### Findings

- `late_vote`: the deadline is read once, several statements before the vote is written; a vote can be created or changed after it. `LateWritersShrink` shows that only requests admitted in time can do so, and `TallyFreezes` that they come to an end.
- `torn_score`: the two queries of `GetUserScore` can give more points than the maximum. `FinalScoreWithin` shows that this cannot happen once votes no longer change.
- `orphan_movies`: `AddNominatedsByNames` is not atomic and its retry is refused by the leftovers.
- `seeds_twice`: a migration file executed twice doubles the Best Picture nominees, whose name is NULL and so never conflicts.

Further observations are visible in the model but are not runs of their own:

- After the deadline the server answers every vote with 403, which the page takes for a missing session: it opens the login, and retries after it, only to be refused again (`Refused`, `Quiesces`).
- The `finally` block of `vote` refers to `modal`, a variable of another function (`nominateds_view.html:288`), and ends with a ReferenceError, so that a failed vote leaves its button disabled until the page is reloaded (`Hear`, which enables no button on any branch).
- `NomineesByCategory` "returns all nominees" (`handler.go:443`) up to `LIMIT 100`, and a connection that breaks in the middle shortens its answer, with status 200 (`Limited`, `ReadTable`). `NewestListed` says that what is missing then is the oldest of a category; `StableListed` and `TitlesKnown` are about answers that nothing cut short. A title is also left out when there are more than 100 movies.
- If the answer to a selection is lost, the winner exists but the page neither shows it nor can select it again (the key is taken) or remove it, until it is loaded again (`Lose`).
- Overlapping clicks reach the server in any order: `LastClickWins` allows any vote of the overlap.

Two more concern the database. `InsertExhausted` comes before `InsertConflict`: every change of a vote uses up a value of the SERIAL sequence (`sqlvotestore.go:22`), and at its end, after 2^31 - 1 attempts, changes of existing votes are refused as well. And the embedded migrations create neither `users.role`, `nominees.url_image`, `categories.sequence_order` nor the table `winners`, which the stores use; they come from `make migrate` only, although the comment at `db.go:17` promises that `Open` ensures the schema.

### Mutants

Every property of a passing run has a mutant of the code that violates it: a dropped constraint, a WHERE without its category, an answer that always says "created", a missing deadline check, files taken in the wrong order, ids returned backwards, a timer that remembers its arguments, a login that leaves the CSRF cookie alone, titles read before the nominees that need them. The mutated operators stand before the definitions they replace, with a comment that begins with "Mutant".

## 4. Proofs

TLC shows the properties on the instances above. Every safety property of a passing run is also a theorem, for every value of the constants, from the assumptions named in the modules:

- `Voting`: `NominationAssumption`, `SequenceAssumption`, `NoneAssumption`, `UuidAssumption`.
- `Migrations`: `InstancesAssumption` (finitely many processes, which only the counts need), `FilesAssumption`, `SeedsAssumption`, `ObjectsAssumption`, `CrashAssumption`.
- `Catalog`: `BodiesAssumption`, `SeedsAssumption` and `EmptyAssumption`, which say what a body is and that the tables' first rows have distinct keys.
- `Scoring`: `ScoringAssumption`, that nominees have a category and categories a name.
- `Session` and `VotePage`: `SessionAssumption` and `PageAssumption`, that `None` is none of the ids.
- `Listing`: `KeysAssumption`, what a nominee refers to and that the ids of the three tables, which are UUIDs, are different, and `LimitAssumption`.

| Theorem | Statement |
|---|---|
| `VotingProofs!TypeCorrect` | `TypeOK` |
| `VotingProofs!VotesAlwaysStand` | votes refer to existing users and nominees of their category |
| `VotingProofs!OneVoteAlways` | one row per user and category, and per id |
| `VotingProofs!ReceiptsAlwaysAgree` | answers and rows with one id have one owner; an id is created once |
| `VotingProofs!RowsAlwaysPersist` | an action property: a row goes only with its user or nominee |
| `VotingProofs!LateWritersAlwaysShrink` | an action property: after the deadline only requests admitted before it write, ever fewer, then none |
| `VotingRefinement!VotingImplementsBallotBox` | `Spec => BoxSpec`: the endpoint's steps are single, truthful casts or nothing |
| `CeremonyProofs!TypeCorrect` | `TypeOK`, with the sums of scores being numbers |
| `CeremonyProofs!WinnersAlwaysStand` | winners are distinct, existing nominees |
| `CeremonyProofs!AlwaysMatchOnce` | the score queries match a vote with one winner at most |
| `CeremonyProofs!BoardAlwaysAgrees` | the sums over the LEFT JOIN of the leaderboard equal those of the two queries of a score, within the maximum |
| `CeremonyProofs!FinalScoreAlwaysWithin` | a score read after the votes are final is within its maximum |
| `CeremonyProofs!RanksAlwaysCountBetter` | a rank is one more than the number of better users, in every order of ties |
| `CatalogProofs!CatalogTypeCorrect` | `TypeOK` |
| `CatalogProofs!KeysAlwaysUnique` | movies have distinct titles, categories distinct names, rows distinct ids |
| `CatalogProofs!NomineesAlwaysStand` | the movie and the category of a nominee exist |
| `CatalogProofs!NamesAlwaysMatch` | `AddNominatedsByNames` nominates each name for the movie of its title |
| `CatalogProofs!ListsAlwaysWhole` | an action property: a list appears whole or not at all |
| `MigrationsProofs!TypeCorrect` | `TypeOK` |
| `MigrationsProofs!ServingAlwaysMigrated` | a serving process has all records |
| `MigrationsProofs!RecordedAlwaysExecuted` | recorded files were executed, and what they create exists |
| `MigrationsProofs!AlwaysInOrder` | files take effect in order |
| `MigrationsProofs!RunsAlwaysBounded` | a file is executed at most once per process and once more per crash |
| `SessionProofs!OwnSessionAlways` | a browser's cookie is never for an account of someone else |
| `VotePageProofs!PageTypeCorrect` | `TypeOK` |
| `VotePageProofs!LastClickAlwaysWins` | the reported vote is the last one clicked or one of its overlap |
| `WinnersPageProofs!TypeCorrect` | `TypeOK`, of the page and of the lists |
| `WinnersPageProofs!OthersAlwaysStand` | an action property: the page removes no winner that it never showed |
| `WinnersPageProofs!CardsAlwaysExact` | a card with nothing in flight for its nominee shows the table, unless its own answers were lost or others changed it |
| `WinnersPageProofs!StableAlwaysListed` | what stays is listed, unless a read was cut short |
| `WinnersPageProofs!NewestAlwaysListed` | whom a limit or a broken connection leaves out is older than whoever of the category is listed |
| `WinnersPageProofs!TitlesAlwaysKnown` | what stays and is shown has its title, unless a read was cut short |

**Voting.** None of the three invariants is inductive. That rows and answers with one id agree needs that every id in use was taken from the sequence (`IdsTaken`), since only then is the next value new. That the category of a written row is its nominee's needs `Coherent`: past `GetNominee` a request carries its nominee's category. `IInv` adds these to `TypeOK`, `VotesStand`, `OneVotePerCategory` and `ReceiptsAgree`. Its proof first classifies what a step does to the rows (nothing, one INSERT, one UPDATE, a deletion) and treats each once. `LateWritersShrink` is the half of `TallyFreezes` that needs no fairness: a step takes a request to a point from which it can write only from such a point, or from the reading of the clock.

**Migrations.** `ServingIsMigrated` needs `Progress`: a process has the records of all files before the one it is at, whoever wrote them, and has seen its own file executed before it records it. `RunsAreBounded` needs an account of who pays for each execution (`RunsAccounted`): until the file is recorded, a process that is about to record it or a crash; from then on the processes that had looked the file up before can still execute it, and all of them together are no more than there are. A step that moves one process changes the cardinality of one or two of these sets by one.

**Catalog.** The properties speak of committed rows; what keeps them true is in the open transactions. `CInv` says that the rows of an open transaction are the first of its list, in order, distinct from each other, from committed rows with their key and from rows of other open transactions, that their ids are fresh, and that the parents of nominees which are not committed yet stand, because the foreign key holds a lock on them. The ids that `AddNominatedsByNames` takes from its first transaction to its second were issued, so that no later movie can have them. A step then either only removes rows or commits one complete list.

**Ceremony.** The invariant adds that ids of winners are spent, that ids are unique, and that votes refer to nominees that exist.

The sums of the score queries are folds, recursive functions over the subsets of a finite set. The weights are 0 (a row that earns nothing), 1, 2 and 3, so a sum is the number of rows of weight at least 1, plus that of weight at least 2, plus that of weight 3. That the fold computes this (`SumIsCount`) is shown by a smallest set for which it does not, which takes the place of an induction. The rest is about cardinalities: by `MatchOnce` the join with the winners pairs each vote with one row at most (`CountInjection`), so that joined and plain votes have the same sums, and correct votes are votes. For `FinalScoreWithin` the invariant has `ReadingWithin`: what the first query weighed stays an upper bound of the user's votes, which after the deadline only go. A rank is computed from the row above; that it counts the better rows follows again by the first row for which it does not, because in a descending list (`DescendsFar`) a row with fewer points than the one above it has exactly the rows above it before it (`BetterCount`).

**Refinement.** The ballot of a user in a category is the nominee of the row they have there, a function because `OneVotePerCategory` makes rows unique. What a request asked for and was answered is read off its local variables. A written row maps to `Cast`, with "created" exactly if there was no ballot before: this is where the order INSERT, then UPDATE matters. Refusals, received answers, crashes and lost statements that end a request map to `Forget`, registrations, nominations and deletions to `Enrol`, `Nominate`, `Expel` and `Strike`, and every other step changes nothing that is seen. Besides `IInv` it needs that an idle request has no nominee (`IdleBlank`).

**Session.** `OwnSession` is not inductive by itself: a cookie could be for an id that is given to someone else later. The invariant adds that the ids of rows, of cookies and of answers on their way are all spent, so that a new row has an id that no cookie has. Then only `ServeLogin`, which compares passwords, and `ServeRegister`, whose row is the user's own, bring an id to the browser.

**VotePage.** `LastClickWins` compares the page's last success with the table, between which there are any number of votes that may still be cast, answered or retried. The invariant (`Agreed`) says that all of these are for nominees in `seen.latest`: what is pending, each vote on its way, each success whose word is on its way. A click keeps this because it starts `latest` anew only when no vote is on its way, and adds to it otherwise; a reload because it takes over what the server may still cast; the retry because the timer reads the pending vote when it fires. That the accounts of these votes were created (`HoldersSpent`) makes sure that a success of a deleted account is never taken for one of a later account.

**WinnersPage.** A request of the page removes the row with the id that its button carried. The invariant says that every id in the page's list was shown to the administrator, and that the id of a removal on its way was shown, too, or was handed out and belongs to no row any more, so that it never returns. That an id whose winner is gone may be forgotten is what lets `seen.told` shrink.

`CardsExact` speaks of one card with nothing in flight for its nominee; between two such moments any number of answers is on its way. The invariant (`Card`) says of every undoubted nominee that its winners in the page's list, with those of the successful selections and without those of the successful removals that the page has not heard of yet, are those of the table. The order of the answers is irrelevant because of `Apart`: a winner that the page has not heard of is not removed by anyone, and has an id of its own. What happens to doubted nominees touches no other card, since the ids of the rows in the table, the page and the requests were all issued and identify their row (`RowsInv`). Before the page is drawn only requests of an earlier page are under way (`Waiting`), whose nominees are doubted from the start.

**Listing.** The properties are about the moment when the last read is done; the invariant (`LInv`) says what each read has brought, as far as the rows still stand: after the first, the categories of the nominees that have stayed; after the second, these nominees; after the third, the titles of all nominees that were read and have stayed, those added in between included. `ListNominatedsByCategory` has its own part, where a nominee's title is known or still to be looked up. A nominee stands only with its category and movie (`KeysHold`), so whoever stayed until a read has its parents in that read. And an id is given out once (`IdsSpent`), so a nominee that stands and was read never went away in between. The tables are sequences, and the proof needs only which rows they hold: after an insertion, a prefix (the limit, a broken connection), a tail and a filter. The filter `Keep` is a recursive function; that it exists and keeps the right rows, in their order, is shown by the smallest index for which it does not. `NewestListed` needs the order: `NewestRead` says of the nominees that were read and still stand that whoever comes before them in the table, and was there from the beginning, was read as well. A prefix has this property, a deletion keeps the order of what stays, and an insertion puts only new nominees in front.

**Only model-checked** is liveness under fairness, which is out of the prover's reach: `TallyFreezes`, the two `RequestsEnd`, `AllServe`, `Quiesces` and `NoEndlessLogin`. The properties of the runs that expect a violation are false.

## 5. What is left

Of the manual migration scripts, the objects they add and the rows they delete are modelled, not the data they insert; every other component that changes state is modelled. Every invariant and action property is proved. What remains:

1. The safety halves of the other liveness properties, as `LateWritersShrink` is that of `TallyFreezes`: that each transaction of `Catalog` that waits, waits for one that can move or is in a circle that Postgres breaks, and that a process of `Migrations` cannot fall back over more files than crashes and races allow.
2. A specification of what the winners page promises to several administrators at once, with `WinnersPage` as its implementation.

**Not modelled:** rendering of templates and the single reads that change nothing (`ListMovies`, `ListCategories`, `ListNominateds`, `ListUsers`, `ListVotes`, `Me`, lookups of one row): each is one statement, whose answer is a state of the table. The health check, routing and configuration keep no state. Password hashing and the cryptography of tokens are outside what a state machine says. The data that the migration scripts insert matters only where a script runs twice, which `Migrations` has.
