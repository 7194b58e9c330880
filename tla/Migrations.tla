----------------------------- MODULE Migrations -----------------------------
(***************************************************************************)
(* db.Open and its runMigrations, run by every server process as it starts *)
(* against one shared Postgres database.  Looking a file up, executing it  *)
(* and recording it are three autocommitted calls, so processes starting   *)
(* together and crashes come between them.  A process whose migration      *)
(* fails exits (log.Fatalf) and is started again by its supervisor.        *)
(***************************************************************************)
EXTENDS Naturals, FiniteSets

CONSTANTS Instances,   \* server processes sharing the database
          Files,       \* number of embedded files; 1..Files is their sorted order
          Seeds,       \* nominee rows that the files insert
          FileOf,      \* the file that inserts a seed
          Unnamed,     \* seeds whose nominee_name is NULL
          Objects,     \* tables and columns
          Creates,     \* what a file creates
          Scripts,     \* what the scripts of `make migrate` add to the tables
          MaxCrashes   \* bound on the crashes that a behaviour contains

ASSUME InstancesAssumption == IsFiniteSet(Instances)
ASSUME FilesAssumption == Files \in Nat \ {0}
ASSUME SeedsAssumption == FileOf \in [Seeds -> 1..Files] /\ Unnamed \subseteq Seeds
ASSUME ObjectsAssumption == /\ Creates \in [1..Files -> SUBSET Objects]
                            /\ Scripts \subseteq Objects
ASSUME CrashAssumption == MaxCrashes \in Nat

VARIABLES applied,  \* rows of schema_migrations
          runs,     \* how often each file was executed and committed
          rows,     \* how many rows each seed has in nominees
          schema,   \* tables and columns that exist
          pc,       \* what each process is doing
          next,     \* the file each process is at
          crashes

db == <<applied, runs, rows, schema>>
vars == <<applied, runs, rows, schema, pc, next, crashes>>

File == 1..Files

Init == /\ applied = {}
        /\ runs = [f \in File |-> 0]
        /\ rows = [s \in Seeds |-> 0]
        /\ schema = {}
        /\ pc = [i \in Instances |-> "down"]
        /\ next = [i \in Instances |-> 1]
        /\ crashes = 0

\* Open: connect, create schema_migrations if needed, list and sort the files.
Start(i) == /\ pc[i] = "down"
            /\ pc' = [pc EXCEPT ![i] = "check"]
            /\ next' = [next EXCEPT ![i] = 1]
            /\ UNCHANGED <<db, crashes>>

\* Mutant: the loop does not stop at the last file.
AdvancePast(i) == /\ pc' = [pc EXCEPT ![i] = "check"]
                  /\ next' = [next EXCEPT ![i] = @ + 1]

\* On to the next file; past the last one the server listens.
Advance(i) == IF next[i] = Files
              THEN /\ pc' = [pc EXCEPT ![i] = "serve"]
                   /\ UNCHANGED next
              ELSE /\ pc' = [pc EXCEPT ![i] = "check"]
                   /\ next' = [next EXCEPT ![i] = @ + 1]

\* Mutant: the files already applied are not looked up.
CheckNothing(i) == /\ pc[i] = "check"
                   /\ pc' = [pc EXCEPT ![i] = "exec"]
                   /\ UNCHANGED <<db, next, crashes>>

\* Mutant: the files are taken in the wrong order.
CheckLast(i) == /\ pc[i] = "check"
                /\ IF next[i] \in applied
                   THEN Advance(i) /\ UNCHANGED <<db, crashes>>
                   ELSE /\ pc' = [pc EXCEPT ![i] = "exec"]
                        /\ next' = [next EXCEPT ![i] = Files]
                        /\ UNCHANGED <<db, crashes>>

\* SELECT EXISTS: skip a file that is recorded.
Check(i) == /\ pc[i] = "check"
            /\ IF next[i] \in applied
               THEN Advance(i)
               ELSE pc' = [pc EXCEPT ![i] = "exec"] /\ UNCHANGED next
            /\ UNCHANGED <<db, crashes>>

\* INSERT ... ON CONFLICT DO NOTHING under UNIQUE(movie_id, category_id,
\* nominee_name), where two NULL names never conflict.
SeedOnConflict(s) == IF rows[s] > 0 /\ s \notin Unnamed THEN rows[s] ELSE rows[s] + 1

Rivals(i) == {j \in Instances \ {i} : pc[j] = "exec" /\ next[j] = next[i]}

\* The whole file is one simple query, hence one implicit transaction.  Processes
\* that execute the same file at that moment may lose to its locks and catalog
\* rows: their db.Exec fails and they exit.
Execute(i) ==
    /\ pc[i] = "exec"
    /\ runs' = [runs EXCEPT ![next[i]] = @ + 1]
    /\ rows' = [s \in Seeds |-> IF FileOf[s] = next[i] THEN SeedOnConflict(s) ELSE rows[s]]
    /\ schema' = schema \cup Creates[next[i]]
    /\ \E losers \in SUBSET Rivals(i) :
          pc' = [j \in Instances |-> IF j = i THEN "record"
                                    ELSE IF j \in losers THEN "down" ELSE pc[j]]
    /\ UNCHANGED <<applied, next, crashes>>

\* Mutants: the record names the file after this one; nothing is recorded.
RecordedNext(i) == applied \cup ({next[i], next[i] + 1} \cap File)
RecordedNothing(i) == applied

Recorded(i) == applied \cup {next[i]}

\* INSERT INTO schema_migrations, whose primary key is the file name.
Record(i) == /\ pc[i] = "record"
             /\ next[i] \notin applied
             /\ applied' = Recorded(i)
             /\ Advance(i)
             /\ UNCHANGED <<runs, rows, schema, crashes>>

\* Mutant: a process whose record is refused retries the INSERT for ever.
RecordRetries(i) == /\ pc[i] = "record"
                    /\ next[i] \in applied
                    /\ UNCHANGED vars

\* Another process has recorded the file since it was looked up.
RecordFails(i) == /\ pc[i] = "record"
                  /\ next[i] \in applied
                  /\ pc' = [pc EXCEPT ![i] = "down"]
                  /\ UNCHANGED <<db, next, crashes>>

Crash(i) == /\ pc[i] # "down"
            /\ crashes < MaxCrashes
            /\ crashes' = crashes + 1
            /\ pc' = [pc EXCEPT ![i] = "down"]
            /\ UNCHANGED <<db, next>>

\* `make migrate` by hand: columns for the tables that exist; 008 first deletes
\* every nominee.
MakeMigrate == /\ schema # {}
               /\ schema' = schema \cup Scripts
               /\ rows' = [s \in Seeds |-> 0]
               /\ UNCHANGED <<applied, runs, pc, next, crashes>>

Step(i) == Start(i) \/ Check(i) \/ Execute(i) \/ Record(i) \/ RecordFails(i)

Next == \/ \E i \in Instances : Step(i) \/ Crash(i)
        \/ MakeMigrate

Spec == Init /\ [][Next]_vars

\* docker-compose.prod restarts the container unless it is stopped by hand.
FairSpec == Spec /\ \A i \in Instances : WF_vars(Step(i))

-----------------------------------------------------------------------------
TypeOK == /\ applied \in SUBSET File
          /\ runs \in [File -> Nat]
          /\ rows \in [Seeds -> Nat]
          /\ schema \in SUBSET Objects
          /\ pc \in [Instances -> {"down", "check", "exec", "record", "serve"}]
          /\ next \in [Instances -> File]
          /\ crashes \in 0..MaxCrashes

\* A file is recorded only after it was executed, whichever processes did the two.
RecordedWasExecuted == \A f \in applied : runs[f] > 0 /\ Creates[f] \subseteq schema

\* A process that serves has every embedded file behind it, although it may have
\* executed none of them itself.
ServingIsMigrated == \A i \in Instances : pc[i] = "serve" => applied = File

\* Files take effect in the order of their names: none is executed before its
\* predecessors are recorded.
InOrder == \A f, g \in File : f < g /\ runs[g] > 0 => f \in applied

\* A file is executed again only because of another process or a crash.
RunsAreBounded == \A f \in File : runs[f] <= Cardinality(Instances) + crashes

\* Processes that start together, fail on each other's records and crash all
\* serve in the end.
AllServe == <>[](\A i \in Instances : pc[i] = "serve")

\* The inductive invariant: a process has the records of all files before the one
\* it is at, and has seen the one it is about to record executed.
Progress ==
    \A i \in Instances :
       /\ pc[i] \in {"check", "exec", "record"} => \A f \in File : f < next[i] => f \in applied
       /\ pc[i] = "record" => runs[next[i]] > 0 /\ Creates[next[i]] \subseteq schema

At(step, f) == {i \in Instances : pc[i] = step /\ next[i] = f}

\* What RunsAreBounded needs to be inductive.  Until a file is recorded, each of its
\* executions belongs to a process about to record it or to a crash; from then on
\* the processes that had looked it up before can still execute it.
RunsAccounted ==
    \A f \in File : IF f \in applied
                    THEN runs[f] + Cardinality(At("exec", f)) <= Cardinality(Instances) + crashes
                    ELSE runs[f] <= Cardinality(At("record", f)) + crashes

IInv == /\ TypeOK
        /\ Progress
        /\ RecordedWasExecuted
        /\ ServingIsMigrated
        /\ InOrder

\* UNIQUE(movie_id, category_id, nominee_name): a nominee has one row.  Executing
\* and recording a file are not one transaction, and NULL names escape UNIQUE.
SeedsOnce == \A s \in Seeds : rows[s] <= 1
=============================================================================
