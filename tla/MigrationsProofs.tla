-------------------------- MODULE MigrationsProofs --------------------------
(***************************************************************************)
(* The safety of starting any number of processes on any number of files,  *)
(* with any number of crashes.                                             *)
(***************************************************************************)
EXTENDS Migrations, FiniteSetTheorems, TLAPS

LEMMA Constants ==
    /\ Files \in Nat /\ Files > 0 /\ 1 \in File
    /\ FileOf \in [Seeds -> File]
    /\ Creates \in [File -> SUBSET Objects]
    /\ Scripts \subseteq Objects
    /\ MaxCrashes \in Nat
BY FilesAssumption, SeedsAssumption, ObjectsAssumption, CrashAssumption DEF File

LEMMA InitIInv == Init => IInv
<1> SUFFICES ASSUME Init PROVE IInv
  OBVIOUS
<1> USE Constants DEF Init
<1>1. TypeOK
  BY DEF TypeOK
<1>2. Progress /\ RecordedWasExecuted /\ ServingIsMigrated /\ InOrder
  BY DEF Progress, RecordedWasExecuted, ServingIsMigrated, InOrder, File
<1> QED
  BY <1>1, <1>2 DEF IInv

\* A process that advances past its file stays behind no record.
LEMMA AdvanceKeeps ==
    ASSUME IInv, NEW i \in Instances, Advance(i), next[i] \in applied',
           \A f \in File : f < next[i] => f \in applied,
           applied \subseteq applied', applied' \subseteq File,
           runs' = runs, schema' = schema
    PROVE  /\ pc' \in [Instances -> {"down", "check", "exec", "record", "serve"}]
           /\ next' \in [Instances -> File]
           /\ Progress'
           /\ ServingIsMigrated'
<1> USE Constants DEF IInv, TypeOK, File
<1>1. CASE next[i] = Files
  <2>1. applied' = File
    <3>1. \A f \in File : f < next[i] \/ f = next[i]
      BY <1>1
    <3> QED
      BY <3>1
  <2>2. pc' = [pc EXCEPT ![i] = "serve"] /\ next' = next
    BY <1>1 DEF Advance
  <2>3. ServingIsMigrated'
    BY <2>1 DEF ServingIsMigrated
  <2>4. Progress'
    BY <2>1, <2>2 DEF Progress
  <2> QED
    BY <2>2, <2>3, <2>4
<1>2. CASE next[i] # Files
  <2>1. pc' = [pc EXCEPT ![i] = "check"] /\ next' = [next EXCEPT ![i] = @ + 1]
    BY <1>2 DEF Advance
  <2>2. next[i] + 1 \in File
    BY <1>2
  <2>3. \A f \in File : f < next[i] + 1 => f \in applied'
    OBVIOUS
  <2>4. ServingIsMigrated'
    BY <2>1 DEF ServingIsMigrated
  <2>5. Progress'
    BY <2>1, <2>2, <2>3 DEF Progress
  <2> QED
    BY <2>1, <2>2, <2>4, <2>5
<1> QED
  BY <1>1, <1>2

LEMMA IInvStep == IInv /\ [Next]_vars => IInv'
<1> SUFFICES ASSUME IInv, [Next]_vars PROVE IInv'
  OBVIOUS
<1> USE Constants DEF IInv
<1>1. ASSUME NEW i \in Instances, Step(i) PROVE IInv'
  <2>1. CASE Start(i)
    BY <2>1 DEF Start, db, TypeOK, Progress, RecordedWasExecuted, ServingIsMigrated,
                InOrder, File
  <2>2. CASE Check(i)
    <3>1. CASE next[i] \in applied
      <4>1. Advance(i) /\ UNCHANGED <<db, crashes>>
        BY <2>2, <3>1 DEF Check
      <4>2. \A f \in File : f < next[i] => f \in applied
        BY <2>2 DEF Check, Progress
      <4>3. /\ pc' \in [Instances -> {"down", "check", "exec", "record", "serve"}]
            /\ next' \in [Instances -> File]
            /\ Progress'
            /\ ServingIsMigrated'
        BY <3>1, <4>1, <4>2, AdvanceKeeps DEF db, TypeOK
      <4> QED
        BY <4>1, <4>3 DEF db, TypeOK, RecordedWasExecuted, InOrder
    <3>2. CASE next[i] \notin applied
      BY <2>2, <3>2 DEF Check, db, TypeOK, Progress, RecordedWasExecuted,
                        ServingIsMigrated, InOrder
    <3> QED
      BY <3>1, <3>2
  <2>3. CASE Execute(i)
    <3>1. PICK losers \in SUBSET Rivals(i) :
             pc' = [j \in Instances |-> IF j = i THEN "record"
                                        ELSE IF j \in losers THEN "down" ELSE pc[j]]
      BY <2>3 DEF Execute
    <3>2. \A s \in Seeds : SeedOnConflict(s) \in Nat
      BY DEF SeedOnConflict, TypeOK
    <3>3. TypeOK'
      BY <2>3, <3>1, <3>2 DEF Execute, TypeOK
    <3>4. \A f \in File : runs'[f] >= runs[f] /\ runs'[next[i]] > 0
      BY <2>3 DEF Execute, TypeOK
    <3>5. Progress'
      BY <2>3, <3>1, <3>4 DEF Execute, Progress, TypeOK
    <3>6. RecordedWasExecuted'
      BY <2>3, <3>4 DEF Execute, RecordedWasExecuted, TypeOK
    <3>7. ServingIsMigrated'
      BY <2>3, <3>1 DEF Execute, ServingIsMigrated
    <3>8. InOrder'
      <4>1. \A f \in File : f < next[i] => f \in applied
        BY <2>3 DEF Execute, Progress
      <4> QED
        BY <2>3, <4>1 DEF Execute, InOrder, TypeOK
    <3> QED
      BY <3>3, <3>5, <3>6, <3>7, <3>8
  <2>4. CASE Record(i)
    <3>1. applied' = applied \cup {next[i]} /\ applied' \subseteq File
      BY <2>4 DEF Record, Recorded, TypeOK
    <3>2. \A f \in File : f < next[i] => f \in applied
      BY <2>4 DEF Record, Progress
    <3>3. /\ pc' \in [Instances -> {"down", "check", "exec", "record", "serve"}]
          /\ next' \in [Instances -> File]
          /\ Progress'
          /\ ServingIsMigrated'
      BY <2>4, <3>1, <3>2, AdvanceKeeps DEF Record
    <3>4. RecordedWasExecuted'
      BY <2>4, <3>1 DEF Record, RecordedWasExecuted, Progress
    <3> QED
      BY <2>4, <3>1, <3>3, <3>4 DEF Record, TypeOK, InOrder
  <2>5. CASE RecordFails(i)
    BY <2>5 DEF RecordFails, db, TypeOK, Progress, RecordedWasExecuted, ServingIsMigrated,
                InOrder
  <2> QED
    BY <1>1, <2>1, <2>2, <2>3, <2>4, <2>5 DEF Step
<1>2. ASSUME NEW i \in Instances, Crash(i) PROVE IInv'
  <2>1. crashes' \in 0..MaxCrashes
    BY <1>2 DEF Crash, TypeOK
  <2> QED
    BY <1>2, <2>1 DEF Crash, db, TypeOK, Progress, RecordedWasExecuted, ServingIsMigrated,
                      InOrder
<1>3. CASE MakeMigrate
  BY <1>3 DEF MakeMigrate, TypeOK, Progress, RecordedWasExecuted, ServingIsMigrated,
              InOrder
<1>4. CASE UNCHANGED vars
  BY <1>4 DEF vars, TypeOK, Progress, RecordedWasExecuted, ServingIsMigrated,
              InOrder
<1> QED
  BY <1>1, <1>2, <1>3, <1>4 DEF Next

LEMMA Invariance == Spec => []IInv
BY InitIInv, IInvStep, PTL DEF Spec

\* Whatever the processes did before they crashed or lost a race, one that serves
\* has all embedded files recorded.
THEOREM ServingAlwaysMigrated == Spec => []ServingIsMigrated
<1>1. IInv => ServingIsMigrated
  BY DEF IInv
<1> QED
  BY <1>1, Invariance, PTL

\* A recorded file was executed, although recording it is a transaction of its own
\* that any process may be the one to reach.
THEOREM RecordedAlwaysExecuted == Spec => []RecordedWasExecuted
<1>1. IInv => RecordedWasExecuted
  BY DEF IInv
<1> QED
  BY <1>1, Invariance, PTL

\* No file takes effect before all files with smaller names are recorded.
THEOREM AlwaysInOrder == Spec => []InOrder
<1>1. IInv => InOrder
  BY DEF IInv
<1> QED
  BY <1>1, Invariance, PTL
-----------------------------------------------------------------------------
LEMMA AtFinite ==
    ASSUME NEW step, NEW f
    PROVE  /\ IsFiniteSet(At(step, f)) /\ Cardinality(At(step, f)) \in Nat
           /\ Cardinality(At(step, f)) <= Cardinality(Instances)
           /\ Cardinality(Instances) \in Nat
BY InstancesAssumption, FS_Subset, FS_CardinalityType DEF At

\* Processes of two groups that do not overlap are at most all processes.
LEMMA TwoGroups ==
    ASSUME NEW f
    PROVE  Cardinality(At("exec", f)) + Cardinality(At("record", f)) <= Cardinality(Instances)
<1> DEFINE E == At("exec", f)
           R == At("record", f)
<1>1. IsFiniteSet(E) /\ IsFiniteSet(R) /\ Cardinality(E) \in Nat /\ Cardinality(R) \in Nat
  BY AtFinite
<1>2. E \cap R = {} /\ E \cup R \in SUBSET Instances
  BY DEF At
<1> HIDE DEF E, R
<1>3. Cardinality(E \cup R) = Cardinality(E) + Cardinality(R) - Cardinality(E \cap R)
  BY <1>1, FS_Union
<1>4. Cardinality(E \cap R) = 0
  BY <1>2, FS_EmptySet
<1>5. Cardinality(E \cup R) <= Cardinality(Instances)
  BY <1>2, InstancesAssumption, FS_Subset
<1>6. Cardinality(E) + Cardinality(R) <= Cardinality(Instances)
  BY <1>1, <1>3, <1>4, <1>5
<1> QED
  BY <1>6 DEF E, R

\* A step that executes nothing, records nothing, lets no process look a recorded file
\* up as missing, and takes none away from its record but by a crash.
LEMMA AccountsKept ==
    ASSUME IInv, IInv', RunsAccounted, runs' = runs, applied' = applied,
           NEW k \in Nat, crashes' = crashes + k,
           \A f \in applied : At("exec", f)' \subseteq At("exec", f),
           \A f \in File \ applied :
              Cardinality(At("record", f)) <= Cardinality(At("record", f)') + k
    PROVE  RunsAccounted'
<1> SUFFICES ASSUME NEW f \in File
             PROVE  IF f \in applied
                    THEN runs[f] + Cardinality(At("exec", f)')
                            <= Cardinality(Instances) + crashes'
                    ELSE runs[f] <= Cardinality(At("record", f)') + crashes'
  BY DEF RunsAccounted
<1>0. runs[f] \in Nat /\ crashes \in Nat
  BY Constants DEF IInv, TypeOK
<1>1. CASE f \in applied
  <2>1. IsFiniteSet(At("exec", f)) /\ At("exec", f)' \in SUBSET At("exec", f)
    BY <1>1, AtFinite
  <2>2. Cardinality(At("exec", f)') <= Cardinality(At("exec", f))
        /\ Cardinality(At("exec", f)') \in Nat
    BY <2>1, FS_Subset, FS_CardinalityType
  <2>3. runs[f] + Cardinality(At("exec", f)) <= Cardinality(Instances) + crashes
    BY <1>1 DEF RunsAccounted
  <2> QED
    BY <1>0, <1>1, <2>2, <2>3, AtFinite
<1>2. CASE f \notin applied
  <2>1. runs[f] <= Cardinality(At("record", f)) + crashes
    BY <1>2 DEF RunsAccounted
  <2>2. Cardinality(At("record", f)) <= Cardinality(At("record", f)') + k
    BY <1>2
  <2>3. Cardinality(At("record", f)) \in Nat /\ Cardinality(At("record", f)') \in Nat
    <3>1. IsFiniteSet(At("record", f)')
      BY InstancesAssumption, FS_Subset DEF At
    <3> QED
      BY <3>1, AtFinite, FS_CardinalityType
  <2> QED
    BY <1>0, <1>2, <2>1, <2>2, <2>3
<1> QED
  BY <1>1, <1>2

LEMMA RunsAccountedStep == IInv /\ RunsAccounted /\ [Next]_vars => RunsAccounted'
<1> SUFFICES ASSUME IInv, RunsAccounted, [Next]_vars PROVE RunsAccounted'
  OBVIOUS
<1>0. IInv'
  BY IInvStep
<1> USE Constants
\* All steps but three leave the counts alone; one group of processes may shrink.
<1>1. ASSUME runs' = runs, applied' = applied, crashes' = crashes,
             \A f \in applied : At("exec", f)' \subseteq At("exec", f),
             \A f \in File \ applied : At("record", f)' = At("record", f)
      PROVE  RunsAccounted'
  <2>1. \A f \in File \ applied : Cardinality(At("record", f)) <= Cardinality(At("record", f)') + 0
    BY <1>1, AtFinite
  <2>2. crashes' = crashes + 0
    BY <1>1 DEF IInv, TypeOK
  <2> QED
    BY <1>0, <1>1, <2>1, <2>2, AccountsKept
<1>2. ASSUME NEW i \in Instances, Step(i) PROVE RunsAccounted'
  <2>1. CASE Start(i)
    BY <1>1, <2>1 DEF Start, db, At, IInv, TypeOK
  <2>2. CASE Check(i)
    BY <1>1, <2>2 DEF Check, Advance, db, At, IInv, TypeOK
  <2>3. CASE Execute(i)
    <3> DEFINE f == next[i]
    <3>1. PICK losers \in SUBSET Rivals(i) :
             pc' = [j \in Instances |-> IF j = i THEN "record"
                                        ELSE IF j \in losers THEN "down" ELSE pc[j]]
      BY <2>3 DEF Execute
    <3>2. /\ f \in File /\ pc[i] = "exec"
          /\ runs' = [runs EXCEPT ![f] = @ + 1]
          /\ UNCHANGED <<applied, next, crashes>>
      BY <2>3 DEF Execute, IInv, TypeOK
    <3>3. SUFFICES ASSUME NEW g \in File
                   PROVE  IF g \in applied
                          THEN runs'[g] + Cardinality(At("exec", g)')
                                  <= Cardinality(Instances) + crashes
                          ELSE runs'[g] <= Cardinality(At("record", g)') + crashes
      BY <3>2 DEF RunsAccounted
    <3>4. runs[g] \in Nat /\ crashes \in Nat /\ runs'[g] = IF g = f THEN runs[g] + 1 ELSE runs[g]
      BY <3>2 DEF IInv, TypeOK
    <3>5. At("exec", g)' \in SUBSET (At("exec", g) \ {i})
      BY <3>1, <3>2 DEF At, Rivals, IInv, TypeOK
    <3>6. At("record", g)' = IF g = f THEN At("record", g) \cup {i} ELSE At("record", g)
      <4>1. \A j \in losers : pc[j] = "exec"
        BY DEF Rivals
      <4> QED
        BY <3>1, <3>2, <4>1 DEF At, IInv, TypeOK
    <3>7. CASE g \in applied
      <4>1. /\ IsFiniteSet(At("exec", g) \ {i})
            /\ Cardinality(At("exec", g) \ {i})
                 = IF i \in At("exec", g) THEN Cardinality(At("exec", g)) - 1
                                          ELSE Cardinality(At("exec", g))
        BY AtFinite, FS_RemoveElement
      <4>2. /\ Cardinality(At("exec", g)') <= Cardinality(At("exec", g) \ {i})
            /\ Cardinality(At("exec", g)') \in Nat
        BY <3>5, <4>1, FS_Subset, FS_CardinalityType
      <4>3. g = f => i \in At("exec", g)
        BY <3>2 DEF At
      <4>4. runs[g] + Cardinality(At("exec", g)) <= Cardinality(Instances) + crashes
        BY <3>7 DEF RunsAccounted
      <4> HIDE DEF f
      <4> QED
        BY <3>4, <3>7, <4>1, <4>2, <4>3, <4>4, AtFinite
    <3>8. CASE g \notin applied
      <4>1. i \notin At("record", g)
        BY <3>2 DEF At
      <4>2. Cardinality(At("record", g) \cup {i}) = Cardinality(At("record", g)) + 1
        BY <4>1, AtFinite, FS_AddElement
      <4>3. runs[g] <= Cardinality(At("record", g)) + crashes
        BY <3>8 DEF RunsAccounted
      <4>4. runs'[g] <= Cardinality(At("record", g)') + crashes
        <5>1. CASE g = f
          <6>1. Cardinality(At("record", g)') = Cardinality(At("record", g)) + 1
            BY <3>6, <4>2, <5>1
          <6> HIDE DEF f
          <6> QED
            BY <3>4, <4>3, <5>1, <6>1, AtFinite
        <5>2. CASE g # f
          BY <3>4, <3>6, <4>3, <5>2
        <5> QED
          BY <5>1, <5>2
      <4> QED
        BY <3>8, <4>4
    <3> QED
      BY <3>7, <3>8
  <2>4. CASE Record(i)
    <3> DEFINE f == next[i]
    <3>1. /\ f \in File \ applied /\ pc[i] = "record"
          /\ applied' = applied \cup {f} /\ runs' = runs /\ crashes' = crashes
      BY <2>4 DEF Record, Recorded, IInv, TypeOK
    <3>2. \A g \in File : At("exec", g)' \subseteq At("exec", g)
      BY <2>4 DEF Record, Advance, At, IInv, TypeOK
    <3>3. \A g \in File \ applied : g # f => At("record", g)' = At("record", g)
      BY <2>4 DEF Record, Advance, At, IInv, TypeOK
    <3>4. SUFFICES ASSUME NEW g \in File
                   PROVE  IF g \in applied'
                          THEN runs[g] + Cardinality(At("exec", g)')
                                  <= Cardinality(Instances) + crashes
                          ELSE runs[g] <= Cardinality(At("record", g)') + crashes
      BY <3>1 DEF RunsAccounted
    <3>5. runs[g] \in Nat /\ crashes \in Nat
      BY DEF IInv, TypeOK
    <3>6. CASE g \in applied'
      <4>1. runs[g] + Cardinality(At("exec", g)) <= Cardinality(Instances) + crashes
        <5>1. CASE g \in applied
          BY <5>1 DEF RunsAccounted
        <5>2. CASE g \notin applied
          <6>1. runs[g] <= Cardinality(At("record", g)) + crashes
            BY <5>2 DEF RunsAccounted
          <6>2. Cardinality(At("exec", g)) + Cardinality(At("record", g)) <= Cardinality(Instances)
            BY TwoGroups
          <6> QED
            BY <3>5, <6>1, <6>2, AtFinite
        <5> QED
          BY <5>1, <5>2
      <4>2. /\ Cardinality(At("exec", g)') <= Cardinality(At("exec", g))
            /\ Cardinality(At("exec", g)') \in Nat
        <5>1. IsFiniteSet(At("exec", g)) /\ At("exec", g)' \in SUBSET At("exec", g)
          BY <3>2, AtFinite
        <5> QED
          BY <5>1, FS_Subset, FS_CardinalityType
      <4> QED
        BY <3>5, <3>6, <4>1, <4>2, AtFinite
    <3>7. CASE g \notin applied'
      BY <3>1, <3>3, <3>7 DEF RunsAccounted
    <3> QED
      BY <3>6, <3>7
  <2>5. CASE RecordFails(i)
    BY <1>1, <2>5 DEF RecordFails, db, At, IInv, TypeOK
  <2> QED
    BY <1>2, <2>1, <2>2, <2>3, <2>4, <2>5 DEF Step
<1>3. ASSUME NEW i \in Instances, Crash(i) PROVE RunsAccounted'
  <2>1. /\ runs' = runs /\ applied' = applied /\ crashes' = crashes + 1
        /\ \A f \in applied : At("exec", f)' \subseteq At("exec", f)
        /\ \A f \in File : At("record", f)' = At("record", f) \ {i}
    BY <1>3 DEF Crash, db, At, IInv, TypeOK
  <2>2. \A f \in File \ applied : Cardinality(At("record", f)) <= Cardinality(At("record", f)') + 1
    <3> SUFFICES ASSUME NEW f \in File
                 PROVE  Cardinality(At("record", f)) <= Cardinality(At("record", f) \ {i}) + 1
      BY <2>1
    <3>1. Cardinality(At("record", f) \ {i}) =
             IF i \in At("record", f) THEN Cardinality(At("record", f)) - 1
                                      ELSE Cardinality(At("record", f))
      BY AtFinite, FS_RemoveElement
    <3> QED
      BY <3>1, AtFinite
  <2> QED
    BY <1>0, <2>1, <2>2, AccountsKept
<1>4. CASE MakeMigrate
  BY <1>1, <1>4 DEF MakeMigrate, At
<1>5. CASE UNCHANGED vars
  BY <1>1, <1>5 DEF vars, At
<1> QED
  BY <1>2, <1>3, <1>4, <1>5 DEF Next

\* However processes race for a file, repeat it after lost records and crash, its
\* executions never exceed the number of processes and of crashes.
THEOREM RunsAlwaysBounded == Spec => []RunsAreBounded
<1>1. Init => RunsAccounted
  <2> SUFFICES ASSUME Init, NEW f \in File PROVE 0 <= Cardinality(At("record", f)) + 0
    BY DEF Init, RunsAccounted
  <2> QED
    BY AtFinite
<1>2. IInv /\ RunsAccounted => RunsAreBounded
  <2> SUFFICES ASSUME IInv, RunsAccounted, NEW f \in File
               PROVE  runs[f] <= Cardinality(Instances) + crashes
    BY DEF RunsAreBounded
  <2>1. runs[f] \in Nat /\ crashes \in Nat
    BY Constants DEF IInv, TypeOK
  <2> QED
    BY <2>1, AtFinite DEF RunsAccounted
<1> QED
  BY <1>1, <1>2, RunsAccountedStep, InitIInv, IInvStep, PTL DEF Spec

\* Every variable keeps its type, crashes at any step included.
THEOREM TypeCorrect == Spec => []TypeOK
<1>1. IInv => TypeOK
  BY DEF IInv
<1> QED
  BY <1>1, Invariance, PTL
=============================================================================
