---------------------------- MODULE MigrateProofs ----------------------------
(***************************************************************************)
(* However many instances start together, from whatever releases and with  *)
(* whatever faults, every migration takes effect once and in order, and an *)
(* instance starts on a complete schema: the abstract promise of Schema.   *)
(***************************************************************************)
EXTENDS Migrate, TLAPS

(* Behind every migration an instance has passed, and every one recorded or *)
(* in a transaction left behind, all the earlier ones are recorded.         *)
EarlierRecorded ==
  /\ \A v \in recorded : 1..(v - 1) \subseteq recorded
  /\ \A i \in Instances : 1..(at[i] - 1) \subseteq recorded
  /\ \A o \in orphans : 1..(o[1] - 1) \subseteq recorded

AtWithinEmbedded ==
  \A i \in Instances :
    /\ at[i] <= Embedded[i] + 1
    /\ phase[i] \in {"statement"} \cup InTransaction => at[i] <= Embedded[i]
    /\ phase[i] = "started" => at[i] = Embedded[i] + 1

(* The PRIMARY KEY: one transaction at most holds the row of a version that *)
(* is not yet committed.                                                    *)
SoleCommitter ==
  /\ \A i \in Instances : phase[i] = "commit" =>
       /\ at[i] \notin recorded
       /\ <<at[i], "commit">> \notin orphans
       /\ \A j \in Instances \ {i} : phase[j] = "commit" => at[j] # at[i]
  /\ \A v \in Versions : <<v, "commit">> \in orphans => v \notin recorded

MigrateInv == /\ TypeOK /\ RecordedIffApplied /\ EarlierRecorded
              /\ AtWithinEmbedded /\ SoleCommitter

-------------------------------------------------------------------------------
(* A version whose row is inserted joins the recorded ones: what that keeps *)
(* of the sets.                                                             *)
LEMMA CommittedKeeps ==
  ASSUME NEW v \in Versions, TypeOK, RecordedIffApplied, EarlierRecorded,
         v \notin recorded, 1..(v - 1) \subseteq recorded, Committed(v)
  PROVE  /\ recorded' \subseteq Versions
         /\ applied' \in [Versions -> 0..1]
         /\ RecordedIffApplied'
         /\ recorded \subseteq recorded'
         /\ \A w \in recorded' : 1..(w - 1) \subseteq recorded'
         /\ \A w \in recorded' : w \in recorded \/ w = v
<1>1. recorded' = recorded \cup {v}
  BY DEF Committed
<1>2. applied[v] = 0
  BY DEF RecordedIffApplied
<1>3. applied' = [applied EXCEPT ![v] = 1]
  BY <1>2 DEF Committed, TypeOK
<1>4. applied' \in [Versions -> 0..1]
  BY <1>3 DEF TypeOK
<1>5. RecordedIffApplied'
  BY <1>1, <1>3 DEF RecordedIffApplied, TypeOK
<1>6. \A w \in recorded' : 1..(w - 1) \subseteq recorded'
  BY <1>1 DEF EarlierRecorded
<1> QED
  BY <1>1, <1>4, <1>5, <1>6 DEF TypeOK

(* The steps that leave the database alone but for the table's existence.   *)
LEMMA QuietKeeps ==
  ASSUME MigrateInv, NEW i \in Instances, NEW p \in {"down", "started"} \cup Working,
         NEW n \in 1..(Count + 1),
         phase' = [phase EXCEPT ![i] = p], at' = [at EXCEPT ![i] = n],
         table' \in BOOLEAN, faults' \in 0..MaxFaults,
         UNCHANGED <<recorded, applied, orphans>>,
         n <= Embedded[i] + 1, 1..(n - 1) \subseteq recorded,
         p \in {"statement"} \cup InTransaction => n <= Embedded[i],
         p = "started" => n = Embedded[i] + 1,
         p = "commit" => /\ n \notin recorded /\ <<n, "commit">> \notin orphans
                         /\ \A j \in Instances \ {i} : phase[j] = "commit" => at[j] # n
  PROVE  MigrateInv'
<1>1. TypeOK'
  BY DEF MigrateInv, TypeOK
<1>2. RecordedIffApplied'
  BY DEF MigrateInv, RecordedIffApplied
<1>3. \A j \in Instances : /\ at'[j] = IF j = i THEN n ELSE at[j]
                           /\ phase'[j] = IF j = i THEN p ELSE phase[j]
  BY DEF MigrateInv, TypeOK
<1>4. EarlierRecorded'
  BY <1>3 DEF MigrateInv, EarlierRecorded
<1>5. AtWithinEmbedded'
  BY <1>3 DEF MigrateInv, AtWithinEmbedded
<1>6. SoleCommitter'
  BY <1>3 DEF MigrateInv, SoleCommitter
<1> QED
  BY <1>1, <1>2, <1>4, <1>5, <1>6 DEF MigrateInv

(* A transaction about to commit: its version is not yet recorded, and all  *)
(* the earlier ones are.                                                    *)
LEMMA CommitterInv ==
  ASSUME MigrateInv, NEW i \in Instances, phase[i] = "commit"
  PROVE  /\ at[i] \in Versions /\ at[i] \notin recorded
         /\ at[i] <= Embedded[i] /\ <<at[i], "commit">> \notin orphans
         /\ 1..(at[i] - 1) \subseteq recorded
<1>1. at[i] \in 1..(Count + 1) /\ at[i] <= Embedded[i] /\ Embedded[i] \in 0..Count
  <2>1. at \in [Instances -> 1..(Count + 1)]
    BY DEF MigrateInv, TypeOK
  <2> QED
    BY <2>1, EmbeddedAssumption DEF MigrateInv, AtWithinEmbedded, InTransaction
<1>2. at[i] \in Versions
  BY <1>1, CountAssumption DEF Versions
<1> QED
  BY <1>1, <1>2 DEF MigrateInv, EarlierRecorded, SoleCommitter

LEMMA InitMigrate == Init => MigrateInv
<1> SUFFICES ASSUME Init PROVE MigrateInv
  OBVIOUS
<1> USE CountAssumption, EmbeddedAssumption, FaultsAssumption DEF Init
<1>0. table \in BOOLEAN
  OBVIOUS
<1>1. TypeOK
  <2>1. \A i \in Instances : phase[i] \in {"down", "started"} \cup Working
    OBVIOUS
  <2>2. recorded \subseteq Versions /\ orphans \subseteq Versions \X InTransaction
    OBVIOUS
  <2>3. applied \in [Versions -> 0..1]
    OBVIOUS
  <2>4. at \in [Instances -> 1..(Count + 1)] /\ faults \in 0..MaxFaults
    OBVIOUS
  <2>5. phase \in [Instances -> {"down", "started"} \cup Working]
    BY <2>1
  <2> QED
    BY <1>0, <2>2, <2>3, <2>4, <2>5 DEF TypeOK
<1>2. RecordedIffApplied
  BY DEF RecordedIffApplied
<1>3. EarlierRecorded
  BY DEF EarlierRecorded
<1>4. AtWithinEmbedded
  <2>1. \A i \in Instances : Embedded[i] \in 0..Count /\ at[i] = 1 /\ phase[i] = "down"
    OBVIOUS
  <2> QED
    <3> SUFFICES ASSUME NEW i \in Instances
                 PROVE  /\ at[i] <= Embedded[i] + 1
                        /\ phase[i] \notin {"statement"} \cup InTransaction
                        /\ phase[i] # "started"
      BY DEF AtWithinEmbedded
    <3>1. at[i] <= Embedded[i] + 1
      BY ONLY <2>1, CountAssumption, i \in Instances
    <3>2. phase[i] \notin {"statement"} \cup InTransaction /\ phase[i] # "started"
      BY ONLY <2>1, i \in Instances DEF InTransaction
    <3> QED
      BY <3>1, <3>2
<1>5. SoleCommitter
  BY DEF SoleCommitter
<1> QED
  BY <1>1, <1>2, <1>3, <1>4, <1>5 DEF MigrateInv

LEMMA ProceedKeeps ==
  ASSUME MigrateInv, NEW i \in Instances, Proceed(i)
  PROVE  MigrateInv'
<1> USE CountAssumption, EmbeddedAssumption
<1>0. /\ at[i] \in 1..(Count + 1) /\ Embedded[i] \in 0..Count
      /\ faults \in 0..MaxFaults /\ at = [at EXCEPT ![i] = at[i]]
      /\ table \in BOOLEAN /\ 1..(at[i] - 1) \subseteq recorded
      /\ at[i] <= Embedded[i] + 1
  BY DEF MigrateInv, TypeOK, EarlierRecorded, AtWithinEmbedded
<1>f. ASSUME Fails(i), table' \in BOOLEAN, UNCHANGED <<recorded, applied, orphans>>
      PROVE  MigrateInv'
  <2>1. 1 \in 1..(Count + 1) /\ 1 <= Embedded[i] + 1 /\ 1..(1 - 1) \subseteq recorded
    BY <1>0
  <2> QED
    BY ONLY <1>f, <1>0, <2>1, MigrateInv, i \in Instances, QuietKeeps
       DEF Fails, InTransaction, Working
<1>g. ASSUME NEW p \in {"create", "creating", "check", "record"}, Goto(i, p),
             table' \in BOOLEAN, UNCHANGED <<recorded, applied, orphans>>,
             p = "record" => at[i] <= Embedded[i]
      PROVE  MigrateInv'
  BY ONLY <1>g, <1>0, MigrateInv, i \in Instances, QuietKeeps DEF Goto, InTransaction, Working
<1>1. CASE Boot(i)
  BY <1>1, <1>g, <1>0 DEF Boot
<1>2. CASE Create(i)
  BY <1>2, <1>g, <1>0 DEF Create
<1>3. CASE FinishCreate(i)
  BY <1>3, <1>g, <1>f DEF FinishCreate
<1>4. CASE Check(i)
  <2>1. CASE at[i] \in recorded
    <3>1. /\ at' = [at EXCEPT ![i] = at[i] + 1] /\ phase' = [phase EXCEPT ![i] = "check"]
          /\ at[i] + 1 \in 1..(Count + 1) /\ at[i] + 1 <= Embedded[i] + 1
          /\ UNCHANGED <<table, recorded, applied, orphans, faults>>
      BY <1>4, <2>1, <1>0 DEF Check, IsApplied, Version, Advance
    <3>2. 1..((at[i] + 1) - 1) \subseteq recorded
      BY <1>0, <2>1
    <3> QED
      BY ONLY <3>1, <3>2, <1>0, MigrateInv, i \in Instances, QuietKeeps
         DEF InTransaction, Working
  <2>2. CASE at[i] \notin recorded
    <3>1. /\ phase' = [phase EXCEPT ![i] = "statement"] /\ at[i] <= Embedded[i]
          /\ UNCHANGED <<table, recorded, applied, orphans, faults, at>>
      BY <1>4, <2>2 DEF Check, IsApplied, Version, Goto
    <3> QED
      BY ONLY <3>1, <1>0, MigrateInv, i \in Instances, QuietKeeps DEF InTransaction, Working
  <2> QED
    BY <2>1, <2>2
<1>5. CASE Return(i)
  <2>1. /\ phase' = [phase EXCEPT ![i] = "started"] /\ at[i] = Embedded[i] + 1
        /\ UNCHANGED <<table, recorded, applied, orphans, faults, at>>
    BY <1>5, <1>0 DEF Return, Goto
  <2> QED
    BY ONLY <2>1, <1>0, MigrateInv, i \in Instances, QuietKeeps DEF InTransaction, Working
<1>6. CASE Statement(i)
  <2>1. at[i] <= Embedded[i]
    BY <1>6 DEF Statement, MigrateInv, AtWithinEmbedded
  <2> QED
    BY <1>6, <2>1, <1>g, <1>f, <1>0 DEF Statement
<1>7. CASE Record(i)
  <2>1. at[i] <= Embedded[i]
    BY <1>7 DEF Record, MigrateInv, AtWithinEmbedded, InTransaction
  <2>2. /\ <<at[i], "commit">> \notin orphans
        /\ \A j \in Instances \ {i} : phase[j] = "commit" => at[j] # at[i]
    BY <1>7 DEF Record, Holds, Version
  <2>3. CASE at[i] \in recorded
    BY <1>7, <2>3, <1>f, <1>0 DEF Record, Version
  <2>4. CASE at[i] \notin recorded
    <3>1. /\ phase' = [phase EXCEPT ![i] = "commit"]
          /\ UNCHANGED <<table, recorded, applied, orphans, faults, at>>
      BY <1>7, <2>4 DEF Record, Version, Goto
    <3> QED
      BY ONLY <3>1, <2>1, <2>2, <2>4, <1>0, MigrateInv, i \in Instances, QuietKeeps
         DEF InTransaction, Working
  <2> QED
    BY <2>3, <2>4
<1>8. CASE Commit(i)
  <2>1. /\ at[i] \in Versions /\ at[i] \notin recorded /\ Committed(at[i])
        /\ at[i] <= Embedded[i] /\ <<at[i], "commit">> \notin orphans
    BY <1>8, CommitterInv DEF Commit, Version
  <2>2. /\ \A j \in Instances : /\ at'[j] = IF j = i THEN at[i] + 1 ELSE at[j]
                                /\ phase'[j] = IF j = i THEN "check" ELSE phase[j]
        /\ orphans' = orphans /\ recorded' = recorded \cup {at[i]}
    BY <1>8 DEF Commit, Advance, MigrateInv, TypeOK, Committed, Version
  <2>3. /\ recorded' \subseteq Versions /\ applied' \in [Versions -> 0..1]
        /\ RecordedIffApplied' /\ recorded \subseteq recorded'
        /\ \A w \in recorded' : 1..(w - 1) \subseteq recorded'
    BY <2>1, <1>0, CommittedKeeps DEF MigrateInv
  <2>4. TypeOK'
    BY <1>8, <2>1, <2>3, <1>0 DEF Commit, Advance, MigrateInv, TypeOK, Working
  <2>5. EarlierRecorded'
    <3>1. 1..((at[i] + 1) - 1) \subseteq recorded'
      BY <2>2, <1>0
    <3> QED
      BY <2>2, <2>3, <3>1 DEF MigrateInv, EarlierRecorded
  <2>6. AtWithinEmbedded'
    BY <2>1, <2>2, <1>0 DEF MigrateInv, AtWithinEmbedded, InTransaction
  <2>7. SoleCommitter'
    BY <2>1, <2>2, <1>8 DEF MigrateInv, SoleCommitter, Commit
  <2> QED
    BY <2>3, <2>4, <2>5, <2>6, <2>7 DEF MigrateInv
<1> QED
  BY <1>1, <1>2, <1>3, <1>4, <1>5, <1>6, <1>7, <1>8 DEF Proceed

LEMMA FaultKeeps ==
  ASSUME MigrateInv, NEW i \in Instances, Fault(i)
  PROVE  MigrateInv'
<1> USE CountAssumption, EmbeddedAssumption, FaultsAssumption
<1>0. /\ at[i] \in 1..(Count + 1) /\ Embedded[i] \in 0..Count
      /\ 1..(at[i] - 1) \subseteq recorded /\ faults' \in 0..MaxFaults
      /\ table' \in BOOLEAN
      /\ \A j \in Instances : /\ at'[j] = IF j = i THEN 1 ELSE at[j]
                              /\ phase'[j] = IF j = i THEN "down" ELSE phase[j]
      /\ at' \in [Instances -> 1..(Count + 1)]
      /\ phase' \in [Instances -> {"down", "started"} \cup Working]
  <2>1. table' \in BOOLEAN
    BY DEF Fault, MigrateInv, TypeOK
  <2>2. /\ at \in [Instances -> 1..(Count + 1)] /\ faults \in 0..MaxFaults
        /\ phase \in [Instances -> {"down", "started"} \cup Working]
    BY DEF MigrateInv, TypeOK
  <2>3. /\ phase' = [phase EXCEPT ![i] = "down"] /\ at' = [at EXCEPT ![i] = 1]
        /\ faults < MaxFaults /\ faults' = faults + 1
    BY DEF Fault
  <2> QED
    BY <2>1, <2>2, <2>3 DEF MigrateInv, EarlierRecorded
<1>1. AtWithinEmbedded'
  BY <1>0 DEF MigrateInv, AtWithinEmbedded, InTransaction
<1>2. phase[i] \in InTransaction => at[i] \in Versions
  BY <1>0 DEF MigrateInv, AtWithinEmbedded, Versions
<1>3. CASE UNCHANGED <<recorded, applied, orphans>>
  <2>1. TypeOK' /\ RecordedIffApplied'
    BY <1>3, <1>0 DEF MigrateInv, TypeOK, RecordedIffApplied
  <2>2. EarlierRecorded'
    BY <1>3, <1>0 DEF MigrateInv, EarlierRecorded
  <2>3. SoleCommitter'
    BY <1>3, <1>0 DEF MigrateInv, SoleCommitter
  <2> QED
    BY <1>1, <2>1, <2>2, <2>3 DEF MigrateInv
<1>4. CASE phase[i] = "commit" /\ Committed(Version(i)) /\ UNCHANGED orphans
  <2>1. at[i] \in Versions /\ at[i] \notin recorded /\ <<at[i], "commit">> \notin orphans
    BY <1>4, CommitterInv
  <2>2. /\ recorded' \subseteq Versions /\ applied' \in [Versions -> 0..1]
        /\ RecordedIffApplied' /\ recorded \subseteq recorded'
        /\ \A w \in recorded' : 1..(w - 1) \subseteq recorded'
    BY <1>4, <2>1, <1>0, CommittedKeeps DEF MigrateInv, Version
  <2>3. recorded' = recorded \cup {at[i]}
    BY <1>4 DEF Committed, Version
  <2>4. TypeOK'
    BY <1>4, <1>0, <2>2 DEF MigrateInv, TypeOK
  <2>5. EarlierRecorded'
    BY <1>4, <1>0, <2>2 DEF MigrateInv, EarlierRecorded
  <2>6. SoleCommitter'
    BY <1>4, <1>0, <2>1, <2>3 DEF MigrateInv, SoleCommitter
  <2> QED
    BY <1>1, <2>2, <2>4, <2>5, <2>6 DEF MigrateInv
<1>5. CASE /\ phase[i] \in InTransaction
           /\ orphans' = orphans \cup {<<Version(i), phase[i]>>}
           /\ UNCHANGED <<recorded, applied>>
  <2>1. at[i] \in Versions /\ orphans' = orphans \cup {<<at[i], phase[i]>>}
    BY <1>5, <1>2 DEF Version
  <2>2. TypeOK' /\ RecordedIffApplied'
    BY <1>5, <1>0, <2>1 DEF MigrateInv, TypeOK, RecordedIffApplied
  <2>3. EarlierRecorded'
    BY <1>5, <1>0, <2>1 DEF MigrateInv, EarlierRecorded
  <2>4. SoleCommitter'
    BY <1>5, <1>0, <2>1 DEF MigrateInv, SoleCommitter, InTransaction
  <2> QED
    BY <1>1, <2>2, <2>3, <2>4 DEF MigrateInv
<1> QED
  BY <1>3, <1>4, <1>5 DEF Fault

LEMMA EndOrphanKeeps ==
  ASSUME MigrateInv, NEW o \in Versions \X InTransaction, EndOrphan(o)
  PROVE  MigrateInv'
<1>0. o = <<o[1], o[2]>> /\ o[1] \in Versions
  OBVIOUS
<1>1. AtWithinEmbedded'
  BY DEF EndOrphan, MigrateInv, AtWithinEmbedded
<1>2. CASE UNCHANGED <<recorded, applied>>
  <2>1. TypeOK' /\ RecordedIffApplied'
    BY <1>2 DEF EndOrphan, MigrateInv, TypeOK, RecordedIffApplied
  <2>2. EarlierRecorded'
    BY <1>2 DEF EndOrphan, MigrateInv, EarlierRecorded
  <2>3. SoleCommitter'
    BY <1>2 DEF EndOrphan, MigrateInv, SoleCommitter
  <2> QED
    BY <1>1, <2>1, <2>2, <2>3 DEF MigrateInv
<1>3. CASE o[2] = "commit" /\ Committed(o[1])
  <2>1. /\ <<o[1], "commit">> \in orphans /\ o[1] \notin recorded
        /\ 1..(o[1] - 1) \subseteq recorded
    BY <1>0, <1>3 DEF EndOrphan, MigrateInv, EarlierRecorded, SoleCommitter
  <2>2. /\ recorded' \subseteq Versions /\ applied' \in [Versions -> 0..1]
        /\ RecordedIffApplied' /\ recorded \subseteq recorded'
        /\ \A w \in recorded' : 1..(w - 1) \subseteq recorded'
    BY <1>3, <2>1, <1>0, CommittedKeeps DEF MigrateInv
  <2>3. /\ recorded' = recorded \cup {o[1]}
        /\ <<o[1], "commit">> \notin orphans' /\ orphans' \subseteq orphans
        /\ UNCHANGED <<table, phase, at, faults>>
    BY <1>3, <1>0 DEF Committed, EndOrphan
  <2>4. TypeOK'
    BY <2>2, <2>3 DEF MigrateInv, TypeOK
  <2>5. EarlierRecorded'
    BY <2>2, <2>3 DEF MigrateInv, EarlierRecorded
  <2>6. SoleCommitter'
    BY <2>1, <2>3 DEF MigrateInv, SoleCommitter
  <2> QED
    BY <1>1, <2>2, <2>4, <2>5, <2>6 DEF MigrateInv
<1> QED
  BY <1>2, <1>3 DEF EndOrphan

LEMMA StutterKeeps == MigrateInv /\ UNCHANGED vars => MigrateInv'
BY DEF vars, MigrateInv, TypeOK, RecordedIffApplied, EarlierRecorded,
       AtWithinEmbedded, SoleCommitter

(* The invariant of the migration holds in every reachable state.           *)
THEOREM MigrateInvariant == Spec => []MigrateInv
<1>1. MigrateInv /\ [Next]_vars => MigrateInv'
  BY ProceedKeeps, FaultKeeps, EndOrphanKeeps, StutterKeeps DEF Next
<1> QED
  BY InitMigrate, <1>1, PTL DEF Spec
-------------------------------------------------------------------------------
(* Every variable keeps its type, for any number of instances and faults.   *)
THEOREM MigrateTypeCorrect == Spec => []TypeOK
BY MigrateInvariant, PTL DEF MigrateInv

(* A migration is recorded exactly when its effects were committed, once.   *)
THEOREM AppliedOnce == Spec => []RecordedIffApplied
BY MigrateInvariant, PTL DEF MigrateInv

(* No migration runs before the earlier ones are committed.                 *)
THEOREM AppliedInOrder == Spec => []RunsAfterEarlier
<1>1. MigrateInv => RunsAfterEarlier
  BY DEF MigrateInv, EarlierRecorded, RunsAfterEarlier, Version
<1> QED
  BY <1>1, MigrateInvariant, PTL

LEMMA StartedComplete == MigrateInv => StartedIsMigrated
<1> SUFFICES ASSUME MigrateInv, NEW i \in Instances, phase[i] = "started",
                    NEW v \in 1..Embedded[i]
             PROVE  applied[v] = 1
  BY DEF StartedIsMigrated
<1>1. Embedded[i] \in 0..Count /\ at[i] = Embedded[i] + 1
  BY EmbeddedAssumption DEF MigrateInv, AtWithinEmbedded
<1>2. v \in recorded /\ v \in Versions
  BY <1>1, CountAssumption DEF MigrateInv, EarlierRecorded, Versions
<1> QED
  BY <1>2 DEF MigrateInv, RecordedIffApplied

(* An instance serves only on the schema its binary was written for.        *)
THEOREM StartsOnItsSchema == Spec => []StartedIsMigrated
BY StartedComplete, MigrateInvariant, PTL
-------------------------------------------------------------------------------
Ready == {i \in Instances : phase[i] = "started"}

LEMMA CommitApplies ==
  ASSUME MigrateInv, NEW v \in Versions, v \notin recorded,
         1..(v - 1) \subseteq recorded, Committed(v), Ready' = Ready
  PROVE  Promise!Apply(v)
<1>1. applied[v] = 0 /\ \A w \in 1..(v - 1) : applied[w] = 1
  BY CountAssumption DEF MigrateInv, RecordedIffApplied, TypeOK
<1>2. applied' = [applied EXCEPT ![v] = 1]
  BY <1>1 DEF Committed, MigrateInv, TypeOK
<1> QED
  BY <1>1, <1>2 DEF Promise!Apply, Ready

LEMMA ProceedImplements ==
  ASSUME MigrateInv, NEW i \in Instances, Proceed(i)
  PROVE  Promise!Next \/ UNCHANGED <<applied, Ready>>
<1>0. phase \in [Instances -> {"down", "started"} \cup Working]
  BY DEF MigrateInv, TypeOK
<1>1. CASE Return(i)
  <2>1. UNCHANGED applied /\ phase' = [phase EXCEPT ![i] = "started"]
    BY <1>1 DEF Return, Goto
  <2>2. Ready' = Ready \cup {i}
    BY <1>0, <2>1 DEF Ready
  <2>3. \A v \in 1..Embedded[i] : applied[v] = 1
    <3>1. Embedded[i] \in 0..Count /\ at[i] = Embedded[i] + 1
      BY <1>1, EmbeddedAssumption, CountAssumption
         DEF Return, MigrateInv, AtWithinEmbedded, TypeOK
    <3> QED
      BY <3>1, CountAssumption DEF MigrateInv, EarlierRecorded, RecordedIffApplied, Versions
  <2>4. Promise!Open(i)
    BY <2>1, <2>2, <2>3 DEF Promise!Open, Ready
  <2> QED
    BY <2>4 DEF Promise!Next
<1>2. CASE Commit(i)
  <2>1. at[i] \in Versions /\ at[i] \notin recorded /\ 1..(at[i] - 1) \subseteq recorded
    BY <1>2, CommitterInv DEF Commit
  <2>2. Committed(at[i]) /\ phase' = [phase EXCEPT ![i] = "check"] /\ phase[i] = "commit"
    BY <1>2 DEF Commit, Advance, Version
  <2>3. Ready' = Ready
    BY <1>0, <2>2 DEF Ready
  <2>4. Promise!Apply(at[i])
    BY <2>1, <2>2, <2>3, CommitApplies
  <2> QED
    BY <2>1, <2>4 DEF Promise!Next, Versions
<1>3. ASSUME NEW p \in {"down"} \cup Working, phase[i] # "started",
             phase' = [phase EXCEPT ![i] = p], UNCHANGED applied
      PROVE  UNCHANGED <<applied, Ready>>
  BY <1>0, <1>3 DEF Ready, Working, InTransaction
<1>4. CASE Boot(i) \/ Create(i) \/ FinishCreate(i) \/ Check(i) \/ Statement(i) \/ Record(i)
  <2>1. /\ phase[i] # "started" /\ UNCHANGED applied
        /\ \E p \in {"down"} \cup Working : phase' = [phase EXCEPT ![i] = p]
    BY <1>4 DEF Boot, Create, FinishCreate, Check, Statement, Record, Goto, Fails,
                Advance, Working, InTransaction
  <2> QED
    BY <2>1, <1>3
<1> QED
  BY <1>1, <1>2, <1>4 DEF Proceed

LEMMA FaultImplements ==
  ASSUME MigrateInv, NEW i \in Instances, Fault(i)
  PROVE  Promise!Next \/ UNCHANGED <<applied, Ready>>
<1>0. /\ phase \in [Instances -> {"down", "started"} \cup Working]
      /\ phase' = [phase EXCEPT ![i] = "down"]
  BY DEF MigrateInv, TypeOK, Fault
<1>1. Ready' = Ready \ {i}
  BY <1>0 DEF Ready
<1>2. CASE UNCHANGED applied
  BY <1>1, <1>2 DEF Promise!Next, Promise!Close, Ready
<1>3. CASE phase[i] = "commit" /\ Committed(at[i])
  <2>1. at[i] \in Versions /\ at[i] \notin recorded /\ 1..(at[i] - 1) \subseteq recorded
    BY <1>3, CommitterInv
  <2>2. Ready' = Ready
    BY <1>1, <1>3 DEF Ready
  <2>3. Promise!Apply(at[i])
    BY <1>3, <2>1, <2>2, CommitApplies
  <2> QED
    BY <2>1, <2>3 DEF Promise!Next, Versions
<1> QED
  BY <1>2, <1>3 DEF Fault, Version

LEMMA EndOrphanImplements ==
  ASSUME MigrateInv, NEW o \in Versions \X InTransaction, EndOrphan(o)
  PROVE  Promise!Next \/ UNCHANGED <<applied, Ready>>
<1>1. Ready' = Ready
  BY DEF EndOrphan, Ready
<1>2. CASE UNCHANGED applied
  BY <1>1, <1>2
<1>3. CASE o[2] = "commit" /\ Committed(o[1])
  <2>0. o = <<o[1], o[2]>> /\ o[1] \in Versions
    OBVIOUS
  <2>1. o[1] \notin recorded /\ 1..(o[1] - 1) \subseteq recorded
    BY <2>0, <1>3 DEF EndOrphan, MigrateInv, EarlierRecorded, SoleCommitter
  <2>2. Promise!Apply(o[1])
    BY <2>0, <2>1, <1>1, <1>3, CommitApplies
  <2> QED
    BY <2>0, <2>2 DEF Promise!Next, Versions
<1> QED
  BY <1>2, <1>3 DEF EndOrphan

(* Migrate implements Schema: each step is one of its steps or none.        *)
THEOREM MigrateImplementsSchema == Spec => KeepsPromise
<1>1. Init => Promise!Init
  BY DEF Init, Promise!Init, Versions
<1>2. MigrateInv /\ [Next]_vars => [Promise!Next]_<<applied, Ready>>
  <2> SUFFICES ASSUME MigrateInv, [Next]_vars
               PROVE  Promise!Next \/ UNCHANGED <<applied, Ready>>
    OBVIOUS
  <2>1. CASE UNCHANGED vars
    BY <2>1 DEF vars, Ready
  <2> QED
    BY <2>1, ProceedImplements, FaultImplements, EndOrphanImplements DEF Next
<1> QED
  BY <1>1, <1>2, MigrateInvariant, PTL DEF Spec, KeepsPromise, Promise!Spec, Ready
===============================================================================
