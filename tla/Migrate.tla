------------------------------- MODULE Migrate -------------------------------
(***************************************************************************)
(* database.Migrate as instances of the service run it when they start,    *)
(* possibly together and from different releases, over one PostgreSQL: one *)
(* action per statement that they send.  The embedded migrations are       *)
(* numbered in the order of their file names.                              *)
(*                                                                         *)
(* An instance is "down", or at the next statement it sends, or "started": *)
(* Migrate has returned nil.  An error of any statement makes bootstrap.New*)
(* fail and main panic; the supervisor starts the instance again.          *)
(***************************************************************************)
EXTENDS Naturals

CONSTANTS Instances,
          Count,        \* how many migrations there are in all
          Embedded,     \* how many of them the binary of an instance embeds
          Locking,      \* those whose statement waits for a transaction that
                        \* runs it too, as CREATE TABLE does
          MaxFaults     \* bound: failing calls, lost replies, deaths, stops

ASSUME CountAssumption == Count \in Nat
ASSUME EmbeddedAssumption == Embedded \in [Instances -> 0..Count]
ASSUME LockingAssumption == Locking \subseteq 1..Count
ASSUME FaultsAssumption == MaxFaults \in Nat

VARIABLES table,        \* schema_migrations exists
          recorded,     \* its rows
          applied,      \* how often the effects of a migration were committed
          orphans,      \* transactions PostgreSQL has not missed the client of
          phase, at,    \* of each instance, and the migration it is at
          faults

vars == <<table, recorded, applied, orphans, phase, at, faults>>

Versions == 1..Count
InTransaction == {"record", "commit"}
Working == {"create", "creating", "check", "statement"} \cup InTransaction

Init == /\ table = FALSE /\ recorded = {}
        /\ applied = [v \in Versions |-> 0]
        /\ orphans = {}
        /\ phase = [i \in Instances |-> "down"]
        /\ at = [i \in Instances |-> 1]
        /\ faults = 0

Goto(i, p) == phase' = [phase EXCEPT ![i] = p] /\ UNCHANGED <<at, faults>>

Advance(i) == /\ phase' = [phase EXCEPT ![i] = "check"]
              /\ at' = [at EXCEPT ![i] = @ + 1]
              /\ UNCHANGED faults

(* Migrate returns an error.  What its transaction did is rolled back.      *)
Fails(i) == /\ phase' = [phase EXCEPT ![i] = "down"]
            /\ at' = [at EXCEPT ![i] = 1]
            /\ UNCHANGED faults

(* The migration an instance is at: entries are sorted by name.             *)
Version(i) == at[i]

(* Another transaction has run a statement, or inserted a row, that this    *)
(* instance is about to, and has not ended.                                 *)
Holds(i, v, steps) ==
  \/ \E j \in Instances \ {i} : phase[j] \in steps /\ Version(j) = v
  \/ \E s \in steps : <<v, s>> \in orphans
-------------------------------------------------------------------------------
Boot(i) == /\ phase[i] = "down"
           /\ Goto(i, "create")
           /\ UNCHANGED <<table, recorded, applied, orphans>>

(* CREATE TABLE IF NOT EXISTS looks first and creates later: an instance    *)
(* that another overtakes in between gets an error.                         *)
Create(i) == /\ phase[i] = "create"
             /\ Goto(i, IF table THEN "check" ELSE "creating")
             /\ UNCHANGED <<table, recorded, applied, orphans>>

FinishCreate(i) == /\ phase[i] = "creating"
                   /\ IF table THEN Fails(i) ELSE Goto(i, "check")
                   /\ table' = TRUE
                   /\ UNCHANGED <<recorded, applied, orphans>>

FindsNothing(i) == FALSE        \* mutant: another table is asked

IsApplied(i) == Version(i) \in recorded

(* isApplied, and the BEGIN that follows if it says no.                     *)
Check(i) == /\ phase[i] = "check" /\ at[i] <= Embedded[i]
            /\ IF IsApplied(i) THEN Advance(i) ELSE Goto(i, "statement")
            /\ UNCHANGED <<table, recorded, applied, orphans>>

Return(i) == /\ phase[i] = "check" /\ at[i] > Embedded[i]
             /\ Goto(i, "started")
             /\ UNCHANGED <<table, recorded, applied, orphans>>

StatementOutside(i) ==          \* mutant: db.ExecContext for tx.ExecContext
  /\ phase[i] = "statement"
  /\ applied' = [applied EXCEPT ![Version(i)] = @ + 1]
  /\ Goto(i, "record")
  /\ UNCHANGED <<table, recorded, orphans>>

(* The migration's text.  It was written IF NOT EXISTS, and still fails for *)
(* an instance that had looked before another one committed.                *)
Statement(i) ==
  /\ phase[i] = "statement"
  /\ Version(i) \in Locking => ~Holds(i, Version(i), InTransaction)
  /\ \/ Goto(i, "record")
     \/ Version(i) \in Locking /\ applied[Version(i)] > 0 /\ Fails(i)
  /\ UNCHANGED <<table, recorded, applied, orphans>>

(* The INSERT waits for an uncommitted row of the same version and fails if *)
(* that is committed: version is the PRIMARY KEY.                           *)
Record(i) == /\ phase[i] = "record"
             /\ ~Holds(i, Version(i), {"commit"})
             /\ IF Version(i) \in recorded THEN Fails(i) ELSE Goto(i, "commit")
             /\ UNCHANGED <<table, recorded, applied, orphans>>

Committed(v) == /\ recorded' = recorded \cup {v}
                /\ applied' = [applied EXCEPT ![v] = @ + 1]

CommitUnchecked(i) ==           \* mutant: the error of Commit is ignored
  /\ phase[i] = "commit"
  /\ Advance(i)
  /\ UNCHANGED <<table, recorded, applied, orphans>>

Commit(i) == /\ phase[i] = "commit"
             /\ Committed(Version(i))
             /\ Advance(i)
             /\ UNCHANGED <<table, orphans>>
-------------------------------------------------------------------------------
(* A call fails, or loses its reply, or the instance dies or is stopped:    *)
(* its transaction is rolled back, or committed if it was at that, or left  *)
(* behind for PostgreSQL to end.                                            *)
Fault(i) ==
  /\ phase[i] # "down" /\ faults < MaxFaults
  /\ faults' = faults + 1
  /\ phase' = [phase EXCEPT ![i] = "down"]
  /\ at' = [at EXCEPT ![i] = 1]
  /\ table' \in IF phase[i] = "creating" THEN {table, TRUE} ELSE {table}
  /\ \/ UNCHANGED <<recorded, applied, orphans>>
     \/ /\ phase[i] = "commit" /\ Committed(Version(i))
        /\ UNCHANGED orphans
     \/ /\ phase[i] \in InTransaction
        /\ orphans' = orphans \cup {<<Version(i), phase[i]>>}
        /\ UNCHANGED <<recorded, applied>>

(* PostgreSQL notices that the client is gone, or finds the COMMIT it sent. *)
EndOrphan(o) == /\ o \in orphans
                /\ orphans' = orphans \ {o}
                /\ \/ UNCHANGED <<recorded, applied>>
                   \/ o[2] = "commit" /\ Committed(o[1])
                /\ UNCHANGED <<table, phase, at, faults>>

Proceed(i) == \/ Boot(i) \/ Create(i) \/ FinishCreate(i) \/ Check(i)
              \/ Return(i) \/ Statement(i) \/ Record(i) \/ Commit(i)

Next == \/ \E i \in Instances : Proceed(i) \/ Fault(i)
        \/ \E o \in Versions \X InTransaction : EndOrphan(o)

Spec == Init /\ [][Next]_vars

(* Calls return, a supervisor restarts what has died, and PostgreSQL ends   *)
(* the transactions of clients that are gone.  Faults need not happen.      *)
Fairness == /\ \A i \in Instances : WF_vars(Proceed(i))
            /\ \A o \in Versions \X InTransaction : WF_vars(EndOrphan(o))

FairSpec == Spec /\ Fairness
-------------------------------------------------------------------------------
TypeOK == /\ table \in BOOLEAN /\ recorded \subseteq Versions
          /\ applied \in [Versions -> 0..1]
          /\ orphans \subseteq Versions \X InTransaction
          /\ phase \in [Instances -> {"down", "started"} \cup Working]
          /\ at \in [Instances -> 1..(Count + 1)]
          /\ faults \in 0..MaxFaults

(* A migration takes effect and is recorded together, whoever races for it, *)
(* fails or dies: an instance that finds it not applied may run it.         *)
RecordedIffApplied ==
  \A v \in Versions : applied[v] = IF v \in recorded THEN 1 ELSE 0

(* No migration runs before all the earlier ones are committed, whichever   *)
(* release runs it: its statements may depend on their tables.              *)
RunsAfterEarlier ==
  /\ \A v \in recorded : 1..(v - 1) \subseteq recorded
  /\ \A i \in Instances : phase[i] \in InTransaction =>
                            1..(Version(i) - 1) \subseteq recorded

(* An instance that serves has every table its binary was written for.      *)
StartedIsMigrated ==
  \A i \in Instances : phase[i] = "started" =>
    \A v \in 1..Embedded[i] : applied[v] = 1

(* Nothing that racing instances do to one another keeps one from starting: *)
(* once faults stop, every instance is started for good.                    *)
AllStart == <>[](\A i \in Instances : phase[i] = "started")

Promise == INSTANCE Schema WITH
             runs <- applied, ready <- {i \in Instances : phase[i] = "started"}

(* The migrations are the abstract ones: each takes effect once, in order,  *)
(* and no instance opens before those that it embeds.                       *)
KeepsPromise == Promise!Spec
===============================================================================
