----------------------------- MODULE SyncRestore -----------------------------
(***************************************************************************)
(* Sync with the nightly backup and the documented restore: backup.js takes*)
(* VACUUM INTO of the whole database, RUNBOOK.md copies the file back over *)
(* the live one.  The snapshot holds the journal, its seq counter, the     *)
(* cursors and the journal's identity along with the trading data.         *)
(*                                                                         *)
(* A restored box keeps the identity of its journal and counts on from the *)
(* snapshot: what it writes then bears numbers that the cloud has gone     *)
(* past, if anything was pushed since, and is skipped.  Every row is then  *)
(* taken for unsynced.  When nothing was journalled since, all goes on.    *)
(***************************************************************************)
EXTENDS Sync

CONSTANT MaxRestores   \* bound: restores in a behaviour, which has no other faults

ASSUME RestoresAssumption == MaxRestores \in Nat

VARIABLES backup,    \* the last snapshot of the box's database
          restores   \* how often it was copied back

varsR == <<vars, backup, restores>>

\* Everything fufut.sqlite holds.
Disk == [db |-> db["local"], journal |-> journal["local"],
         recon |-> recon["local"], applied |-> applied["local"],
         pruned |-> pruned, epoch |-> epoch, outCur |-> outCur, inCur |-> inCur]

Faultless == \A f \in FaultKinds : faults[f] = 0

InitR == Init /\ backup = Disk /\ restores = 0

TakeBackup == /\ Faultless /\ restores < MaxRestores
              /\ backup' = Disk
              /\ UNCHANGED <<vars, restores>>

\* The server is stopped, so no capture is under way and no request waited for.
Restore ==
  /\ Faultless /\ restores < MaxRestores
  /\ restores' = restores + 1
  /\ pending["local"] = {}
  /\ db' = [db EXCEPT !["local"] = backup.db]
  /\ journal' = [journal EXCEPT !["local"] = backup.journal]
  /\ recon' = [recon EXCEPT !["local"] = backup.recon]
  /\ applied' = [applied EXCEPT !["local"] = backup.applied]
  /\ pruned' = backup.pruned /\ epoch' = backup.epoch
  /\ outCur' = backup.outCur /\ inCur' = backup.inCur
  /\ daemon' = Idle
  /\ push' = Abandoned
  /\ unsynced' = IF journal["local"] = backup.journal THEN unsynced ELSE Rows
  /\ UNCHANGED <<pending, cloudIn, faults, hist, backup>>

NextR == \/ Next /\ (restores = 0 \/ faults' = faults) /\ UNCHANGED <<backup, restores>>
         \/ TakeBackup
         \/ Restore

SpecR == InitR /\ [][NextR]_varsR

=============================================================================
