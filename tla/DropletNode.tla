----------------------------- MODULE DropletNode -----------------------------
(***************************************************************************)
(* The commands of a droplet node (src/main.rs) on one droplets directory: *)
(* generate and generate-all of Compressor, and purge-droplets, which      *)
(* removes the epochs that it counts but not the progress files.           *)
(***************************************************************************)
EXTENDS Compressor

CONSTANT MaxPurges \* bound on the purges

ASSUME PurgesAssumption == MaxPurges \in Nat

VARIABLES purging,     \* the step purge-droplets is at, "no" before the first, "done" after it
          purgeCount,  \* epochs it counted
          purgeEpoch,  \* the epoch to remove next
          purges

purgeVars == <<purging, purgeCount, purgeEpoch, purges>>
nodeVars == <<vars, purgeVars>>
------------------------------------------------------------------------------
NodeInit == /\ Init
            /\ purging = "no" /\ purgeCount = 0 /\ purgeEpoch = 0
            /\ purges = 0

Purging == purging \in {"open", "remove"}

\* The commands of Compressor: one command at a time works on the directory.
OtherCommand == /\ ~Purging /\ Next
                /\ purging' = IF commands' = commands THEN purging ELSE "no"
                /\ UNCHANGED <<purgeCount, purgeEpoch, purges>>

StartPurge == /\ pc = "idle" /\ ~Purging /\ purges < MaxPurges
              /\ purging' = "open"
              /\ purgeCount' = EpochCount(store) /\ purgeEpoch' = 0
              /\ purges' = purges + 1
              /\ outcome' = "none"
              /\ UNCHANGED <<chainVars, files, pc, progress, encoder, command, rounds, resumed,
                             bounds>>

\* Mutant of MoreToPurge: the epochs are counted again.
MoreToPurgeRecounted == purgeEpoch < EpochCount(store)
MoreToPurge == purgeEpoch < purgeCount

OpenPurged == /\ purging = "open" /\ MoreToPurge
              /\ purging' = "remove"
              /\ store' = OpenDir(store, purgeEpoch)
              /\ UNCHANGED <<chainVars, epochsCountFile, lastBlockFile, pc, progress, encoder,
                             control, bounds, purgeCount, purgeEpoch, purges>>

RemovePurged == /\ purging = "remove"
                /\ purging' = "open"
                /\ store' = [e \in DOMAIN store \ {purgeEpoch} |-> store[e]]
                /\ purgeEpoch' = purgeEpoch + 1
                /\ UNCHANGED <<chainVars, epochsCountFile, lastBlockFile, pc, progress, encoder,
                               control, bounds, purgeCount, purges>>

PurgeDone == /\ purging = "open" /\ ~MoreToPurge
             /\ purging' = "done"
             /\ UNCHANGED <<vars, purgeCount, purgeEpoch, purges>>

NodeNext == OtherCommand \/ StartPurge \/ OpenPurged \/ RemovePurged \/ PurgeDone

NodeSpec == NodeInit /\ [][NodeNext]_nodeVars
------------------------------------------------------------------------------
\* A purge leaves no epoch behind, also when runs died and were resumed before
\* it (cli.rs:73): the epochs that it counts are those it visits.
PurgeRemovesAll == purging = "done" => DOMAIN store = {}

\* A run only starts in the middle of the chain when the droplets of every
\* block up to there are stored, although a purge leaves the progress files of
\* a run that died before it (main.rs:115-127).
ResumesCovered ==
  [][pc = "begin" /\ pc' = "scan" /\ height' > 0 => RecordedBlocksStored]_nodeVars
==============================================================================
