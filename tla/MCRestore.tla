------------------------------ MODULE MCRestore ------------------------------
(* Instances of Restore for TLC. *)
EXTENDS Restore

CONSTANTS badBody, elsewhere, huge

Made(S) == [neighbors |-> S, payload |-> S, readable |-> TRUE]
Holds(S, t) == [neighbors |-> S, payload |-> {t}, readable |-> TRUE]
TornFile == [neighbors |-> {0}, payload |-> {0}, readable |-> FALSE]

None == {}
OneBadBody == {badBody}
OneHuge == {huge}
BadAndElsewhere == {badBody, elsewhere}

\* badBody has the headers of superblock 1 of epoch 0; elsewhere are the last
\* blocks of the last epoch.
PlaceOfBadAndElsewhere ==
  [t \in BadAndElsewhere |->
     IF t = badBody THEN BlocksPerSuperBlock
                    ELSE (MaxEpochs * SuperBlocksPerEpoch - 1) * BlocksPerSuperBlock]
NoPlace == [t \in {} |-> 0]

\* Superblock 1 can only be decoded after superblock 0.
AllKinds == {Made({0}), Made({0, 1}), Holds({1}, badBody), Holds({1}, elsewhere),
             Holds({0}, huge), TornFile}
HonestAndTorn == {Made({0}), Made({0, 1}), TornFile}
==============================================================================
