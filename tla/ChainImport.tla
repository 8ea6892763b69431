----------------------------- MODULE ChainImport -----------------------------
(***************************************************************************)
(* What restore promises, whatever droplets there are, however they are    *)
(* decoded, and however often it is called and dies.                       *)
(*                                                                         *)
(* The output chain is a set of block numbers.  A command sets itself the  *)
(* goal to reach the end of the epochs that it finds.  It hands out one    *)
(* block at a time, always the first that is missing, and none beyond its  *)
(* goal.  It reports success only if it is at its goal.  Only the end of   *)
(* the process takes blocks away, and then from the end.                   *)
(*                                                                         *)
(* A command may be led astray: then it hands out blocks from anywhere.    *)
(* The next command is on the right way again, and fills the gaps.         *)
(***************************************************************************)
EXTENDS Integers

CONSTANTS Blocks,   \* the numbers of all blocks there are
          PerEpoch  \* blocks of an epoch

VARIABLES available, \* epochs there are
          chain,     \* the blocks handed out and kept
          goal,      \* blocks the running command has to reach, 0 between commands
          stray,     \* when a command went astray: "never", "before" or "now"
          status     \* how the last command ended, or "running"

vars == <<available, chain, goal, stray, status>>

Init == available = 0 /\ chain = {} /\ goal = 0 /\ stray = "never" /\ status = "none"

Appear == /\ available' = available + 1
          /\ UNCHANGED <<chain, goal, stray, status>>

Refuse == /\ status # "running" /\ available = 0
          /\ status' = "noEpochs"
          /\ UNCHANGED <<available, chain, goal, stray>>

Begin == /\ status # "running" /\ available > 0
         /\ status' = "running"
         /\ goal' = available * PerEpoch
         /\ UNCHANGED <<available, chain, stray>>

GoAstray == /\ status = "running"
            /\ stray' = "now"
            /\ UNCHANGED <<available, chain, goal, status>>

IsNext(n) == n \in 0..(goal - 1) /\ 0..(n - 1) \subseteq chain

Extend == /\ status = "running"
          /\ \E n \in Blocks \ chain : /\ stray = "now" \/ IsNext(n)
                                       /\ chain' = chain \cup {n}
          /\ UNCHANGED <<available, goal, stray, status>>

End(how) == /\ status = "running"
            /\ status' = how
            /\ goal' = 0
            /\ stray' = IF stray = "now" THEN "before" ELSE stray
            /\ UNCHANGED available

Succeed == /\ stray = "now" \/ 0..(goal - 1) \subseteq chain
           /\ End("restored")
           /\ UNCHANGED chain

GiveUp == /\ \E how \in {"needMore", "failed", "rejected"} : End(how)
          /\ UNCHANGED chain

\* Once there may be gaps, the blocks handed out last need not be the highest.
Kept == IF stray = "never" THEN {{}} \cup {0..last : last \in chain} ELSE SUBSET chain

Interrupt == /\ \E how \in {"interrupted", "died"} : End(how)
             /\ chain' \in Kept

Next == Appear \/ Refuse \/ Begin \/ GoAstray \/ Extend \/ Succeed \/ GiveUp \/ Interrupt

Spec == Init /\ [][Next]_vars
==============================================================================
