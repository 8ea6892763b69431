---------------------------- MODULE MCDropletNode ----------------------------
(* Instances of DropletNode for TLC. *)
EXTENDS DropletNode

\* Two chains: blocks that share a superblock, and blocks that need one each.
SomeChains == {[h \in 0..(MaxHeight + 1) |-> size * h] : size \in {1, 2}}

Anywhere == {"begin", "scan", "open", "create", "write", "truncateCount", "writeCount",
             "truncateBlock", "writeBlock", "removeCount", "removeBlock"}
==============================================================================
