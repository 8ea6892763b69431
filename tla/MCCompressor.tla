---------------------------- MODULE MCCompressor ----------------------------
(* Instances of Compressor for TLC. *)
EXTENDS CompressorInvariants

CONSTANT BlockSizes

\* Every chain whose blocks have these sizes, as the offsets of the blocks.
Offsets(sizes) ==
  LET offset[h \in 0..(MaxHeight + 1)] == IF h = 0 THEN 0 ELSE offset[h - 1] + sizes[h - 1]
  IN  offset
AllChains == {Offsets(sizes) : sizes \in [Heights -> BlockSizes]}

\* Two chains: blocks that share a superblock, and blocks that need one each.
SomeChains == {Offsets([h \in Heights |-> 1]), Offsets([h \in Heights |-> 2])}

Nowhere == {}
Anywhere == {"begin", "scan", "open", "create", "write", "truncateCount", "writeCount",
             "truncateBlock", "writeBlock", "removeCount", "removeBlock"}
WhileScanning == {"scan"}

WhileWritingCount == {"writeCount"}
==============================================================================
