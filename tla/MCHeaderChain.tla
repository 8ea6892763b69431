--------------------------- MODULE MCHeaderChain ---------------------------
(* Instances of HeaderChain for TLC. *)
EXTENDS HeaderChain

\* A header is its height on a branch: every branch but the main one leaves
\* another after the height given, so that two or three of them compete.
Branch(name, first, last) == {<<name, h>> : h \in first..last}
Tree == Branch("main", 0, 4) \cup Branch("side", 4, 6) \cup Branch("late", 5, 7)
        \cup Branch("deep", 3, 6)
Root == <<"main", 0>>
TreeParent == [h \in Tree \ {Root} |->
                 CASE h = <<"side", 4>> -> <<"main", 3>>
                   [] h = <<"late", 5>> -> <<"side", 4>>
                   [] h = <<"deep", 3>> -> <<"main", 2>>
                   [] OTHER -> <<h[1], h[2] - 1>>]
==============================================================================
