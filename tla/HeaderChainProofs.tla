-------------------------- MODULE HeaderChainProofs --------------------------
(***************************************************************************)
(* Proofs about HeaderChain, for every tree of headers.                    *)
(***************************************************************************)
EXTENDS HeaderChain, SequenceTheorems, WellFoundedInduction, TLAPS
------------------------------------------------------------------------------
(* Induction, along the tree and over the numbers. *)

LEMMA HeaderInduction ==
  ASSUME NEW S \in SUBSET Headers, Genesis \in S,
         \A h \in Headers \ {Genesis} : Parent[h] \in S => h \in S
  PROVE  S = Headers
BY TreeAssumption

LEMMA LeastNumber ==
  ASSUME NEW T \in SUBSET Nat, T # {}
  PROVE  \E m \in T : \A n \in T : m <= n
<1>1. PICK m \in T : \A n \in T : ~(<<n, m>> \in OpToRel(<, Nat))
  BY NatLessThanWellFounded, WFMin, Zenon
<1>2. \A n \in T : ~(n < m)
  BY <1>1 DEF OpToRel
<1> QED BY <1>2

LEMMA ParentType == \A h \in Headers \ {Genesis} : Parent[h] \in Headers
BY HeadersAssumption
------------------------------------------------------------------------------
(* Every header has exactly one path from the genesis to it, and Chain and *)
(* Height, which are defined by recursion, are that path and its length.   *)

IsPath(s, h) == /\ s \in Seq(Headers) /\ Len(s) >= 1
                /\ s[1] = Genesis /\ s[Len(s)] = h
                /\ \A i \in 2..Len(s) : s[i] # Genesis /\ Parent[s[i]] = s[i - 1]

LEMMA GenesisPath == IsPath(<<Genesis>>, Genesis)
<1>1. <<Genesis>> \in Seq(Headers) /\ Len(<<Genesis>>) = 1 /\ <<Genesis>>[1] = Genesis
  BY HeadersAssumption
<1> QED BY <1>1 DEF IsPath

LEMMA LongerPath ==
  ASSUME NEW h \in Headers \ {Genesis}, NEW s, IsPath(s, Parent[h])
  PROVE  IsPath(Append(s, h), h)
<1> DEFINE t == Append(s, h)
<1>1. s \in Seq(Headers) /\ Len(s) \in Nat /\ Len(s) >= 1
  BY LenProperties DEF IsPath
<1>2. /\ t \in Seq(Headers) /\ Len(t) = Len(s) + 1 /\ t[Len(s) + 1] = h
      /\ \A i \in 1..Len(s) : t[i] = s[i]
  BY <1>1, AppendProperties
<1>3. ASSUME NEW i \in 2..Len(t) PROVE t[i] # Genesis /\ Parent[t[i]] = t[i - 1]
  <2>1. CASE i = Len(s) + 1
    BY <1>1, <1>2, <2>1 DEF IsPath
  <2>2. CASE i # Len(s) + 1
    <3>1. i \in 2..Len(s) /\ i - 1 \in 1..Len(s) /\ i \in 1..Len(s)
      BY <1>1, <1>2, <2>2
    <3> QED BY <1>2, <3>1 DEF IsPath
  <2> QED BY <2>1, <2>2
<1> QED BY <1>1, <1>2, <1>3 DEF IsPath

\* The path to a header other than the genesis goes over its parent.
LEMMA ShorterPath ==
  ASSUME NEW h \in Headers \ {Genesis}, NEW t, IsPath(t, h)
  PROVE  \E s : IsPath(s, Parent[h]) /\ t = Append(s, h)
<1>1. t \in Seq(Headers) /\ Len(t) \in Nat /\ Len(t) >= 2
  BY LenProperties DEF IsPath
<1>2. PICK s \in Seq(Headers), e \in Headers : t = Append(s, e)
  BY <1>1, SequenceEmptyOrAppend, EmptySeq
<1>3. /\ Len(s) \in Nat /\ Len(t) = Len(s) + 1 /\ t[Len(t)] = e
      /\ \A i \in 1..Len(s) : t[i] = s[i]
  BY <1>2, AppendProperties, LenProperties
<1>4. e = h /\ Len(s) >= 1
  BY <1>1, <1>3 DEF IsPath
<1>5. s[1] = Genesis /\ s[Len(s)] = t[Len(t) - 1]
  BY <1>3, <1>4 DEF IsPath
<1>6. Parent[t[Len(t)]] = t[Len(t) - 1]
  BY <1>1 DEF IsPath
<1>7. \A i \in 2..Len(s) : i \in 2..Len(t) /\ i \in 1..Len(s) /\ i - 1 \in 1..Len(s)
  BY <1>3
<1>8. \A i \in 2..Len(s) : s[i] # Genesis /\ Parent[s[i]] = s[i - 1]
  BY <1>3, <1>7 DEF IsPath
<1>9. IsPath(s, Parent[h])
  BY <1>3, <1>4, <1>5, <1>6, <1>8 DEF IsPath
<1> QED BY <1>2, <1>4, <1>9

LEMMA OnlyGenesisPath == ASSUME NEW s, IsPath(s, Genesis) PROVE s = <<Genesis>>
<1>1. s \in Seq(Headers) /\ Len(s) \in Nat
  BY LenProperties DEF IsPath
<1>2. Len(s) = 1
  <2>1. Len(s) >= 1 /\ Len(s) \notin 2..Len(s)
    BY DEF IsPath
  <2>2. \A k \in Nat : k >= 1 /\ k \notin 2..k => k = 1
    OBVIOUS
  <2> QED BY <1>1, <2>1, <2>2, Zenon
<1>3. <<Genesis>> \in Seq(Headers) /\ Len(<<Genesis>>) = 1 /\ <<Genesis>>[1] = Genesis
  BY HeadersAssumption
<1> QED BY <1>1, <1>2, <1>3, SeqEqual DEF IsPath

LEMMA PathExists == \A h \in Headers : \E s : IsPath(s, h)
<1> DEFINE S == {h \in Headers : \E s : IsPath(s, h)}
<1>1. Genesis \in S
  BY GenesisPath, HeadersAssumption
<1>2. \A h \in Headers \ {Genesis} : Parent[h] \in S => h \in S
  BY LongerPath
<1>3. S = Headers
  BY <1>1, <1>2, HeaderInduction
<1> QED BY <1>3

LEMMA PathUnique == \A h \in Headers : \A s, t : IsPath(s, h) /\ IsPath(t, h) => s = t
<1> DEFINE S == {h \in Headers : \A s, t : IsPath(s, h) /\ IsPath(t, h) => s = t}
<1>1. Genesis \in S
  BY OnlyGenesisPath, HeadersAssumption
<1>2. ASSUME NEW h \in Headers \ {Genesis}, Parent[h] \in S PROVE h \in S
  <2> SUFFICES ASSUME NEW s, NEW t, IsPath(s, h), IsPath(t, h) PROVE s = t
    OBVIOUS
  <2>1. PICK s1 : IsPath(s1, Parent[h]) /\ s = Append(s1, h)
    BY ShorterPath
  <2>2. PICK t1 : IsPath(t1, Parent[h]) /\ t = Append(t1, h)
    BY ShorterPath
  <2> QED BY <1>2, <2>1, <2>2
<1>3. S = Headers
  BY <1>1, <1>2, HeaderInduction
<1> QED BY <1>3

\* The equation that Chain is defined by has a solution.
LEMMA ChainEquation ==
  Chain = [h \in Headers |-> IF h = Genesis THEN <<h>> ELSE Append(Chain[Parent[h]], h)]
<1> DEFINE F(g) == [h \in Headers |-> IF h = Genesis THEN <<h>> ELSE Append(g[Parent[h]], h)]
           P == [h \in Headers |-> CHOOSE s : IsPath(s, h)]
<1>1. \A h \in Headers : IsPath(P[h], h)
  BY PathExists
<1>2. ASSUME NEW h \in Headers PROVE P[h] = F(P)[h]
  <2>1. CASE h = Genesis
    BY <1>1, <2>1, OnlyGenesisPath
  <2>2. CASE h # Genesis
    <3>1. IsPath(Append(P[Parent[h]], h), h)
      BY <1>1, <2>2, ParentType, LongerPath
    <3>2. P[h] = Append(P[Parent[h]], h)
      BY <1>1, <3>1, PathUnique
    <3> HIDE DEF P
    <3> QED BY <2>2, <3>2
  <2> QED BY <2>1, <2>2
<1>3. P = F(P)
  BY <1>2
<1> HIDE DEF P
<1>4. \E g : g = F(g)
  BY <1>3
<1> QED BY <1>4 DEF Chain

LEMMA ChainIsPath == \A h \in Headers : IsPath(Chain[h], h)
<1> DEFINE S == {h \in Headers : IsPath(Chain[h], h)}
<1>1. Genesis \in S
  BY GenesisPath, ChainEquation, HeadersAssumption
<1>2. ASSUME NEW h \in Headers \ {Genesis}, Parent[h] \in S PROVE h \in S
  <2>1. Chain[h] = Append(Chain[Parent[h]], h)
    BY ChainEquation
  <2> QED BY <1>2, <2>1, LongerPath
<1>3. S = Headers
  BY <1>1, <1>2, HeaderInduction
<1> QED BY <1>3

LEMMA ChainOfGenesis == Chain[Genesis] = <<Genesis>>
BY ChainEquation, HeadersAssumption

LEMMA ChainOfChild ==
  ASSUME NEW h \in Headers \ {Genesis} PROVE Chain[h] = Append(Chain[Parent[h]], h)
BY ChainEquation

LEMMA ChainType ==
  ASSUME NEW h \in Headers
  PROVE  /\ Chain[h] \in Seq(Headers) /\ Len(Chain[h]) \in Nat \ {0}
         /\ DOMAIN Chain[h] = 1..Len(Chain[h])
         /\ \A i \in 1..Len(Chain[h]) : Chain[h][i] \in Headers
BY ChainIsPath, LenProperties, ElementOfSeq DEF IsPath

\* Height counts the headers below.
LEMMA HeightEquation ==
  Height = [h \in Headers |-> IF h = Genesis THEN 0 ELSE Height[Parent[h]] + 1]
<1> DEFINE F(g) == [h \in Headers |-> IF h = Genesis THEN 0 ELSE g[Parent[h]] + 1]
           P == [h \in Headers |-> Len(Chain[h]) - 1]
<1>1. ASSUME NEW h \in Headers PROVE P[h] = F(P)[h]
  <2>1. CASE h = Genesis
    BY <2>1, ChainOfGenesis
  <2>2. CASE h # Genesis
    <3>1. Len(Chain[h]) = Len(Chain[Parent[h]]) + 1 /\ Len(Chain[Parent[h]]) \in Nat
      BY <2>2, ChainOfChild, ChainType, ParentType, AppendProperties
    <3> QED BY <2>2, <3>1, ParentType
  <2> QED BY <2>1, <2>2
<1>2. P = F(P)
  BY <1>1
<1> HIDE DEF P
<1>3. \E g : g = F(g)
  BY <1>2
<1> QED BY <1>3 DEF Height

LEMMA HeightIsLength == \A h \in Headers : Height[h] = Len(Chain[h]) - 1 /\ Height[h] \in Nat
<1> DEFINE S == {h \in Headers : Height[h] = Len(Chain[h]) - 1}
<1>1. Genesis \in S
  BY HeightEquation, ChainOfGenesis, HeadersAssumption
<1>2. ASSUME NEW h \in Headers \ {Genesis}, Parent[h] \in S PROVE h \in S
  <2>1. Height[h] = Height[Parent[h]] + 1
    BY HeightEquation
  <2>2. Len(Chain[h]) = Len(Chain[Parent[h]]) + 1 /\ Len(Chain[Parent[h]]) \in Nat
    BY ChainOfChild, ChainType, ParentType, AppendProperties
  <2> QED BY <1>2, <2>1, <2>2
<1>3. S = Headers
  BY <1>1, <1>2, HeaderInduction
<1>4. \A h \in Headers : Height[h] = Len(Chain[h]) - 1
  BY <1>3
<1> QED BY <1>4, ChainType

LEMMA OnParent ==
  ASSUME NEW h \in Headers \ {Genesis} PROVE On(h) = On(Parent[h]) \cup {h}
<1> DEFINE c == Chain[Parent[h]]
<1>1. c \in Seq(Headers) /\ DOMAIN c = 1..Len(c) /\ Len(c) \in Nat
  BY ChainType, ParentType
<1>2. /\ Chain[h] = Append(c, h)
      /\ \A i \in 1..Len(c) : Chain[h][i] = c[i]
      /\ Chain[h][Len(c) + 1] = h
      /\ DOMAIN Chain[h] = 1..(Len(c) + 1)
  BY <1>1, ChainOfChild, AppendProperties, ChainType
<1> HIDE DEF c
<1>3. On(h) \subseteq {c[i] : i \in DOMAIN c} \cup {h}
  BY <1>1, <1>2 DEF On
<1>4. {c[i] : i \in DOMAIN c} \cup {h} \subseteq On(h)
  BY <1>1, <1>2 DEF On
<1> QED BY <1>3, <1>4 DEF On, c

LEMMA OnGenesis == On(Genesis) = {Genesis}
BY ChainOfGenesis DEF On

\* No header of a branch is higher than its tip.
LEMMA OnIsLower == \A h \in Headers : \A g \in On(h) : g \in Headers /\ Height[g] <= Height[h]
<1> DEFINE S == {h \in Headers : \A g \in On(h) : g \in Headers /\ Height[g] <= Height[h]}
<1>1. Genesis \in S
  BY OnGenesis, HeadersAssumption, HeightIsLength
<1>2. ASSUME NEW h \in Headers \ {Genesis}, Parent[h] \in S PROVE h \in S
  <2>1. Height[h] = Height[Parent[h]] + 1
    BY HeightEquation
  <2>2. ASSUME NEW g \in On(h) PROVE g \in Headers /\ Height[g] <= Height[h]
    <3>1. g = h \/ (g \in Headers /\ Height[g] <= Height[Parent[h]])
      BY <1>2, OnParent
    <3> QED BY <2>1, <3>1, HeightIsLength, ParentType
  <2> QED BY <2>2
<1>3. S = Headers
  BY <1>1, <1>2, HeaderInduction
<1> QED BY <1>3

\* A header of a closed set has its whole branch in it.
LEMMA BranchInClosed ==
  ASSUME NEW K \in SUBSET Headers, Closed(K)
  PROVE  \A h \in K : On(h) \subseteq K
<1> DEFINE S == {h \in Headers : h \in K => On(h) \subseteq K}
<1>1. Genesis \in S
  BY OnGenesis, HeadersAssumption
<1>2. ASSUME NEW h \in Headers \ {Genesis}, Parent[h] \in S PROVE h \in S
  BY <1>2, OnParent DEF Closed
<1>3. S = Headers
  BY <1>1, <1>2, HeaderInduction
<1> QED BY <1>3
------------------------------------------------------------------------------
(* Type correctness. *)

\* What the headers known have to do with the source's chain: none is higher
\* than its tip, and a command that is past the tip knows it, by one entry at most.
ChainInv == /\ \A h \in known : Height[h] <= Height[active]
            /\ pc = "loop" => next <= Height[active] \/ active \in known
            /\ pc = "loop" => outcome = "running"
            /\ pc = "loop" => next <= Height[active] + 1

Inv == TypeOK /\ ChainInv

LEMMA EntryType ==
  ASSUME TypeOK, next <= Height[active]
  PROVE  /\ Entry \in Headers /\ Height[Entry] <= Height[active]
         /\ next = Height[active] => Entry = active
<1>1. next + 1 \in 1..Len(Chain[active]) /\ Height[active] + 1 = Len(Chain[active])
  BY HeightIsLength, ChainType DEF TypeOK
<1>2. Entry \in On(active) /\ Entry \in Headers
  BY <1>1, ChainType DEF Entry, On, TypeOK
<1>3. next = Height[active] => Entry = active
  BY <1>1, ChainIsPath DEF Entry, IsPath, TypeOK
<1> QED BY <1>2, <1>3, OnIsLower DEF TypeOK

LEMMA InitInv == Init => Inv
BY HeaderBounds, HeadersAssumption, HeightEquation, HeightIsLength
   DEF Init, Inv, TypeOK, ChainInv, Closed, Best

LEMMA InvInvariant == Inv /\ [Next]_vars => Inv'
<1> SUFFICES ASSUME Inv, [Next]_vars PROVE Inv'
  OBVIOUS
<1> USE DEF Inv
<1>0. \A h \in Headers : Height[h] \in Nat
  BY HeightIsLength
<1>1. ASSUME NEW tip \in Headers, SourceAdvances(tip) PROVE Inv'
  <2>1. TypeOK'
    BY <1>1 DEF SourceAdvances, TypeOK
  <2>2. \A h \in known : Height[h] <= Height[tip]
    BY <1>0, <1>1 DEF SourceAdvances, ChainInv, TypeOK
  <2> QED BY <1>1, <2>1, <2>2 DEF SourceAdvances, ChainInv
<1>2. CASE Generate
  <2>1. Height[best] \in Nat /\ Height[best] <= Height[active]
    BY <1>0 DEF ChainInv, TypeOK, Best
  <2>2. Height[active] \in Nat /\ Height[best] <= Height[active] + 1
    BY <1>0, <2>1 DEF TypeOK
  <2> QED BY <1>2, <2>1, <2>2 DEF Generate, FirstEntry, TypeOK, ChainInv
<1>3. CASE ProcessHeader
  <2>1. /\ Entry \in Headers /\ Height[Entry] <= Height[active]
        /\ next = Height[active] => Entry = active
    BY <1>3, EntryType DEF ProcessHeader
  <2>2. known' = known \cup {Entry} /\ Closed(known') /\ known' \subseteq Headers
    BY <1>3, <2>1 DEF ProcessHeader, Connects, TypeOK, Closed
  <2>3. Best(best', known')
    <3>1. best' = IF Height[Entry] > Height[best] THEN Entry ELSE best
      BY <1>3 DEF ProcessHeader
    <3>2. best \in Headers /\ best \in known /\ \A h \in known : Height[h] <= Height[best]
      BY DEF TypeOK, Best
    <3>3. \A h \in known' : Height[h] <= Height[best']
      BY <1>0, <2>1, <2>2, <3>1, <3>2
    <3> QED BY <2>2, <3>1, <3>2, <3>3 DEF Best
  <2>4. TypeOK'
    BY <1>3, <2>2, <2>3 DEF ProcessHeader, TypeOK
  <2>5. next' <= Height[active] + 1 /\ (next' <= Height[active] \/ active \in known')
    BY <1>0, <1>3, <2>1, <2>2 DEF ProcessHeader, TypeOK
  <2> QED BY <1>3, <2>1, <2>2, <2>4, <2>5 DEF ProcessHeader, ChainInv
<1>4. CASE HeaderFails \/ Done
  BY <1>4 DEF HeaderFails, Done, End, TypeOK, ChainInv
<1>5. CASE Crash
  <2>1. PICK kept \in SUBSET known : /\ Closed(kept) /\ known' = kept /\ written' = kept
                                     /\ Best(best', kept)
    BY <1>5 DEF Crash
  <2>2. crashes' \in 0..MaxCrashes
    BY <1>5, HeaderBounds DEF Crash, TypeOK
  <2> QED BY <1>5, <2>1, <2>2 DEF Crash, TypeOK, ChainInv
<1>6. CASE UNCHANGED vars
  BY <1>6 DEF vars, TypeOK, ChainInv
<1> QED BY <1>1, <1>2, <1>3, <1>4, <1>5, <1>6 DEF Next, Step

LEMMA InvHolds == Spec => []Inv
BY InitInv, InvInvariant, PTL DEF Spec

\* The headers known, and those that are written, have their parents, and the
\* best one is never lower than another, whatever a crash loses.
THEOREM HeaderChainTypeCorrect == Spec => []TypeOK
BY InvHolds, PTL DEF Inv
------------------------------------------------------------------------------
(* Completeness. *)

\* A command that reports success leaves every header of the source's chain
\* behind, also those below the height that it started at.
THEOREM DoneMeansComplete == Spec => DoneIsComplete
<1> DEFINE Complete == pc = "loop" /\ outcome' = "done" => On(active) \subseteq known'
<1>1. Inv /\ [Next]_vars => [Complete]_vars
  <2> SUFFICES ASSUME Inv, Next, pc = "loop", outcome' = "done" PROVE On(active) \subseteq known'
    OBVIOUS
  <2>1. CASE Done
    <3>1. active \in known /\ known' = known
      BY <2>1, HeightIsLength DEF Done, End, Inv, ChainInv, TypeOK
    <3> QED BY <3>1, BranchInClosed DEF Inv, TypeOK
  <2>2. CASE ProcessHeader
    <3>1. outcome = "done"
      BY <2>2 DEF ProcessHeader
    <3> QED BY <3>1 DEF Inv, ChainInv
  <2>3. ~SourceAdvances(active) /\ ~HeaderFails /\ ~Crash /\ ~Generate
    BY DEF SourceAdvances, HeaderFails, End, Crash, Generate
  <2> QED BY <2>1, <2>2, <2>3 DEF Next, Step, SourceAdvances
<1> QED BY <1>1, InvHolds, PTL DEF Spec, DoneIsComplete
------------------------------------------------------------------------------
(* The check of decoded blocks. *)

\* The first j blocks are the end of the branch of the last of them.
EndOfBranch(blocks, j) ==
  /\ Len(Chain[blocks[j]]) >= j
  /\ \A i \in 1..j : blocks[i] = Chain[blocks[j]][Len(Chain[blocks[j]]) - j + i]

LEMMA LastOfChain ==
  ASSUME NEW h \in Headers
  PROVE  /\ Chain[h] \in Seq(Headers) /\ Len(Chain[h]) \in Nat \ {0}
         /\ Chain[h][Len(Chain[h])] = h
BY ChainType, ChainIsPath DEF IsPath

LEMMA OneBlockEnds ==
  ASSUME NEW n \in Nat \ {0}, NEW blocks \in [1..n -> Headers] PROVE EndOfBranch(blocks, 1)
<1>1. blocks[1] \in Headers
  OBVIOUS
<1>2. \A l \in Nat : l - 1 + 1 = l
  OBVIOUS
<1> QED BY <1>1, <1>2, LastOfChain DEF EndOfBranch

LEMMA NextBlockEnds ==
  ASSUME NEW n \in Nat, NEW blocks \in [1..n -> Headers], NEW m \in 2..n,
         EndOfBranch(blocks, m - 1),
         blocks[m] # Genesis, Parent[blocks[m]] = blocks[m - 1]
  PROVE  EndOfBranch(blocks, m)
<1> DEFINE c == Chain[blocks[m - 1]]
           d == Chain[blocks[m]]
           l == Len(c)
<1>1. m \in Nat /\ m - 1 \in 1..n /\ m \in 1..n /\ blocks[m] \in Headers /\ blocks[m - 1] \in Headers
  OBVIOUS
<1>2. c \in Seq(Headers) /\ l \in Nat /\ l >= m - 1
  BY <1>1, LastOfChain DEF EndOfBranch
<1>3. d = Append(c, blocks[m])
  BY <1>1, ChainOfChild
<1>4. Len(d) = l + 1 /\ d[l + 1] = blocks[m] /\ \A i \in 1..l : d[i] = c[i]
  BY <1>1, <1>2, <1>3, AppendProperties
<1>5. \A i \in 1..(m - 1) : blocks[i] = c[l - (m - 1) + i]
  BY DEF EndOfBranch
<1> HIDE DEF c, d, l
<1>6. ASSUME NEW i \in 1..m PROVE blocks[i] = d[Len(d) - m + i]
  <2>1. CASE i = m
    <3>1. Len(d) - m + i = l + 1
      BY <1>1, <1>2, <1>4, <2>1
    <3> QED BY <1>4, <2>1, <3>1
  <2>2. CASE i # m
    <3>1. i \in 1..(m - 1) /\ Len(d) - m + i = l - (m - 1) + i /\ l - (m - 1) + i \in 1..l
      BY <1>1, <1>2, <1>4, <2>2
    <3> QED BY <1>4, <1>5, <3>1
  <2> QED BY <2>1, <2>2
<1>7. Len(d) >= m
  BY <1>1, <1>2, <1>4
<1> QED BY <1>6, <1>7 DEF EndOfBranch, d

\* Blocks that the check accepts are the end of the branch of the last of them.
LEMMA AcceptedIsEndOfBranch ==
  ASSUME NEW n \in Nat \ {0}, NEW blocks \in [1..n -> Headers], ValidateBlocks(blocks)
  PROVE  EndOfBranch(blocks, n)
<1> DEFINE T == {j \in 1..n : ~EndOfBranch(blocks, j)}
<1>1. SUFFICES ASSUME T # {} PROVE FALSE
  BY <1>1
<1>2. PICK m \in T : \A k \in T : m <= k
  <2>1. T \in SUBSET Nat
    OBVIOUS
  <2> HIDE DEF T
  <2> QED BY <1>1, <2>1, LeastNumber
<1>3. m \in 2..n /\ m - 1 \in 1..n /\ ~EndOfBranch(blocks, m)
  BY <1>2, OneBlockEnds
<1>4. EndOfBranch(blocks, m - 1)
  BY <1>2, <1>3
<1>5. DOMAIN blocks = 1..n
  OBVIOUS
<1>6. blocks[m] # Genesis /\ Parent[blocks[m]] = blocks[m - 1]
  BY <1>3, <1>5 DEF ValidateBlocks
<1> QED BY <1>3, <1>4, <1>6, NextBlockEnds

LEMMA BlocksLength ==
  ASSUME NEW n \in Nat, NEW blocks \in [1..n -> Headers] PROVE Len(blocks) = n
BY SeqDef, LenProperties

\* Whatever the check accepts lies, in order and without a gap, on one branch of
\* the headers known, and all such pieces are accepted.
THEOREM AcceptsExactlyPieces == Spec => []ValidatesPieces
<1>1. TypeOK => ValidatesPieces
  <2> SUFFICES ASSUME TypeOK, NEW n \in 1..MaxBlocks, NEW blocks \in [1..n -> Headers]
               PROVE  ValidateBlocks(blocks) <=> \E tip \in known : Piece(blocks, Chain[tip])
    BY DEF ValidatesPieces, Runs
  <2>0. n \in Nat \ {0} /\ known \subseteq Headers /\ DOMAIN blocks = 1..n /\ Len(blocks) = n
    BY HeaderBounds, BlocksLength DEF TypeOK
  <2>1. ASSUME ValidateBlocks(blocks) PROVE \E tip \in known : Piece(blocks, Chain[tip])
    <3> DEFINE c == Chain[blocks[n]]
    <3>1. Len(c) >= n /\ \A i \in 1..n : blocks[i] = c[Len(c) - n + i]
      BY <2>0, <2>1, AcceptedIsEndOfBranch DEF EndOfBranch
    <3>2. blocks[n] \in known /\ Len(c) \in Nat
      BY <2>0, <2>1, ChainType DEF ValidateBlocks
    <3>3. Len(c) - n \in 0..(Len(c) - Len(blocks))
      BY <2>0, <3>1, <3>2
    <3> QED BY <2>0, <3>1, <3>2, <3>3 DEF Piece
  <2>2. ASSUME NEW tip \in known, Piece(blocks, Chain[tip]) PROVE ValidateBlocks(blocks)
    <3> DEFINE c == Chain[tip]
    <3>1. PICK from \in 0..(Len(c) - n) : \A i \in 1..n : blocks[i] = c[from + i]
      BY <2>0, <2>2 DEF Piece
    <3>2. Len(c) \in Nat /\ IsPath(c, tip) /\ DOMAIN c = 1..Len(c) /\ On(tip) \subseteq known
      BY <2>0, ChainType, ChainIsPath, BranchInClosed DEF TypeOK
    <3>3. ASSUME NEW i \in 1..n PROVE blocks[i] \in known
      <4>1. from + i \in 1..Len(c)
        BY <2>0, <3>1, <3>2
      <4> QED BY <3>1, <3>2, <4>1 DEF On
    <3>4. ASSUME NEW i \in 1..n, i > 1
          PROVE  blocks[i] # Genesis /\ Parent[blocks[i]] = blocks[i - 1]
      <4>1. from + i \in 2..Len(c) /\ i - 1 \in 1..n /\ from + (i - 1) = (from + i) - 1
        BY <2>0, <3>1, <3>2, <3>4
      <4>2. c[from + i] # Genesis /\ Parent[c[from + i]] = c[(from + i) - 1]
        BY <3>2, <4>1 DEF IsPath
      <4> QED BY <3>1, <4>1, <4>2
    <3> QED BY <2>0, <3>3, <3>4 DEF ValidateBlocks
  <2> QED BY <2>1, <2>2
<1> QED BY <1>1, HeaderChainTypeCorrect, PTL
------------------------------------------------------------------------------
(* Termination. *)

Fewer == OpToRel(<, Nat)

\* What a command has left: entries of the source's chain, and its end.
EntriesLeft == IF pc = "loop" THEN Height[active] + 2 - next ELSE 0
LeavesFewer == <<EntriesLeft', EntriesLeft>> \in Fewer

LEMMA EntriesLeftType == Inv => EntriesLeft \in Nat
<1> SUFFICES ASSUME Inv PROVE EntriesLeft \in Nat
  OBVIOUS
<1>1. Height[active] \in Nat /\ next \in Nat /\ (pc = "loop" => next <= Height[active] + 1)
  BY HeightIsLength DEF Inv, TypeOK, ChainInv
<1> QED BY <1>1 DEF EntriesLeft

\* Every step of the command, also the one at which it fails or dies, leaves
\* it fewer entries: it ends, however long the source's chain is.
THEOREM UpdatesAreFinite ==
  /\ IsWellFoundedOn(Fewer, Nat)
  /\ Spec => [](EntriesLeft \in Nat)
  /\ Spec => [][pc = "loop" => LeavesFewer]_vars
<1>1. Inv /\ Inv' /\ [Next]_vars => [pc = "loop" => LeavesFewer]_vars
  <2> SUFFICES ASSUME Inv, Inv', Next, pc = "loop" PROVE LeavesFewer
    OBVIOUS
  <2>1. EntriesLeft \in Nat /\ EntriesLeft' \in Nat
    <3>1. (Inv => EntriesLeft \in Nat)'
      BY EntriesLeftType, PTL
    <3> QED BY <3>1, EntriesLeftType
  <2>2. EntriesLeft' < EntriesLeft
    <3>1. Height[active] \in Nat /\ next \in Nat /\ next <= Height[active] + 1
      BY HeightIsLength DEF Inv, TypeOK, ChainInv
    <3>2. CASE ProcessHeader
      <4>1. EntriesLeft' = Height[active] + 2 - (next + 1)
        BY <3>2 DEF ProcessHeader, EntriesLeft
      <4> QED BY <3>1, <4>1 DEF EntriesLeft
    <3>3. CASE HeaderFails \/ Done \/ Crash
      <4>1. EntriesLeft' = 0
        BY <3>3 DEF HeaderFails, Done, End, Crash, EntriesLeft
      <4> QED BY <3>1, <4>1 DEF EntriesLeft
    <3> QED BY <3>2, <3>3 DEF Next, Step, SourceAdvances, Generate
  <2> QED BY <2>1, <2>2 DEF LeavesFewer, Fewer, OpToRel
<1>2. IsWellFoundedOn(Fewer, Nat)
  BY NatLessThanWellFounded DEF Fewer
<1>3. Spec => [](EntriesLeft \in Nat)
  BY EntriesLeftType, InvHolds, PTL
<1>4. Spec => [][pc = "loop" => LeavesFewer]_vars
  BY <1>1, InvHolds, PTL DEF Spec
<1> QED BY <1>2, <1>3, <1>4
==============================================================================
