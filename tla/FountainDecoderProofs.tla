------------------------ MODULE FountainDecoderProofs ------------------------
(***************************************************************************)
(* Proofs about FountainDecoder, for every number of superblocks, every    *)
(* collection of droplets and every order of requests.                     *)
(***************************************************************************)
EXTENDS FountainDecoder, FiniteSetTheorems, WellFoundedInduction, TLAPS
------------------------------------------------------------------------------
(* Type correctness. *)

LEMMA XorOutType ==
  ASSUME NEW i, NEW opened
  PROVE  XorOut(i, opened) \in SUBSET Terms /\ Cropped(XorOut(i, opened)) \in SUBSET Terms
BY DEF XorOut, Cropped

LEMMA InitType == Init => TypeOK
<1> SUFFICES ASSUME Init PROVE TypeOK
  OBVIOUS
<1>1. missed \in BOOLEAN
  BY DEF Init
<1> QED BY <1>1, KAssumption, BoundAssumption DEF Init, TypeOK, Epoch

LEMMA TypeInvariant == TypeOK /\ [Next]_vars => TypeOK'
<1> SUFFICES ASSUME TypeOK, [Next]_vars PROVE TypeOK'
  OBVIOUS
<1> USE DEF TypeOK, stores, loop
<1>1. ASSUME NEW num \in Epoch, Call(num) PROVE TypeOK'
  <2>1. missed' \in BOOLEAN
    BY <1>1 DEF Call
  <2> QED BY <1>1, <2>1, BoundAssumption DEF Call
<1>2. CASE LookupHit
  BY <1>2 DEF LookupHit, Return
<1>3. CASE LookupMiss
  BY <1>3 DEF LookupMiss
<1>4. CASE EndPass
  BY <1>4, BoundAssumption DEF EndPass, Scan, Rounds, NextPass
<1>5. CASE GiveUp
  BY <1>5 DEF GiveUp, Return
<1>6. CASE SkipDroplet
  BY <1>6, BoundAssumption DEF SkipDroplet, Scan, Rounds, NextDroplet
<1>7. CASE ReadFails
  BY <1>7 DEF ReadFails, Visit, Return
<1>8. CASE NotPeelable
  BY <1>8, BoundAssumption DEF NotPeelable, Visit, Scan, Rounds, NextDroplet
<1>9. CASE TmpStorageFails \/ Dies
  BY <1>9 DEF TmpStorageFails, Dies, Return
<1>10. CASE Reject
  BY <1>10, BoundAssumption DEF Reject, OneUnknown, Visit, Scan, Rounds, NextPass, Miss
<1>11. CASE Recover
  <2>1. PICK opened \in Opened(index), u \in Epoch, content \in SUBSET Terms :
          /\ Miss(opened)
          /\ Store(u, content)
          /\ IF u = requested
               THEN Return("found", content) /\ UNCHANGED <<round, index>>
               ELSE NextDroplet /\ UNCHANGED <<pc, requested, outcome, superblock>>
    BY <1>11, XorOutType DEF Recover
  <2>2. missed' \in BOOLEAN
    BY <2>1 DEF Miss
  <2>3. known' \subseteq Epoch /\ recovered' \in [known' -> SUBSET Terms]
    BY <2>1 DEF Store
  <2>4. /\ count' = count /\ droplets' = droplets /\ skip' = skip \cup {index}
        /\ index \in 0..(count - 1)
    BY <1>11, BoundAssumption DEF Recover, OneUnknown, Visit, Scan
  <2>5. round' \in 0..count /\ index' \in 0..count
    BY <2>1, <2>4, BoundAssumption DEF NextDroplet, Return
  <2>6. /\ pc' \in {"ready", "lookup", "scanning", "dead"}
        /\ requested' \in Epoch
        /\ outcome' \in {"pending", "found", "notDecoded", "failed"}
        /\ superblock' \in SUBSET Terms
    BY <2>1 DEF NextDroplet, Return
  <2> QED BY <2>2, <2>3, <2>4, <2>5, <2>6
<1>12. CASE UNCHANGED vars
  BY <1>12 DEF vars
<1> QED
  BY <1>1, <1>2, <1>3, <1>4, <1>5, <1>6, <1>7, <1>8, <1>9, <1>10, <1>11, <1>12 DEF Next

\* Every variable keeps its type: the loop counters stay within the number of
\* droplets and a superblock is stored for exactly the known neighbors.
THEOREM TypeCorrect == Spec => []TypeOK
BY InitType, TypeInvariant, PTL DEF Spec
------------------------------------------------------------------------------
(* Soundness. *)

RecoveredSound == \A n \in known : recovered[n] = {n} \/ Hollowed(recovered[n])

\* The neighbors that were really XORed out: there to read, and not empty.
Used(opened) == {n \in opened : recovered[n] = {n}}

\* With sound superblocks, a term is XORed in by at most one known neighbor:
\* the superblock it stands for.
LEMMA OccurrencesOfSound ==
  ASSUME TypeOK, RecoveredSound, NEW opened \in SUBSET known, NEW t
  PROVE  Odd(Cardinality(Occurrences(opened, t))) <=> t \in Used(opened)
<1>1. CASE t \in Used(opened)
  <2>1. Occurrences(opened, t) = {t}
    BY <1>1 DEF Occurrences, RecoveredSound, Used, Hollowed
  <2>2. Cardinality({t}) = 1
    BY FS_Singleton
  <2> QED BY <1>1, <2>1, <2>2 DEF Odd
<1>2. CASE t \notin Used(opened)
  <2>1. Occurrences(opened, t) = {}
    BY <1>2 DEF Occurrences, RecoveredSound, Used, Hollowed
  <2> QED BY <1>2, <2>1, FS_EmptySet DEF Odd
<1> QED BY <1>1, <1>2

LEMMA OpenedType ==
  ASSUME NEW i, NEW opened \in Opened(i)
  PROVE  /\ opened \subseteq Recovered(i) /\ opened \subseteq known
         /\ opened # Recovered(i) => TmpStorageMayFail
BY DEF Opened, Recovered

LEMMA XorOutOfSound ==
  ASSUME TypeOK, RecoveredSound, NEW i, NEW opened \in Opened(i)
  PROVE  XorOut(i, opened) = {t \in Terms : t \in droplets[i].payload <=> t \notin Used(opened)}
BY OccurrencesOfSound, OpenedType DEF XorOut

LEMMA DropletType ==
  ASSUME TypeOK, NEW i \in 0..(count - 1)
  PROVE  droplets[i] \in Collected /\ droplets[i] \in Droplet
BY CollectedAssumption DEF TypeOK

\* An honest droplet is left with exactly its neighbors that were not XORed out.
LEMMA HonestXorOut ==
  ASSUME TypeOK, RecoveredSound, NEW i \in 0..(count - 1), Honest(droplets[i]),
         NEW opened \in Opened(i)
  PROVE  XorOut(i, opened) = droplets[i].neighbors \ Used(opened)
<1>1. droplets[i].neighbors \subseteq Terms
  BY DropletType DEF Droplet, Terms
<1>2. Used(opened) \subseteq droplets[i].neighbors
  BY OpenedType DEF Used, Recovered
<1> QED BY <1>1, <1>2, XorOutOfSound DEF Honest

\* The noise of a murky droplet is never cancelled.
LEMMA MurkyXorOut ==
  ASSUME TypeOK, RecoveredSound, NEW i \in 0..(count - 1), Murky(droplets[i]),
         NEW opened \in Opened(i)
  PROVE  ~Valid(XorOut(i, opened))
<1>1. PICK t \in Noise : t \in droplets[i].payload
  BY DEF Murky
<1>2. t \notin Epoch /\ t \in Terms
  BY <1>1, TermsAssumption DEF Terms
<1>3. t \notin Used(opened)
  BY <1>2, OpenedType DEF TypeOK, Used
<1>4. t \in XorOut(i, opened)
  BY <1>1, <1>2, <1>3, XorOutOfSound
<1> QED BY <1>4, TermsAssumption, HollowAssumption DEF Valid

\* HonestOrMurky for the droplets at hand.
Genuine == \A i \in 0..(count - 1) : Honest(droplets[i]) \/ Murky(droplets[i])

LEMMA AllGenuine == HonestOrMurky /\ TypeOK => Genuine
BY DropletType DEF HonestOrMurky, Genuine

\* What passes the check is the unknown neighbor alone, or cancels.
LEMMA ValidMeansUnknown ==
  ASSUME TypeOK, RecoveredSound, Genuine, NEW i \in 0..(count - 1),
         NEW opened \in Opened(i), Valid(XorOut(i, opened)),
         NEW u \in Epoch, Unknown(i) = {u}
  PROVE  /\ Honest(droplets[i])
         /\ Cropped(XorOut(i, opened)) = {u} \/ Hollowed(Cropped(XorOut(i, opened)))
<1>1. Honest(droplets[i])
  BY MurkyXorOut DEF Genuine
<1>2. XorOut(i, opened) = droplets[i].neighbors \ Used(opened)
  BY <1>1, HonestXorOut
<1>3. u \in XorOut(i, opened)
  BY <1>2, OpenedType DEF Unknown, Used
<1>4. CASE XorOut(i, opened) = {u}
  BY <1>1, <1>4, HollowAssumption DEF Cropped, Terms
<1>5. CASE XorOut(i, opened) # {u}
  <2>1. XorOut(i, opened) \in Hollow
    BY <1>3, <1>5 DEF Valid
  <2>2. PICK n \in droplets[i].neighbors : n # u /\ n \notin Used(opened)
    BY <1>2, <1>3, <1>5
  <2>3. n \in Recovered(i) /\ n \in known
    BY <2>2 DEF Unknown, Recovered
  <2>4. TmpStorageMayFail
    <3>1. CASE n \in opened
      BY <2>2, <2>3, <3>1 DEF Used, RecoveredSound, Hollowed
    <3>2. CASE n \notin opened
      BY <2>3, <3>2, OpenedType
    <3> QED BY <3>1, <3>2
  <2> QED BY <1>1, <2>1, <2>4 DEF Cropped, Hollowed
<1> QED BY <1>4, <1>5

LEMMA SoundInvariant == Genuine /\ TypeOK /\ Sound /\ [Next]_vars => Sound'
<1> SUFFICES ASSUME Genuine, TypeOK, Sound, [Next]_vars PROVE Sound'
  OBVIOUS
<1>1. CASE Recover
  <2>1. PICK opened \in Opened(index), u \in Epoch :
          /\ Valid(XorOut(index, opened))
          /\ Unknown(index) = {u}
          /\ Store(u, Cropped(XorOut(index, opened)))
          /\ IF u = requested THEN Return("found", Cropped(XorOut(index, opened)))
                              ELSE UNCHANGED <<requested, outcome, superblock>>
    BY <1>1 DEF Recover
  <2>2. index \in 0..(count - 1)
    BY <1>1 DEF Recover, OneUnknown, Visit, Scan, TypeOK
  <2>3. Cropped(XorOut(index, opened)) = {u} \/ Hollowed(Cropped(XorOut(index, opened)))
    BY <2>1, <2>2, ValidMeansUnknown DEF Sound, RecoveredSound
  <2>4. \A n \in known' : recovered'[n] = {n} \/ Hollowed(recovered'[n])
    BY <2>1, <2>3 DEF Store, Sound
  <2>5. outcome' = "found" => superblock' = {requested'} \/ Hollowed(superblock')
    BY <2>1, <2>3 DEF Return, Sound
  <2> QED BY <2>4, <2>5 DEF Sound, Hollowed
<1>2. CASE LookupHit
  BY <1>2 DEF LookupHit, Return, Sound, TypeOK, Hollowed
<1>3. CASE \E num \in Epoch : Call(num)
  BY <1>3 DEF Call, Sound, Hollowed
<1>4. CASE LookupMiss \/ EndPass \/ SkipDroplet \/ NotPeelable \/ Dies \/ Reject \/ UNCHANGED vars
  BY <1>4 DEF LookupMiss, EndPass, SkipDroplet, NotPeelable, Dies, Reject, vars, Sound, Hollowed
<1>5. CASE GiveUp \/ ReadFails \/ TmpStorageFails
  BY <1>5 DEF GiveUp, ReadFails, TmpStorageFails, Return, Sound, Hollowed
<1> QED BY <1>1, <1>2, <1>3, <1>4, <1>5 DEF Next

\* The decoder's acceptance check is enough: from honest and murky droplets in
\* any number and order, only the right superblock is ever stored or returned,
\* or, when files could not be opened, one without a block.
THEOREM SoundDecoding == ASSUME HonestOrMurky PROVE Spec => []Sound
<1>1. Init => Sound
  BY DEF Init, Sound
<1>2. TypeOK /\ Sound /\ [Next]_vars => Sound'
  BY SoundInvariant, AllGenuine
<1> QED BY <1>1, <1>2, TypeCorrect, PTL DEF Spec
------------------------------------------------------------------------------
(* Exhaustion: the bound on the number of passes is large enough. *)

\* A droplet to skip is of no more use: it was decoded, or its last unknown
\* neighbor came out invalid.
Useless(i) == /\ droplets[i].readable
              /\ Unknown(i) = {} \/ (Peelable(i) /\ ~Valid(XorOut(i, Recovered(i))))

Settled(i) == droplets[i].readable /\ Stuck(i)

AllSettled == \A i \in 0..(count - 1) : Settled(i)

\* Every pass that is over has put a droplet aside, or nothing is left to do;
\* within a pass that has put none aside yet, all droplets behind are settled.
Progress == \/ AllSettled
            \/ Cardinality(skip) >= round + 1
            \/ /\ Cardinality(skip) >= round
               /\ \A i \in 0..(index - 1) : Settled(i)

ScanInv == /\ pc = "lookup" => round = 0 /\ index = 0 /\ skip = {} /\ ~missed
           /\ ~missed => \A i \in skip : Useless(i)
           /\ ~missed /\ pc = "scanning" => Progress

LEMMA UselessIsSettled == ASSUME NEW i, Useless(i) PROVE Settled(i)
BY DEF Useless, Settled, Stuck, Peelable

\* Whatever is recovered later, a useless droplet stays useless.
LEMMA UselessStays ==
  ASSUME TypeOK, NEW i \in 0..(count - 1), Useless(i),
         NEW u \in Epoch, u \notin known, NEW content, Store(u, content),
         UNCHANGED <<count, droplets>>
  PROVE  Useless(i)'
<1>1. CASE Unknown(i) = {}
  BY <1>1 DEF Useless, Unknown, Store
<1>2. CASE Peelable(i) /\ ~Valid(XorOut(i, Recovered(i)))
  <2>1. PICK v \in Epoch : Unknown(i) = {v}
    BY <1>2 DEF Peelable
  <2>2. CASE v = u
    BY <2>1, <2>2 DEF Useless, Unknown, Store
  <2>3. CASE v # u
    <3>1. u \notin droplets[i].neighbors
      BY <2>1, <2>3 DEF Unknown
    <3>2. /\ Recovered(i)' = Recovered(i)
          /\ \A t : {n \in Recovered(i) : t \in recovered'[n]} = {n \in Recovered(i) : t \in recovered[n]}
      BY <3>1 DEF Recovered, Store, TypeOK
    <3>3. XorOut(i, Recovered(i))' = XorOut(i, Recovered(i))
      BY <3>2 DEF XorOut, Occurrences
    <3>4. Unknown(i)' = {v}
      BY <2>1, <3>1 DEF Unknown, Store
    <3> QED BY <1>2, <3>3, <3>4 DEF Useless, Peelable, Valid
  <2> QED BY <2>2, <2>3
<1> QED BY <1>1, <1>2 DEF Useless

LEMMA Unchanging ==
  ASSUME UNCHANGED <<count, droplets, known, recovered>>, NEW i
  PROVE  /\ Useless(i)' = Useless(i)
         /\ Settled(i)' = Settled(i)
         /\ AllSettled' = AllSettled
<1>1. \A j : Unknown(j)' = Unknown(j) /\ XorOut(j, Recovered(j))' = XorOut(j, Recovered(j))
  BY DEF Unknown, XorOut, Occurrences, Recovered
<1>2. \A j : /\ Peelable(j)' = Peelable(j)
             /\ (Valid(XorOut(j, Recovered(j))))' = Valid(XorOut(j, Recovered(j)))
  BY <1>1 DEF Peelable, Valid
<1>3. \A j : Settled(j)' = Settled(j)
  BY <1>2 DEF Settled, Stuck
<1> QED BY <1>1, <1>2, <1>3 DEF Useless, AllSettled

LEMMA SkipCardinality ==
  ASSUME TypeOK
  PROVE  /\ IsFiniteSet(skip)
         /\ Cardinality(skip) \in Nat
         /\ Cardinality(skip) <= count
         /\ Cardinality(skip) = count => skip = 0..(count - 1)
         /\ \A i : i \notin skip => Cardinality(skip \cup {i}) = Cardinality(skip) + 1
<1>1. IsFiniteSet(0..(count - 1)) /\ Cardinality(0..(count - 1)) = count
  BY FS_Interval, BoundAssumption DEF TypeOK
<1>2. IsFiniteSet(skip)
  BY <1>1, FS_Subset DEF TypeOK
<1>3. Cardinality(skip) <= count /\ (Cardinality(skip) = count => skip = 0..(count - 1))
  <2>1. skip \in SUBSET (0..(count - 1))
    BY DEF TypeOK
  <2>2. /\ Cardinality(skip) <= Cardinality(0..(count - 1))
        /\ Cardinality(0..(count - 1)) = Cardinality(skip) => skip = 0..(count - 1)
    BY <1>1, <2>1, FS_Subset
  <2> QED BY <1>1, <2>2
<1>4. Cardinality(skip) \in Nat
  BY <1>2, FS_CardinalityType
<1>5. \A i : i \notin skip => Cardinality(skip \cup {i}) = Cardinality(skip) + 1
  BY <1>2, FS_AddElement
<1> QED BY <1>2, <1>3, <1>4, <1>5

\* Passes are as many as there are droplets: when the last one is over, either
\* nothing was left to do or every droplet has been put aside.
LEMMA PassesSuffice ==
  ASSUME TypeOK, ScanInv, ~missed, pc = "scanning", round = count
  PROVE  AllSettled
<1>1. CASE Cardinality(skip) = count
  BY <1>1, SkipCardinality, UselessIsSettled DEF ScanInv, AllSettled
<1>2. CASE Cardinality(skip) # count
  BY <1>2, SkipCardinality, BoundAssumption DEF ScanInv, Progress, TypeOK
<1> QED BY <1>1, <1>2

LEMMA ScanInvariant == TypeOK /\ ScanInv /\ [Next]_vars => ScanInv'
<1> SUFFICES ASSUME TypeOK, ScanInv, [Next]_vars PROVE ScanInv'
  OBVIOUS
<1>0. /\ Cardinality(skip) \in Nat /\ round \in Nat /\ index \in Nat /\ count \in Nat
      /\ \A i : i \notin skip => Cardinality(skip \cup {i}) = Cardinality(skip) + 1
  BY SkipCardinality, BoundAssumption DEF TypeOK
<1>1. ASSUME NEW num \in Epoch, Call(num) PROVE ScanInv'
  BY <1>1 DEF Call, ScanInv
<1>2. CASE LookupHit \/ GiveUp \/ ReadFails \/ TmpStorageFails \/ Dies \/ UNCHANGED vars
  <2>1. /\ UNCHANGED <<count, droplets, known, recovered, loop>>
        /\ pc' = "ready" \/ pc' = "dead" \/ pc' = pc
    BY <1>2 DEF LookupHit, GiveUp, ReadFails, TmpStorageFails, Dies, Return, stores, vars, loop
  <2>2. ~missed => \A i \in skip : Useless(i)'
    BY <2>1, Unchanging DEF ScanInv
  <2>3. ~missed /\ pc = "scanning" => Progress'
    BY <2>1, Unchanging DEF ScanInv, Progress, loop
  <2> QED BY <2>1, <2>2, <2>3 DEF ScanInv, loop
<1>3. CASE LookupMiss
  <2>1. /\ UNCHANGED <<count, droplets, known, recovered>> /\ pc' = "scanning"
        /\ skip' = {} /\ round' = 0 /\ index' = 0
    BY <1>3 DEF LookupMiss, stores, loop, ScanInv
  <2>2. Progress'
    BY <2>1, FS_EmptySet DEF Progress
  <2> QED BY <2>1, <2>2 DEF ScanInv
<1>4. CASE EndPass
  <2>1. /\ UNCHANGED <<count, droplets, known, recovered, skip, missed, pc>>
        /\ pc = "scanning" /\ round' = round + 1 /\ index' = 0 /\ index = count
    BY <1>4 DEF EndPass, Scan, NextPass, stores
  <2>2. ~missed => AllSettled \/ Cardinality(skip) >= round + 1
    BY <2>1 DEF ScanInv, Progress, AllSettled
  <2>3. ~missed => Progress'
    BY <2>1, <2>2, <1>0, Unchanging DEF Progress
  <2> QED BY <2>1, <2>3, Unchanging DEF ScanInv
<1>5. CASE SkipDroplet \/ NotPeelable
  <2>1. /\ UNCHANGED <<count, droplets, known, recovered, skip, missed, pc, round>>
        /\ pc = "scanning" /\ index' = index + 1
    BY <1>5 DEF SkipDroplet, NotPeelable, Visit, Scan, NextDroplet, stores
  <2>2. ~missed => Settled(index)
    BY <1>5, UselessIsSettled DEF SkipDroplet, NotPeelable, Settled, Stuck, ScanInv
  <2>3. ~missed /\ (\A i \in 0..(index - 1) : Settled(i)) => \A i \in 0..(index' - 1) : Settled(i)
    BY <2>1, <2>2, <1>0
  <2>4. ~missed => Progress'
    BY <2>1, <2>3, Unchanging DEF Progress, ScanInv
  <2> QED BY <2>1, <2>4, Unchanging DEF ScanInv
<1>6. CASE Reject
  <2>1. /\ UNCHANGED <<count, droplets, known, recovered, pc>> /\ index \notin skip
        /\ pc = "scanning" /\ skip' = skip \cup {index} /\ round' = round + 1 /\ index' = 0
    BY <1>6 DEF Reject, OneUnknown, Visit, Scan, NextPass, stores
  <2>2. ~missed' => ~missed /\ Useless(index)
    BY <1>6 DEF Reject, OneUnknown, Miss, Useless
  <2>3. Cardinality(skip') = Cardinality(skip) + 1
    BY <2>1, <1>0
  <2>4. ~missed' => Progress'
    BY <2>1, <2>2, <2>3, <1>0, Unchanging DEF Progress, ScanInv
  <2> QED BY <2>1, <2>2, <2>4, Unchanging DEF ScanInv
<1>7. CASE Recover
  <2>1. PICK opened \in Opened(index), u \in Epoch :
          /\ Valid(XorOut(index, opened)) /\ Miss(opened)
          /\ Unknown(index) = {u}
          /\ Store(u, Cropped(XorOut(index, opened)))
          /\ \/ pc' = "ready"
             \/ pc' = pc /\ round' = round
    BY <1>7 DEF Recover, Return, NextDroplet
  <2>2. /\ UNCHANGED <<count, droplets>> /\ index \notin skip /\ index \in 0..(count - 1)
        /\ pc = "scanning" /\ skip' = skip \cup {index}
        /\ droplets[index].readable
    BY <1>7, <1>0 DEF Recover, OneUnknown, Visit, Scan, stores
  <2>3. u \notin known
    BY <2>1 DEF Unknown
  <2>4. ~missed => \A i \in skip : Useless(i)'
    BY <2>1, <2>2, <2>3, UselessStays DEF ScanInv, TypeOK
  <2>5. \A i : i = index => Useless(i)'
    BY <2>1, <2>2 DEF Useless, Unknown, Store
  <2>6. Cardinality(skip') = Cardinality(skip) + 1
    BY <2>2, <1>0
  <2>7. ~missed' => ~missed /\ ~AllSettled
    BY <2>1, <2>2 DEF AllSettled, Settled, Stuck, Peelable, Miss
  <2>8. ~missed' => Cardinality(skip) >= round
    BY <2>2, <2>7, <1>0 DEF ScanInv, Progress
  <2>9. ~missed' /\ pc' = "scanning" => Progress'
    BY <2>1, <2>2, <2>6, <2>8, <1>0 DEF Progress
  <2> QED BY <2>1, <2>2, <2>4, <2>5, <2>7, <2>9 DEF ScanInv
<1> QED BY <1>1, <1>2, <1>3, <1>4, <1>5, <1>6, <1>7 DEF Next

LEMMA ExhaustedInvariant ==
  TypeOK /\ ScanInv /\ Exhausted /\ [Next]_vars => Exhausted'
<1> SUFFICES ASSUME TypeOK, ScanInv, Exhausted, [Next]_vars, outcome' = "notDecoded", ~missed'
             PROVE  AllSettled'
  BY DEF Exhausted, AllSettled, Settled
<1>1. CASE GiveUp
  BY <1>1, PassesSuffice, Unchanging DEF GiveUp, Rounds, stores, loop
<1>2. CASE ~GiveUp /\ ~Recover
  <2>1. outcome = "notDecoded" /\ UNCHANGED <<count, droplets, known, recovered>>
    BY <1>2 DEF Next, Call, LookupHit, LookupMiss, EndPass, SkipDroplet, ReadFails,
                NotPeelable, TmpStorageFails, Dies, Reject, Return, stores, vars
  <2>2. ~missed
    BY <1>2, <2>1 DEF Next, Call, LookupHit, LookupMiss, EndPass, SkipDroplet, ReadFails,
                NotPeelable, TmpStorageFails, Dies, Reject, Miss, Return, loop, vars, ScanInv
  <2> QED BY <2>1, <2>2, Unchanging DEF Exhausted, AllSettled, Settled
<1>3. CASE Recover
  <2>1. PICK opened \in Opened(index) : Valid(XorOut(index, opened)) /\ Miss(opened)
    BY <1>3 DEF Recover
  <2>2. outcome = "notDecoded" /\ ~missed /\ opened = Recovered(index)
    BY <1>3, <2>1 DEF Recover, Return, Miss
  <2>3. index \in 0..(count - 1) /\ ~Stuck(index)
    BY <1>3, <2>1, <2>2, BoundAssumption DEF Recover, OneUnknown, Visit, Scan, TypeOK, Stuck
  <2> QED BY <2>2, <2>3 DEF Exhausted
<1> QED BY <1>1, <1>2, <1>3

LEMMA InitExhausted == Init => ScanInv /\ Exhausted
BY DEF Init, ScanInv, Exhausted

\* "notDecoded" is only ever answered when no droplet can be peeled any more, or a
\* recovered superblock was not there to read in this call, whatever the droplets
\* are: a pass cut short by a rejected droplet is always made up for by a later one.
THEOREM ExhaustiveDecoding == Spec => []Exhausted
BY InitExhausted, ScanInvariant, ExhaustedInvariant, TypeCorrect, PTL DEF Spec
------------------------------------------------------------------------------
(* Refinement: the scan implements the promise of a peeling decoder. *)

\* A superblock is only searched for, and only given up, while it is unknown or
\* was not there to read; what is found is what is stored.
AnswerInv == /\ pc # "ready" => outcome = "pending"
             /\ pc = "scanning" \/ outcome = "notDecoded" => requested \notin known \/ missed
             /\ outcome = "found" => requested \in known /\ superblock = recovered[requested]

LEMMA AnswerInvariant == TypeOK /\ AnswerInv /\ [Next]_vars => AnswerInv'
<1> SUFFICES ASSUME TypeOK, AnswerInv, [Next]_vars PROVE AnswerInv'
  OBVIOUS
<1>1. CASE Recover
  <2>1. PICK u \in Epoch, content \in SUBSET Terms :
          /\ Store(u, content)
          /\ missed => missed'
          /\ IF u = requested THEN Return("found", content)
                              ELSE UNCHANGED <<pc, requested, outcome, superblock>>
    BY <1>1, XorOutType DEF Recover, Miss
  <2>2. pc = "scanning"
    BY <1>1 DEF Recover, OneUnknown, Visit, Scan
  <2> QED BY <2>1, <2>2 DEF Store, Return, AnswerInv
<1>2. CASE ~Recover
  BY <1>2 DEF Next, Call, LookupHit, LookupMiss, EndPass, GiveUp, SkipDroplet, ReadFails,
              NotPeelable, TmpStorageFails, Dies, Reject, Miss, Return, OneUnknown, Visit, Scan,
              vars, stores, loop, TypeOK, AnswerInv
<1> QED BY <1>1, <1>2

PeelInv == known \subseteq Abstract!Decodable

LEMMA DecodableStays ==
  ASSUME UNCHANGED <<count, droplets>>
  PROVE  Abstract!Decodable' = Abstract!Decodable
BY DEF Abstract!Decodable, Abstract!Closed

\* What peeling adds to decodable symbols is decodable.
LEMMA PeelingDecodable ==
  ASSUME TypeOK, known \subseteq Abstract!Decodable,
         NEW i \in 0..(count - 1), Honest(droplets[i]),
         NEW u \in Epoch, Unknown(i) = {u}
  PROVE  u \in Abstract!Decodable
<1> SUFFICES ASSUME NEW T \in SUBSET Epoch, Abstract!Closed(T), u \notin T
             PROVE  FALSE
  BY DEF Abstract!Decodable
<1>1. known \subseteq T
  BY DEF Abstract!Decodable
<1>2. droplets[i].neighbors \ T = {u}
  BY <1>1 DEF Unknown
<1> QED BY <1>2 DEF Abstract!Closed

\* When nothing is left to peel, every decodable symbol is known, unless a wrong
\* superblock or an empty one stands in the way.
LEMMA SettledIsComplete ==
  ASSUME TypeOK, \A n \in known : recovered[n] = {n}, AllSettled
  PROVE  Abstract!Decodable \subseteq known
<1>1. ASSUME NEW i \in 0..(count - 1), Honest(droplets[i]),
             NEW u \in Epoch, droplets[i].neighbors \ known = {u}
      PROVE  FALSE
  <2>1. Recovered(i) \in Opened(i) /\ Used(Recovered(i)) = Recovered(i)
    BY DEF Opened, Recovered, Used
  <2>2. XorOut(i, Recovered(i)) = {u}
    BY <1>1, <2>1, HonestXorOut DEF RecoveredSound, Recovered
  <2> QED BY <1>1, <2>2 DEF AllSettled, Settled, Stuck, Peelable, Unknown, Valid
<1>2. Abstract!Closed(known)
  BY <1>1 DEF Abstract!Closed
<1> QED BY <1>2 DEF Abstract!Decodable, TypeOK

LEMMA RecoverStep ==
  ASSUME HonestOrMurky, TypeOK, Sound, PeelInv, Recover
  PROVE  \E u \in Epoch :
           /\ u \notin known
           /\ known' = known \cup {u}
           /\ known' \subseteq Abstract!Decodable
           /\ \A n \in known : recovered'[n] = recovered[n]
           /\ recovered'[u] = {} => TmpStorageMayFail
           /\ missed' = missed \/ TmpStorageMayFail
           /\ missed => missed'
           /\ \/ u = requested /\ pc' = "ready" /\ outcome' = "found" /\ requested' = requested
              \/ u # requested /\ UNCHANGED <<pc, requested, outcome>>
<1>1. PICK opened \in Opened(index), u \in Epoch :
        /\ Valid(XorOut(index, opened)) /\ Miss(opened)
        /\ Unknown(index) = {u}
        /\ Store(u, Cropped(XorOut(index, opened)))
        /\ IF u = requested THEN Return("found", Cropped(XorOut(index, opened)))
                            ELSE UNCHANGED <<pc, requested, outcome>>
  BY DEF Recover
<1>2. index \in 0..(count - 1)
  BY DEF Recover, OneUnknown, Visit, Scan, TypeOK
<1>3. /\ Honest(droplets[index])
      /\ Cropped(XorOut(index, opened)) = {} => TmpStorageMayFail
  BY <1>1, <1>2, ValidMeansUnknown, AllGenuine DEF Sound, RecoveredSound, Hollowed
<1>4. u \in Abstract!Decodable
  BY <1>1, <1>2, <1>3, PeelingDecodable DEF PeelInv
<1>5. u \notin known
  BY <1>1 DEF Unknown
<1>6. (missed' = missed \/ TmpStorageMayFail) /\ (missed => missed')
  BY <1>1, OpenedType DEF Miss, TypeOK
<1> QED BY <1>1, <1>3, <1>4, <1>5, <1>6 DEF Store, Return, PeelInv

LEMMA PeelInvariant ==
  ASSUME HonestOrMurky
  PROVE  TypeOK /\ Sound /\ PeelInv /\ [Next]_vars => PeelInv'
<1> SUFFICES ASSUME TypeOK, Sound, PeelInv, [Next]_vars PROVE PeelInv'
  OBVIOUS
<1>1. CASE Recover
  <2>1. UNCHANGED <<count, droplets>>
    BY <1>1 DEF Recover, stores
  <2> QED BY <1>1, <2>1, RecoverStep, DecodableStays DEF PeelInv
<1>2. CASE ~Recover
  <2>1. UNCHANGED <<count, droplets, known>>
    BY <1>2 DEF Next, Call, LookupHit, LookupMiss, EndPass, GiveUp, SkipDroplet, ReadFails,
                NotPeelable, TmpStorageFails, Dies, Reject, stores, vars
  <2> QED BY <2>1, DecodableStays DEF PeelInv
<1> QED BY <1>1, <1>2

LEMMA InitImplements == Init => Abstract!Init
<1> SUFFICES ASSUME Init PROVE Abstract!Init
  OBVIOUS
<1>1. \A i \in 0..(count - 1) : droplets[i].neighbors \in SUBSET Epoch
  BY CollectedAssumption DEF Init, Droplet
<1>2. 0 \in Epoch
  BY KAssumption DEF Epoch
<1> QED BY <1>1, <1>2, BoundAssumption DEF Init, Abstract!Init, Lost

\* A turn that learns nothing, but may find a recovered superblock missing.
LEMMA MissIsLearning ==
  ASSUME TypeOK, PeelInv, pc # "ready", pc' # "ready",
         UNCHANGED <<stores, known, recovered, requested, outcome>>,
         missed => missed', missed' = missed \/ TmpStorageMayFail, missed' \in BOOLEAN
  PROVE  Abstract!Learn
<1>1. Lost' \in {Lost, Lost \/ TmpStorageMayFail \/ \E i \in 0..(count - 1) : ~droplets[i].readable}
  BY BoundAssumption DEF Lost, TypeOK
<1>2. known \in SUBSET Epoch /\ Abstract!LearnUpTo(known)
  BY DEF Abstract!LearnUpTo, PeelInv, TypeOK
<1> QED BY <1>1, <1>2 DEF Abstract!Learn, Abstract!MayLose, stores

LEMMA StepImplements ==
  ASSUME HonestOrMurky
  PROVE  TypeOK /\ TypeOK' /\ Sound /\ ScanInv /\ AnswerInv /\ PeelInv /\ [Next]_vars
           => [Abstract!Next]_(Abstract!vars)
<1> SUFFICES ASSUME TypeOK, TypeOK', Sound, ScanInv, AnswerInv, PeelInv, [Next]_vars
             PROVE  [Abstract!Next]_(Abstract!vars)
  OBVIOUS
<1> USE DEF stores
<1>1. ASSUME NEW num \in Epoch, Call(num) PROVE Abstract!Ask(num)
  <2>1. Lost' \in {FALSE, Lost}
    BY <1>1 DEF Call, Lost
  <2> QED BY <1>1, <2>1 DEF Call, Abstract!Ask
<1>2. CASE LookupHit
  <2>1. /\ Abstract!Answer("found") /\ requested \in known /\ known' = known /\ Lost' = Lost
    BY <1>2 DEF LookupHit, Return, Abstract!Answer, TypeOK, Lost, loop
  <2>2. Abstract!AnswerFound
    BY <2>1 DEF Abstract!AnswerFound, Abstract!LearnUpTo, Abstract!MayLose, PeelInv, TypeOK
  <2> QED BY <2>2 DEF Abstract!Next
<1>3. CASE EndPass \/ SkipDroplet \/ NotPeelable \/ Dies \/ UNCHANGED vars
  BY <1>3 DEF EndPass, SkipDroplet, NotPeelable, Dies, OneUnknown, Scan, Visit, vars, loop,
              Abstract!vars, Lost
<1>4. CASE LookupMiss
  <2>1. missed' = missed \/ TmpStorageMayFail
    BY <1>4, BoundAssumption DEF LookupMiss, ScanInv, TypeOK
  <2>2. pc # "ready" /\ pc' # "ready" /\ (missed => missed') /\ missed' \in BOOLEAN
    BY <1>4 DEF LookupMiss, ScanInv, TypeOK
  <2>3. UNCHANGED <<stores, known, recovered, requested, outcome>>
    BY <1>4 DEF LookupMiss
  <2> QED BY <2>1, <2>2, <2>3, MissIsLearning DEF Abstract!Next
<1>5. CASE Reject
  <2>1. PICK opened \in Opened(index) : Miss(opened)
    BY <1>5 DEF Reject
  <2>2. (missed' = missed \/ TmpStorageMayFail) /\ (missed => missed') /\ missed' \in BOOLEAN
    BY <2>1, OpenedType DEF Miss, TypeOK
  <2>3. pc # "ready" /\ pc' # "ready"
    BY <1>5 DEF Reject, OneUnknown, Visit, Scan
  <2>4. UNCHANGED <<stores, known, recovered, requested, outcome>>
    BY <1>5 DEF Reject
  <2> QED BY <2>2, <2>3, <2>4, MissIsLearning DEF Abstract!Next
<1>6. CASE GiveUp
  <2>1. requested \notin Abstract!Decodable \/ Lost
    <3>1. CASE ~Lost
      <4>1. ~missed /\ \A n \in known : recovered[n] = {n}
        BY <3>1 DEF Lost, Sound, Hollowed
      <4>2. requested \notin known
        BY <1>6, <4>1 DEF GiveUp, AnswerInv
      <4>3. AllSettled
        BY <1>6, <4>1, PassesSuffice DEF GiveUp, Rounds
      <4> QED BY <4>1, <4>2, <4>3, SettledIsComplete
    <3> QED BY <3>1
  <2>2. Lost' = Lost
    BY <1>6 DEF GiveUp, Lost, loop
  <2>3. Abstract!AnswerNotDecoded
    BY <1>6, <2>1, <2>2 DEF GiveUp, Return, Abstract!Answer, Abstract!AnswerNotDecoded
  <2> QED BY <2>3 DEF Abstract!Next
<1>7. CASE ReadFails \/ TmpStorageFails
  <2>1. TmpStorageMayFail \/ \E i \in 0..(count - 1) : ~droplets[i].readable
    BY <1>7 DEF ReadFails, TmpStorageFails, Visit, Scan, TypeOK
  <2>2. /\ pc # "ready" /\ UNCHANGED <<count, droplets, known, recovered, missed>>
        /\ Return("failed", {})
    BY <1>7 DEF ReadFails, TmpStorageFails, OneUnknown, Visit, Scan, loop
  <2>3. Abstract!AnswerFailed
    BY <2>1, <2>2 DEF Return, Abstract!Answer, Abstract!AnswerFailed, Lost
  <2> QED BY <2>3 DEF Abstract!Next
<1>8. CASE Recover
  <2>1. UNCHANGED <<count, droplets>> /\ pc = "scanning"
    BY <1>8 DEF Recover, OneUnknown, Visit, Scan
  <2>2. PICK u \in Epoch :
          /\ u \notin known
          /\ known' = known \cup {u}
          /\ known' \subseteq Abstract!Decodable
          /\ \A n \in known : recovered'[n] = recovered[n]
          /\ recovered'[u] = {} => TmpStorageMayFail
          /\ missed' = missed \/ TmpStorageMayFail
          /\ missed => missed'
          /\ \/ u = requested /\ pc' = "ready" /\ outcome' = "found" /\ requested' = requested
             \/ u # requested /\ UNCHANGED <<pc, requested, outcome>>
    BY <1>8, RecoverStep
  <2>3. known' \in SUBSET Epoch /\ Abstract!LearnUpTo(known')
    BY <2>2 DEF Abstract!LearnUpTo, TypeOK
  <2>4. Lost' = Lost \/ TmpStorageMayFail
    BY <2>2, BoundAssumption DEF Lost, TypeOK
  <2>5. Lost => Lost'
    BY <2>2 DEF Lost
  <2>6. Abstract!MayLose
    BY <2>4, <2>5, BoundAssumption DEF Abstract!MayLose, Lost, TypeOK
  <2>7. CASE u = requested
    <3>1. Abstract!AnswerFound
      BY <2>1, <2>2, <2>3, <2>6, <2>7 DEF Abstract!AnswerFound, Abstract!Answer
    <3> QED BY <3>1 DEF Abstract!Next
  <2>8. CASE u # requested
    <3>1. Abstract!Learn
      BY <2>1, <2>2, <2>3, <2>6, <2>8 DEF Abstract!Learn
    <3> QED BY <3>1 DEF Abstract!Next
  <2> QED BY <2>7, <2>8
<1> QED BY <1>1, <1>2, <1>3, <1>4, <1>5, <1>6, <1>7, <1>8 DEF Next, Abstract!Next

\* get_decoded_superblock keeps the promise of a peeling decoder: of honest
\* droplets hidden among murky ones it finds exactly the superblocks that they
\* determine, in whatever order droplets are stored and superblocks asked for.  It
\* says of a determined one that it is not decoded only when a superblock that it
\* had recovered was lost.
THEOREM DecoderImplementsPeeling == ASSUME HonestOrMurky PROVE Spec => ImplementsPeeling
<1>1. Init => PeelInv /\ ScanInv /\ AnswerInv
  BY DEF Init, PeelInv, ScanInv, AnswerInv
<1>2. TypeOK /\ Sound /\ PeelInv /\ [Next]_vars => PeelInv'
  BY PeelInvariant
<1>3. TypeOK /\ TypeOK' /\ Sound /\ ScanInv /\ AnswerInv /\ PeelInv /\ [Next]_vars
        => [Abstract!Next]_(Abstract!vars)
  BY StepImplements
<1>4. Spec => []Sound
  BY SoundDecoding
<1> QED BY <1>1, <1>2, <1>3, <1>4, InitImplements, ScanInvariant, AnswerInvariant, TypeCorrect, PTL
        DEF Spec, ImplementsPeeling, Abstract!Spec

\* A superblock once recovered is never replaced nor forgotten, for arbitrary
\* droplets, also those that carry good blocks of another superblock.
THEOREM RecoveredStays == Spec => NeverReplaced
<1> DEFINE Kept == \A n \in DOMAIN recovered : n \in known' /\ recovered'[n] = recovered[n]
<1>1. TypeOK /\ [Next]_vars => [Kept]_vars
  <2> SUFFICES ASSUME TypeOK, Next PROVE Kept
    OBVIOUS
  <2>1. DOMAIN recovered = known
    BY DEF TypeOK
  <2>2. CASE Recover
    <3>1. PICK u \in Epoch, content \in SUBSET Terms : Unknown(index) = {u} /\ Store(u, content)
      BY <2>2, XorOutType DEF Recover
    <3>2. u \notin known
      BY <3>1 DEF Unknown
    <3> QED BY <2>1, <3>1, <3>2 DEF Store
  <2>3. CASE ~Recover
    <3>1. UNCHANGED <<known, recovered>>
      BY <2>3 DEF Next, Call, LookupHit, LookupMiss, EndPass, GiveUp, SkipDroplet, ReadFails,
                  NotPeelable, TmpStorageFails, Dies, Reject
    <3> QED BY <2>1, <3>1
  <2> QED BY <2>2, <2>3
<1> QED BY <1>1, TypeCorrect, PTL DEF Spec, NeverReplaced
------------------------------------------------------------------------------
(* A call takes finitely many steps. *)

Smaller == OpToRel(<, Nat)
SmallerPair == LexPairOrdering(Smaller, Smaller, Nat, Nat)

LEMMA SmallerPairs ==
  /\ IsWellFoundedOn(SmallerPair, Nat \X Nat)
  /\ \A a, b, c, d \in Nat : a < c \/ (a = c /\ b < d) => <<<<a, b>>, <<c, d>>>> \in SmallerPair
<1>1. IsWellFoundedOn(Smaller, Nat)
  BY NatLessThanWellFounded DEF Smaller
<1>2. IsWellFoundedOn(SmallerPair, Nat \X Nat)
  BY <1>1, WFLexPairOrdering DEF SmallerPair
<1>3. \A a, b \in Nat : a < b => <<a, b>> \in Smaller
  BY DEF Smaller, OpToRel
<1> QED BY <1>2, <1>3 DEF SmallerPair, LexPairOrdering

\* What a call has left: passes, and turns of the pass.
TurnsLeft == IF pc \in {"ready", "dead"} THEN 0 ELSE IF pc = "lookup" THEN count + 2 ELSE count - index + 1
CallVariant == <<count - round, TurnsLeft>>

LEMMA LeftType == \A c \in Nat : \A r \in 0..c : c - r \in Nat /\ c - r + 1 \in Nat
OBVIOUS

LEMMA VariantType == TypeOK => CallVariant \in Nat \X Nat
BY BoundAssumption DEF TypeOK, CallVariant, TurnsLeft

LEMMA RunningLowers ==
  ASSUME TypeOK, TypeOK', Running PROVE <<CallVariant', CallVariant>> \in SmallerPair
<1>0. /\ count \in Nat /\ round \in 0..count /\ index \in 0..count
      /\ count' \in Nat /\ round' \in 0..count' /\ index' \in 0..count'
  BY BoundAssumption DEF TypeOK
<1>1. TurnsLeft \in Nat
  BY <1>0, LeftType DEF TurnsLeft
<1>2. TurnsLeft' \in Nat
  <2>1. PICK c \in Nat : c = count'
    BY <1>0
  <2>2. PICK i \in 0..c : i = index'
    BY <1>0, <2>1
  <2>3. c + 2 \in Nat /\ c - i + 1 \in Nat
    BY LeftType
  <2>4. TurnsLeft' \in {0, c + 2, c - i + 1}
    BY <2>1, <2>2 DEF TurnsLeft
  <2> QED BY <2>3, <2>4
<1>3. /\ count \in Nat /\ round \in 0..count /\ index \in 0..count
      /\ count - round \in Nat /\ TurnsLeft \in Nat
      /\ (count - round)' \in Nat /\ TurnsLeft' \in Nat
  BY <1>0, <1>1, <1>2, LeftType
<1>4. count' = count
  BY DEF Running, Next, Call, LookupHit, LookupMiss, EndPass, GiveUp, SkipDroplet, ReadFails,
         NotPeelable, TmpStorageFails, Dies, Reject, Recover, stores
<1>5. CASE LookupHit \/ GiveUp \/ ReadFails \/ TmpStorageFails \/ Dies
  <2>1. pc' \in {"ready", "dead"} /\ round' = round /\ pc \in {"lookup", "scanning"}
    BY <1>5 DEF LookupHit, GiveUp, ReadFails, TmpStorageFails, Dies, OneUnknown, Visit, Scan,
                Return, loop
  <2>2. TurnsLeft' < TurnsLeft /\ (count - round)' = count - round
    BY <1>3, <1>4, <2>1 DEF TurnsLeft
  <2> QED BY <1>3, <2>2, SmallerPairs DEF CallVariant
<1>6. CASE LookupMiss
  <2>1. pc = "lookup" /\ pc' = "scanning" /\ round' = round /\ index' = index
    BY <1>6 DEF LookupMiss
  <2>2. TurnsLeft' < TurnsLeft /\ (count - round)' = count - round
    BY <1>3, <1>4, <2>1 DEF TurnsLeft
  <2> QED BY <1>3, <2>2, SmallerPairs DEF CallVariant
<1>7. CASE EndPass \/ Reject
  <2>1. round' = round + 1
    BY <1>7 DEF EndPass, Reject, NextPass
  <2>2. (count - round)' < count - round
    BY <1>3, <1>4, <2>1
  <2> QED BY <1>3, <2>2, SmallerPairs DEF CallVariant
<1>8. CASE SkipDroplet \/ NotPeelable \/ Recover
  <2>1. /\ pc = "scanning" /\ round' = round
        /\ \/ pc' = "ready"
           \/ pc' = "scanning" /\ index' = index + 1
    BY <1>8 DEF SkipDroplet, NotPeelable, Recover, OneUnknown, Visit, Scan, NextDroplet, Return
  <2>2. TurnsLeft' < TurnsLeft /\ (count - round)' = count - round
    BY <1>3, <1>4, <2>1 DEF TurnsLeft
  <2> QED BY <1>3, <2>2, SmallerPairs DEF CallVariant
<1>9. ~ \E num \in Epoch : Call(num)
  BY DEF Running, Call
<1> QED BY <1>5, <1>6, <1>7, <1>8, <1>9 DEF Running, Next

\* Every step of a call lowers its variant in a well-founded order, for arbitrary
\* droplets: no call goes on for ever.
THEOREM CallsAreFinite ==
  /\ IsWellFoundedOn(SmallerPair, Nat \X Nat)
  /\ Spec => [](CallVariant \in Nat \X Nat)
  /\ Spec => [][Running => <<CallVariant', CallVariant>> \in SmallerPair]_vars
<1>1. TypeOK /\ [Next]_vars => TypeOK'
  BY TypeInvariant
<1>2. TypeOK /\ TypeOK' /\ [Next]_vars
        => [Running => <<CallVariant', CallVariant>> \in SmallerPair]_vars
  BY RunningLowers
<1>3. Spec => [](CallVariant \in Nat \X Nat)
  BY TypeCorrect, VariantType, PTL
<1>4. Spec => [][Running => <<CallVariant', CallVariant>> \in SmallerPair]_vars
  BY <1>2, TypeCorrect, PTL DEF Spec
<1> QED BY <1>3, <1>4, SmallerPairs
==============================================================================
