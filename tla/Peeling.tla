------------------------------- MODULE Peeling -------------------------------
(***************************************************************************)
(* What a peeling decoder promises, whatever the order in which it looks   *)
(* at its droplets.                                                        *)
(*                                                                         *)
(* A code is the set of symbols XORed into one droplet.  A set of symbols  *)
(* is closed when no code has exactly one symbol outside it, that is, when *)
(* peeling cannot add to it; the decodable symbols are those in every      *)
(* closed set.  A client asks for one symbol at a time.  The decoder may   *)
(* learn decodable symbols while it works on a request, it hands out the   *)
(* requested symbol only when it knows it, and it says "notDecoded" only   *)
(* of a symbol that the codes do not determine, unless something decoded   *)
(* before is lost.  Whether it answers at all is not said here.            *)
(***************************************************************************)
CONSTANT Symbols

VARIABLES codes,      \* the codes of the droplets at hand, never changed
          mayFail,    \* whether a storage of the decoder can fail
          known,      \* the symbols decoded so far
          lost,       \* a symbol decoded before cannot be read again
          busy,       \* a request is being worked on
          requested,  \* the symbol asked for last
          outcome     \* the answer to it

vars == <<codes, mayFail, known, lost, busy, requested, outcome>>

Closed(T) == \A c \in codes, u \in Symbols : c \ T # {u}

Decodable == {s \in Symbols : \A T \in SUBSET Symbols : Closed(T) => s \in T}

Init == /\ codes \subseteq SUBSET Symbols
        /\ mayFail \in BOOLEAN
        /\ known = {}
        /\ lost = FALSE
        /\ busy = FALSE
        /\ requested \in Symbols
        /\ outcome = "pending"

\* What was lost may be there again for the next request.
Ask(s) == /\ ~busy
          /\ busy' = TRUE
          /\ requested' = s
          /\ outcome' = "pending"
          /\ lost' \in {FALSE, lost}
          /\ UNCHANGED <<codes, mayFail, known>>

LearnUpTo(newKnown) == /\ known \subseteq newKnown
                       /\ newKnown \subseteq Decodable
                       /\ known' = newKnown

MayLose == lost' \in {lost, lost \/ mayFail}

Learn == /\ busy
         /\ \E S \in SUBSET Symbols : LearnUpTo(S)
         /\ MayLose
         /\ UNCHANGED <<codes, mayFail, busy, requested, outcome>>

Answer(reply) == /\ busy
                 /\ busy' = FALSE
                 /\ outcome' = reply
                 /\ UNCHANGED <<codes, mayFail, requested>>

AnswerFound == /\ Answer("found")
               /\ \E S \in SUBSET Symbols : requested \in S /\ LearnUpTo(S)
               /\ MayLose

AnswerNotDecoded == /\ Answer("notDecoded")
                    /\ requested \notin Decodable \/ lost
                    /\ UNCHANGED <<known, lost>>

AnswerFailed == /\ mayFail
                /\ Answer("failed")
                /\ UNCHANGED <<known, lost>>

Next == \/ \E s \in Symbols : Ask(s)
        \/ Learn
        \/ AnswerFound
        \/ AnswerNotDecoded
        \/ AnswerFailed

Spec == Init /\ [][Next]_vars
==============================================================================
