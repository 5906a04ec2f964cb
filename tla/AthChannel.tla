----------------------------- MODULE AthChannel -----------------------------
(***************************************************************************)
(* What the callers of AthEncoding and AthDecoding (src/AthEncoding.h)     *)
(* rely on: a value is sent, and its bits come out one by one, the first   *)
(* first and each once, until the call returns with all of them.  The      *)
(* channel may lose a value, but only while it is sent.                    *)
(***************************************************************************)
EXTENDS Naturals, Sequences

CONSTANT Values   \* sequences of bits

VARIABLES value,   \* the value sent
          state,   \* "sending", "sent", "lost" or "received"
          got      \* the bits that have come out

vars == <<value, state, got>>

Init == value \in Values /\ state = "sending" /\ got = << >>

Send == /\ state = "sending"
        /\ state' \in {"sent", "lost"}
        /\ UNCHANGED <<value, got>>

\* The next bit of the value; any bit of a value that was lost.
Bit == /\ state \in {"sent", "lost"}
       /\ Len(got) < Len(value)
       /\ \E bit \in {0, 1} :
            /\ state = "sent" => bit = value[Len(got) + 1]
            /\ got' = Append(got, bit)
       /\ UNCHANGED <<value, state>>

Return == /\ state \in {"sent", "lost"}
          /\ Len(got) = Len(value)
          /\ state' = "received"
          /\ UNCHANGED <<value, got>>

Next == Send \/ Bit \/ Return

\* What the channel never does, and that it goes on.
Safety == Init /\ [][Next]_vars
Spec   == Safety /\ WF_vars(Next)
=============================================================================
