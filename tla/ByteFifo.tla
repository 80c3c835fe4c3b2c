------------------------------ MODULE ByteFifo ------------------------------
(***************************************************************************)
(* What a write queue promises to a connection: bytes leave in the order   *)
(* they were committed, each one once, and a block that was handed out for *)
(* writing keeps its bytes until it is released.                           *)
(***************************************************************************)
EXTENDS Naturals, Sequences

CONSTANT ByteNames     \* number of names for bytes; used cyclically

VARIABLES nextByte,    \* name of the next byte the producer will commit
          toSend,      \* bytes committed and not yet handed out
          inFlight     \* the blocks handed out and not yet released

vars == <<nextByte, toSend, inFlight>>

\* The n bytes the producer writes next.
Fresh(n) == [i \in 1 .. n |-> (nextByte + i - 1) % ByteNames]

Init == nextByte = 0 /\ toSend = << >> /\ inFlight = << >>

Enqueue(n) ==
  /\ toSend' = toSend \o Fresh(n)
  /\ nextByte' = (nextByte + n) % ByteNames
  /\ UNCHANGED inFlight

Take(n) ==
  /\ inFlight' = Append(inFlight, SubSeq(toSend, 1, n))
  /\ toSend' = SubSeq(toSend, n + 1, Len(toSend))
  /\ UNCHANGED nextByte

Done ==
  /\ inFlight # << >>
  /\ inFlight' = Tail(inFlight)
  /\ UNCHANGED <<nextByte, toSend>>

Clear ==
  /\ toSend' = << >> /\ inFlight' = << >>
  /\ UNCHANGED nextByte

CONSTANT MaxLen        \* bound on the length of one commit

Next ==
  \/ \E n \in 1 .. MaxLen : Enqueue(n)
  \/ \E n \in 1 .. Len(toSend) : Take(n)
  \/ Done
  \/ Clear

Spec == Init /\ [][Next]_vars
=============================================================================
