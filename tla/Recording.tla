------------------------------ MODULE Recording -------------------------------
(***************************************************************************)
(* What the encoder promises of the file, whatever happens in between: a   *)
(* block holds a frame that was captured, is labelled with that frame's    *)
(* own timestamp, and is neither older than the block before it nor the    *)
(* same frame again.  How many captured frames are saved is left open.     *)
(***************************************************************************)
EXTENDS Naturals

CONSTANTS Tracks, MaxTs

VARIABLES
  clock,     \* [Tracks -> 0 .. MaxTs]: timestamp of the last capture
  recorded   \* the last block of the file

NoBlock == [label |-> 0]

Init ==
  /\ clock = [t \in Tracks |-> 0]
  /\ recorded = NoBlock

Capture ==
  /\ \E t \in Tracks : \E n \in clock[t] + 1 .. MaxTs :
       clock' = [clock EXCEPT ![t] = n]
  /\ UNCHANGED recorded

Save ==
  /\ \E t \in Tracks : \E n \in 1 .. clock[t], key \in BOOLEAN :
       /\ n >= recorded.label
       /\ recorded # NoBlock =>
            recorded.frame.track # t \/ recorded.frame.ts < n
       /\ recorded' = [frame |-> [track |-> t, ts |-> n], label |-> n,
                       key |-> key]
  /\ UNCHANGED clock

Next == Capture \/ Save

Spec == Init /\ [][Next]_<<clock, recorded>>
=============================================================================
