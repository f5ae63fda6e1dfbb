---------------------------- MODULE PacketChannel ----------------------------
(* What an Ogg stream promises to the codec at its end: packets come out as
   they went in and in their order.  Some may be missing, but never silently:
   between two packets that do not follow each other the log has a hole, or
   the seek with which the reader itself broke the sequence.  *)
EXTENDS Integers, Sequences

CONSTANTS Hole, Seek    \* what the log says besides packet numbers

VARIABLES submitted,    \* how many packets went in
          log           \* packet numbers, holes and seeks, as they came out

channelVars == <<submitted, log>>

IsMark(entry) == entry = Hole \/ entry = Seek

Numbers == {i \in DOMAIN log : ~IsMark(log[i])}

(* The number of the last packet that came out, 0 before the first.  *)
Latest == IF Numbers = {} THEN 0 ELSE log[CHOOSE i \in Numbers : \A j \in Numbers : j <= i]

Interrupted == log # <<>> /\ IsMark(log[Len(log)])

Init == submitted = 0 /\ log = <<>>

Submit == submitted' = submitted + 1 /\ UNCHANGED log

Deliver ==
  \E k \in (Latest + 1)..submitted :
    /\ k = Latest + 1 \/ Interrupted
    /\ log' = Append(log, k)
    /\ UNCHANGED submitted

Report == \E mark \in {Hole, Seek} : log' = Append(log, mark) /\ UNCHANGED submitted

Next == Submit \/ Deliver \/ Report

Spec == Init /\ [][Next]_channelVars
=============================================================================
