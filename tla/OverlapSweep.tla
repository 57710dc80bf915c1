----------------------------- MODULE OverlapSweep -----------------------------
(***************************************************************************)
(* The timeline sweep by which reserve_lab and update_scheduled_reservation*)
(* (central/src/services/reservations.py) find how many of a user's        *)
(* entries are in force at once inside a requested slot: every entry is    *)
(* clipped to the slot and yields a +1 event at its start and a -1 event at*)
(* its end; the events are sorted by (time, delta) and summed up.  Module  *)
(* Reservations states the result, RoomForOneMore, without the sweep.      *)
(***************************************************************************)
EXTENDS Reservations, Integers, SequencesExt

Later(a, b) == IF a < b THEN b ELSE a
Sooner(a, b) == IF a < b THEN a ELSE b

\* The part of an entry inside the slot; the code skips empty parts.
Clipped(e, slot) == <<Later(slot[1], e.start), Sooner(slot[2], e.end)>>

Overlapping(S, slot) == {e \in S : Clipped(e, slot)[1] < Clipped(e, slot)[2]}

\* An event is <<time, delta, id of the entry>>.
Events(S, slot) ==
    {<<Clipped(e, slot)[1], 1, e.id>> : e \in Overlapping(S, slot)}
        \cup {<<Clipped(e, slot)[2], -1, e.id>> : e \in Overlapping(S, slot)}

\* The sort key: at equal times an end comes before a start.
BeforeMutant(a, b) == a[1] < b[1] \/ (a[1] = b[1] /\ a[2] > b[2])

Before(a, b) == a[1] < b[1] \/ (a[1] = b[1] /\ a[2] < b[2])

\* One iteration of the loop over the sorted events.
NextEvent(overlap, event) ==
    LET current == overlap.current + event[2]
    IN  [current |-> current, max |-> Later(overlap.max, current)]

\* sorted() with that key, which is stable: an event comes after those before
\* it and after the equal ones it followed in the list.
ComesFirst(s, i, j) == Before(s[i], s[j]) \/ (~Before(s[j], s[i]) /\ i <= j)

Place(s, i) == Cardinality({j \in DOMAIN s : ComesFirst(s, j, i)})

Sorted(s) == [p \in DOMAIN s |-> s[CHOOSE i \in DOMAIN s : Place(s, i) = p]]

\* The two counters after each number of events.
Loop(s) ==
    LET after[i \in 0 .. Len(s)] ==
            IF i = 0 THEN [current |-> 0, max |-> 0] ELSE NextEvent(after[i - 1], s[i])
    IN  after

MaxOverlap(S, slot) ==
    LET s == Sorted(SetToSeq(Events(S, slot)))
    IN  Loop(s)[Len(s)].max

-----------------------------------------------------------------------------
\* On whatever entries a user comes to have, and for every slot, the loop ends
\* with the largest number of entries in force at one instant of the slot:
\* entries that only touch are not added up, and nothing outside it counts.
SweepFindsPeak ==
    \A u \in Users, s \in 0 .. Horizon, h \in 1 .. MaxHours :
        LET own    == {e \in res : e.owner = u}
            counts == {Cardinality({e \in own : e.start <= t /\ t < e.end}) :
                          t \in s .. (s + h - 1)}
            peak   == MaxOverlap(own, <<s, s + h>>)
        IN  peak \in counts /\ \A c \in counts : c <= peak
=============================================================================
