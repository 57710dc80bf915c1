------------------------- MODULE ReservationsProofs -------------------------
(***************************************************************************)
(* Theorems about the reservation store, for every value of the constants. *)
(* The inductive invariant is the conjunction of the properties below: the *)
(* overlap property needs that entries are not empty (DurationsBounded),   *)
(* and that a scheduled entry was never extended (ExtendedHaveBegun),      *)
(* since moving an extended entry would carry the extension elsewhere.     *)
(* The limit of simultaneous labs (LimitInv) is stated for every instant.  *)
(* The last part is about the sweep: what its loop computes on every finite *)
(* set of entries, by induction over the events.                           *)
(***************************************************************************)
EXTENDS OverlapSweep, FiniteSetTheorems, WellFoundedInduction, TLAPS

\* Only a reservation that has begun was ever extended: a scheduled one that
\* is still to come can be moved by its owner and never carries an extension.
ExtendedHaveBegun == \A e \in res : e.extended => e.start <= now

\* The inductive invariant: it holds at first and every step keeps it.
Inv ==
    /\ TypeOK
    /\ UniqueIds
    /\ DurationsBounded
    /\ ExtendedHaveBegun
    /\ OverlapOnlyByExtension

\* The entry that ReserveLab stores.
Booked(i, u, l, s, h) ==
    [id |-> i, lab |-> l, owner |-> u, start |-> s, end |-> s + h,
     hours |-> h, extended |-> FALSE]

\* A step of the update and extend operations yields an entry again.
LEMMA ChangedEntry ==
    ASSUME NEW e \in Entry, NEW s \in Nat, NEW f \in Nat,
           NEW h \in 0 .. MaxTotalHours, NEW b \in BOOLEAN
    PROVE  /\ [e EXCEPT !.start = s, !.end = f, !.hours = h] \in Entry
           /\ [e EXCEPT !.end = f, !.hours = h, !.extended = b] \in Entry
  BY DEF Entry

-----------------------------------------------------------------------------

\* Dropping entries, whether by expiry, cancellation or release, keeps every
\* part of the invariant.
LEMMA RemovalKeepsInv ==
    ASSUME Inv, res' \subseteq res, now' = now
    PROVE  Inv'
  BY DEF Inv, TypeOK, UniqueIds, DurationsBounded, ExtendedHaveBegun,
         OverlapOnlyByExtension, Overlaps

\* A scheduled entry was never extended.
LEMMA ScheduledNotExtended ==
    ASSUME Inv, NEW l \in Labs, NEW e \in ScheduledOn(l)
    PROVE  e \in res /\ e \in Entry /\ ~e.extended
  BY DEF Inv, TypeOK, ExtendedHaveBegun, ScheduledOn, Unexpired, Entry

\* Adding to a part S of the store one entry that has a fresh id, respects
\* the limits, is not an extension and finds the lab free keeps the invariant.
LEMMA AdditionKeepsInv ==
    ASSUME Inv, now' = now,
           NEW S \in SUBSET res, NEW n \in Entry,
           res' = S \cup {n},
           \A e \in S : e.id # n.id,
           n.hours > 0, n.hours <= MaxHours, n.end = n.start + n.hours,
           n.extended = FALSE,
           LabFreeFor(S, n.owner, n.lab, n.start, n.end)
    PROVE  Inv'
<1>1. TypeOK'
  BY DEF Inv, TypeOK
<1>2. UniqueIds'
  BY DEF Inv, UniqueIds
<1>3. DurationsBounded'
  BY LimitsAssumption DEF Inv, DurationsBounded, TypeOK, Entry
<1>4. ExtendedHaveBegun'
  BY DEF Inv, ExtendedHaveBegun
<1>5. OverlapOnlyByExtension'
  <2> SUFFICES ASSUME NEW e \in res', NEW f \in res',
                      e.lab = f.lab, e.owner # f.owner,
                      Overlaps(e.start, e.end, f.start, f.end),
                      e.start <= f.start
               PROVE  e.extended
    BY DEF OverlapOnlyByExtension, Overlaps
  <2>1. CASE e \in S /\ f \in S
    BY <2>1 DEF Inv, OverlapOnlyByExtension
  <2>2. CASE e = n /\ f \in S
    BY <2>2 DEF LabFreeFor
  <2>3. CASE e \in S /\ f = n
    BY <2>3 DEF LabFreeFor, Overlaps
  <2>4. CASE e = n /\ f = n
    BY <2>4
  <2> QED
    BY <2>1, <2>2, <2>3, <2>4
<1> QED
  BY <1>1, <1>2, <1>3, <1>4, <1>5 DEF Inv

-----------------------------------------------------------------------------

LEMMA TickKeepsInv ==
    ASSUME Inv, Tick
    PROVE  Inv'
  BY DEF Tick, Inv, TypeOK, UniqueIds, DurationsBounded, ExtendedHaveBegun,
         OverlapOnlyByExtension, Overlaps, Entry

LEMMA ReserveKeepsInv ==
    ASSUME Inv, NEW u \in Users, NEW l \in Labs, NEW s \in 0 .. Horizon,
           NEW h \in 0 .. MaxHours + 1, ReserveLab(u, l, s, h)
    PROVE  Inv'
<1> DEFINE start == IF s < now THEN now ELSE s
           S == Unexpired \ ReplacedBy(u, l, start, start + h)
<1>1. now \in Nat /\ start \in Nat /\ h \in Nat
  BY LimitsAssumption DEF Inv, TypeOK
<1>2. PICK i \in FreshIds : res' = S \cup {Booked(i, u, l, start, h)}
  BY DEF ReserveLab, Booked
<1> DEFINE n == Booked(i, u, l, start, h)
<1>3. i \in Ids /\ (\A e \in res : e.id # i)
  BY <1>2 DEF FreshIds
<1>4. n \in Entry
  <2>1. h \in 0 .. MaxTotalHours
    BY <1>1, LimitsAssumption DEF ReserveLab, ValidHours
  <2>2. start + h \in Nat
    BY <1>1
  <2> QED
    BY <1>1, <1>3, <2>1, <2>2 DEF Booked, Entry
<1>5. /\ n.id = i /\ n.owner = u /\ n.lab = l /\ n.start = start
      /\ n.end = start + h /\ n.hours = h /\ n.extended = FALSE
  BY DEF Booked
<1>6. S \in SUBSET res
  BY DEF Unexpired
<1>7. LabFreeFor(S, u, l, start, start + h)
  BY DEF ReserveLab, LabFreeFor
<1>8. now' = now /\ h > 0 /\ h <= MaxHours
  BY DEF ReserveLab, ValidHours
<1> HIDE DEF S, n, start
<1> QED
  BY AdditionKeepsInv, <1>2, <1>3, <1>4, <1>5, <1>6, <1>7, <1>8 DEF n

LEMMA UpdateKeepsInv ==
    ASSUME Inv, NEW l \in Labs, NEW i \in Ids, NEW s \in 0 .. Horizon,
           NEW h \in 0 .. MaxHours + 1, UpdateScheduled(l, i, s, h)
    PROVE  Inv'
<1>1. PICK e \in ScheduledOn(l) :
        /\ now' = now /\ h > 0 /\ h <= MaxHours
        /\ LabFreeFor(Unexpired \ {e}, e.owner, l, s, s + h)
        /\ res' = (Unexpired \ {e}) \cup
                    {[e EXCEPT !.start = s, !.end = s + h, !.hours = h]}
  BY DEF UpdateScheduled, ValidHours
<1> DEFINE n == [e EXCEPT !.start = s, !.end = s + h, !.hours = h]
           S == Unexpired \ {e}
<1>2. e \in res /\ e \in Entry /\ ~e.extended /\ e.lab = l
  BY ScheduledNotExtended DEF ScheduledOn
<1>3. s \in Nat /\ h \in Nat
  BY LimitsAssumption
<1>4. n \in Entry
  <2>1. s + h \in Nat /\ h \in 0 .. MaxTotalHours
    BY <1>1, <1>3, LimitsAssumption
  <2> QED
    BY <1>2, <1>3, <2>1, ChangedEntry
<1>5. /\ n.id = e.id /\ n.owner = e.owner /\ n.lab = l /\ n.start = s
      /\ n.end = s + h /\ n.hours = h /\ n.extended = FALSE
  BY <1>2 DEF Entry
<1>6. S \in SUBSET res
  BY DEF Unexpired
<1>7. \A f \in S : f.id # n.id
  BY <1>2, <1>5, <1>6 DEF Inv, UniqueIds
<1>8. now' = now /\ h > 0 /\ h <= MaxHours /\ res' = S \cup {n}
  BY <1>1
<1>9. LabFreeFor(S, e.owner, l, s, s + h)
  BY <1>1
<1> HIDE DEF n, S
<1> QED
  BY AdditionKeepsInv, <1>4, <1>5, <1>6, <1>7, <1>8, <1>9

LEMMA ExtendKeepsInv ==
    ASSUME Inv, NEW l \in Labs, NEW a \in 0 .. MaxTotalHours,
           ExtendReservation(l, a)
    PROVE  Inv'
<1>1. PICK e \in FirstActive(l) :
        \E t \in 0 .. MaxTotalHours :
            /\ now' = now /\ a > 0
            /\ res' = (Unexpired \ {e}) \cup
                        {[e EXCEPT !.end = @ + a, !.hours = t, !.extended = TRUE]}
  BY DEF ExtendReservation, ExtensionAllowed, Rounded
<1>0. PICK t \in 0 .. MaxTotalHours :
        /\ now' = now /\ a > 0
        /\ res' = (Unexpired \ {e}) \cup
                    {[e EXCEPT !.end = @ + a, !.hours = t, !.extended = TRUE]}
  BY <1>1
<1> DEFINE n == [e EXCEPT !.end = @ + a, !.hours = t, !.extended = TRUE]
           S == Unexpired \ {e}
<1>2. e \in res /\ e \in Entry /\ e.start <= now
  BY DEF FirstActive, ActiveOn, IsActive, Unexpired, Inv, TypeOK
<1>3. a \in Nat /\ MaxTotalHours \in Nat
  BY LimitsAssumption
<1>4. n \in Entry
  <2>1. e.end + a \in Nat
    BY <1>2, <1>3 DEF Entry
  <2> QED
    BY <1>2, <2>1, ChangedEntry
<1>5. /\ n.id = e.id /\ n.owner = e.owner /\ n.lab = e.lab
      /\ n.start = e.start /\ n.end = e.end + a
      /\ n.extended = TRUE
  BY <1>2 DEF Entry
<1>6. S \subseteq res /\ e \notin S
  BY DEF Unexpired
<1>7. now' = now /\ a > 0 /\ res' = S \cup {n}
  BY <1>0
<1> HIDE DEF n, S
<1>8. TypeOK'
  BY <1>4, <1>6, <1>7 DEF Inv, TypeOK
<1>9. UniqueIds'
  BY <1>2, <1>5, <1>6, <1>7 DEF Inv, UniqueIds
<1>10. DurationsBounded'
  BY <1>2, <1>3, <1>5, <1>6, <1>7 DEF Inv, DurationsBounded, Entry
<1>11. ExtendedHaveBegun'
  BY <1>2, <1>5, <1>6, <1>7 DEF Inv, ExtendedHaveBegun
<1>12. OverlapOnlyByExtension'
  <2> SUFFICES ASSUME NEW x \in res', NEW y \in res',
                      x.lab = y.lab, x.owner # y.owner,
                      Overlaps(x.start, x.end, y.start, y.end),
                      x.start <= y.start
               PROVE  x.extended
    BY DEF OverlapOnlyByExtension, Overlaps
  <2>1. CASE x \in S /\ y \in S
    BY <2>1, <1>6 DEF Inv, OverlapOnlyByExtension
  <2>2. CASE x = n
    BY <2>2, <1>5
  <2>3. CASE x \in S /\ y = n
    \* x begins first and already reached into the entry before it grew.
    <3>1. x \in res /\ x \in Entry
      BY <2>3, <1>6 DEF Inv, TypeOK
    <3>2. Overlaps(x.start, x.end, e.start, e.end)
      BY <2>3, <3>1, <1>2, <1>5 DEF Overlaps, Inv, DurationsBounded, Entry
    <3> QED
      BY <2>3, <3>1, <3>2, <1>2, <1>5 DEF Inv, OverlapOnlyByExtension
  <2> QED
    BY <1>7, <2>1, <2>2, <2>3
<1> QED
  BY <1>8, <1>9, <1>10, <1>11, <1>12 DEF Inv

LEMMA NextKeepsInv == Inv /\ [Next]_resVars => Inv'
<1> SUFFICES ASSUME Inv, [Next]_resVars
             PROVE  Inv'
  OBVIOUS
<1>1. CASE Tick
  BY <1>1, TickKeepsInv
<1>2. CASE Prune
  BY <1>2, RemovalKeepsInv DEF Prune, Unexpired
<1>3. ASSUME NEW u \in Users, NEW l \in Labs, NEW s \in 0 .. Horizon,
             NEW h \in 0 .. MaxHours + 1, ReserveLab(u, l, s, h)
      PROVE  Inv'
  BY <1>3, ReserveKeepsInv
<1>4. ASSUME NEW l \in Labs, NEW i \in Ids, NEW s \in 0 .. Horizon,
             NEW h \in 0 .. MaxHours + 1, UpdateScheduled(l, i, s, h)
      PROVE  Inv'
  BY <1>4, UpdateKeepsInv
<1>5. ASSUME NEW l \in Labs, NEW i \in Ids, CancelScheduled(l, i)
      PROVE  Inv'
  BY <1>5, RemovalKeepsInv DEF CancelScheduled, Unexpired
<1>6. ASSUME NEW l \in Labs, NEW a \in 0 .. MaxTotalHours, ExtendReservation(l, a)
      PROVE  Inv'
  BY <1>6, ExtendKeepsInv
<1>7. ASSUME NEW l \in Labs, ReleaseLab(l)
      PROVE  Inv'
  BY <1>7, RemovalKeepsInv DEF ReleaseLab, Unexpired
<1>8. CASE UNCHANGED resVars
  BY <1>8, RemovalKeepsInv DEF resVars
<1> QED
  BY <1>1, <1>2, <1>3, <1>4, <1>5, <1>6, <1>7, <1>8 DEF Next

-----------------------------------------------------------------------------

\* The store stays well formed and the inductive invariant holds in every
\* reachable state.
THEOREM InvHolds == Spec => []Inv
<1>1. Init => Inv
  BY DEF Init, Inv, TypeOK, UniqueIds, DurationsBounded, ExtendedHaveBegun,
         OverlapOnlyByExtension
<1> QED
  BY <1>1, NextKeepsInv, PTL DEF Spec

\* Every entry keeps the shape reserve_lab gives it.
THEOREM TypeCorrect == Spec => []TypeOK
  BY InvHolds, PTL DEF Inv

\* Reservation ids stay unique.
THEOREM IdsStayUnique == Spec => []UniqueIds
  BY InvHolds, PTL DEF Inv

\* No entry is ever empty, and one that was never extended, moved or not, ends
\* after its hours, which are at most those of a booking.
THEOREM DurationsStayBounded == Spec => []DurationsBounded
  BY InvHolds, PTL DEF Inv

\* Creating and moving reservations never let two users onto one lab: only an
\* extension of the earlier reservation does.
THEOREM LabExclusiveButForExtension == Spec => []OverlapOnlyByExtension
  BY InvHolds, PTL DEF Inv

-----------------------------------------------------------------------------

\* The two action properties, as relations between a state and the next.
BegunKeptStep ==
    \A e \in res, f \in res' :
        e.id = f.id /\ e.start <= now =>
            /\ f.lab = e.lab /\ f.owner = e.owner /\ f.start = e.start
            /\ f.end >= e.end

DisplacesOnlyOwnStep ==
    \A n \in res' : n.id \notin {e.id : e \in res} =>
        \A e \in Unexpired :
            e.id \notin {f.id : f \in res'} => e.owner = n.owner /\ e.lab = n.lab

LEMMA SubsetStep ==
    ASSUME Inv, res' \subseteq res
    PROVE  BegunKeptStep /\ DisplacesOnlyOwnStep
  BY DEF BegunKeptStep, DisplacesOnlyOwnStep, Inv, UniqueIds, TypeOK, Entry

LEMMA ReserveStep ==
    ASSUME Inv, NEW u \in Users, NEW l \in Labs, NEW s \in 0 .. Horizon,
           NEW h \in 0 .. MaxHours + 1, ReserveLab(u, l, s, h)
    PROVE  BegunKeptStep /\ DisplacesOnlyOwnStep
<1> DEFINE start == IF s < now THEN now ELSE s
           R == ReplacedBy(u, l, start, start + h)
<1>1. PICK i \in FreshIds : res' = (Unexpired \ R) \cup {Booked(i, u, l, start, h)}
  BY DEF ReserveLab, Booked
<1> DEFINE n == Booked(i, u, l, start, h)
<1>2. \A e \in res : e.id # i
  BY <1>1 DEF FreshIds
<1>3. n.id = i /\ n.owner = u /\ n.lab = l
  BY DEF Booked
<1>4. Unexpired \subseteq res
  BY DEF Unexpired
<1>5. \A e \in R : e.owner = u /\ e.lab = l
  BY DEF ReplacedBy
<1> HIDE DEF n, R, start
<1>6. BegunKeptStep
  <2> SUFFICES ASSUME NEW e \in res, NEW f \in res', e.id = f.id, e.start <= now
               PROVE  e = f /\ f.end >= e.end
    BY DEF BegunKeptStep
  <2>1. f \in res
    BY <1>1, <1>2, <1>3, <1>4 DEF n
  <2> QED
    BY <2>1 DEF Inv, UniqueIds, TypeOK, Entry
<1>7. DisplacesOnlyOwnStep
  <2> SUFFICES ASSUME NEW m \in res', m.id \notin {e.id : e \in res},
                      NEW e \in Unexpired, e.id \notin {f.id : f \in res'}
               PROVE  e.owner = m.owner /\ e.lab = m.lab
    BY DEF DisplacesOnlyOwnStep
  <2>1. m = n
    BY <1>1, <1>4 DEF n
  <2>2. e \in R
    BY <1>1
  <2> QED
    BY <2>1, <2>2, <1>3, <1>5
<1> QED
  BY <1>6, <1>7

\* A step that replaces one stored entry by a changed one with the same id.
LEMMA ReplaceStep ==
    ASSUME Inv, NEW e \in res, NEW n,
           res' = (Unexpired \ {e}) \cup {n}, n.id = e.id,
           e.start <= now => /\ n.lab = e.lab /\ n.owner = e.owner
                             /\ n.start = e.start /\ n.end >= e.end
    PROVE  BegunKeptStep /\ DisplacesOnlyOwnStep
<1>1. Unexpired \subseteq res
  BY DEF Unexpired
<1>2. BegunKeptStep
  <2> SUFFICES ASSUME NEW x \in res, NEW f \in res', x.id = f.id, x.start <= now
               PROVE  /\ f.lab = x.lab /\ f.owner = x.owner
                      /\ f.start = x.start /\ f.end >= x.end
    BY DEF BegunKeptStep
  <2>1. CASE f \in res
    BY <2>1 DEF Inv, UniqueIds, TypeOK, Entry
  <2>2. CASE f = n
    <3>1. x = e
      BY <2>2 DEF Inv, UniqueIds
    <3> QED
      BY <2>2, <3>1
  <2> QED
    BY <1>1, <2>1, <2>2
<1>3. DisplacesOnlyOwnStep
  BY <1>1 DEF DisplacesOnlyOwnStep
<1> QED
  BY <1>2, <1>3

LEMMA UpdateStep ==
    ASSUME Inv, NEW l \in Labs, NEW i \in Ids, NEW s \in 0 .. Horizon,
           NEW h \in 0 .. MaxHours + 1, UpdateScheduled(l, i, s, h)
    PROVE  BegunKeptStep /\ DisplacesOnlyOwnStep
<1>1. PICK e \in ScheduledOn(l) :
        res' = (Unexpired \ {e}) \cup
                 {[e EXCEPT !.start = s, !.end = s + h, !.hours = h]}
  BY DEF UpdateScheduled
<1> DEFINE n == [e EXCEPT !.start = s, !.end = s + h, !.hours = h]
<1>2. e \in res /\ e \in Entry /\ e.start > now
  BY DEF ScheduledOn, Unexpired, Inv, TypeOK
<1>3. n.id = e.id
  BY <1>2 DEF Entry
<1>4. ~(e.start <= now)
  BY <1>2 DEF Entry, Inv, TypeOK
<1>5. res' = (Unexpired \ {e}) \cup {n}
  BY <1>1
<1> HIDE DEF n
<1> QED
  BY <1>2, <1>3, <1>4, <1>5, ReplaceStep

LEMMA ExtendStep ==
    ASSUME Inv, NEW l \in Labs, NEW a \in 0 .. MaxTotalHours,
           ExtendReservation(l, a)
    PROVE  BegunKeptStep /\ DisplacesOnlyOwnStep
<1>1. PICK e \in FirstActive(l) :
        \E t \in 0 .. MaxTotalHours :
            res' = (Unexpired \ {e}) \cup
                     {[e EXCEPT !.end = @ + a, !.hours = t, !.extended = TRUE]}
  BY DEF ExtendReservation, Rounded
<1>0. PICK t \in 0 .. MaxTotalHours :
        res' = (Unexpired \ {e}) \cup
                 {[e EXCEPT !.end = @ + a, !.hours = t, !.extended = TRUE]}
  BY <1>1
<1> DEFINE n == [e EXCEPT !.end = @ + a, !.hours = t, !.extended = TRUE]
<1>2. e \in res /\ e \in Entry
  BY DEF FirstActive, ActiveOn, Unexpired, Inv, TypeOK
<1>3. /\ n.id = e.id /\ n.owner = e.owner /\ n.lab = e.lab
      /\ n.start = e.start /\ n.end = e.end + a
  BY <1>2 DEF Entry
<1>4. n.end >= e.end
  BY <1>2, <1>3, LimitsAssumption DEF Entry
<1>5. res' = (Unexpired \ {e}) \cup {n}
  BY <1>0
<1> HIDE DEF n
<1> QED
  BY <1>2, <1>3, <1>4, <1>5, ReplaceStep

LEMMA EveryStep == Inv /\ [Next]_resVars => BegunKeptStep /\ DisplacesOnlyOwnStep
<1> SUFFICES ASSUME Inv, [Next]_resVars
             PROVE  BegunKeptStep /\ DisplacesOnlyOwnStep
  OBVIOUS
<1>1. CASE res' \subseteq res
  BY <1>1, SubsetStep
<1>2. ASSUME NEW u \in Users, NEW l \in Labs, NEW s \in 0 .. Horizon,
             NEW h \in 0 .. MaxHours + 1, ReserveLab(u, l, s, h)
      PROVE  BegunKeptStep /\ DisplacesOnlyOwnStep
  BY <1>2, ReserveStep
<1>3. ASSUME NEW l \in Labs, NEW i \in Ids, NEW s \in 0 .. Horizon,
             NEW h \in 0 .. MaxHours + 1, UpdateScheduled(l, i, s, h)
      PROVE  BegunKeptStep /\ DisplacesOnlyOwnStep
  BY <1>3, UpdateStep
<1>4. ASSUME NEW l \in Labs, NEW a \in 0 .. MaxTotalHours, ExtendReservation(l, a)
      PROVE  BegunKeptStep /\ DisplacesOnlyOwnStep
  BY <1>4, ExtendStep
<1>5. \/ Tick \/ Prune \/ UNCHANGED resVars
      \/ (\E l \in Labs, i \in Ids : CancelScheduled(l, i))
      \/ (\E l \in Labs : ReleaseLab(l))
      => res' \subseteq res
  BY DEF Tick, Prune, CancelScheduled, ReleaseLab, Unexpired, resVars
<1> QED
  BY <1>1, <1>2, <1>3, <1>4, <1>5 DEF Next

\* A reservation that has begun keeps its lab, owner and start and never loses
\* time; only release or expiry ends it.
THEOREM BegunReservationsAreKept == Spec => BegunReservationsKept
<1>1. Inv /\ [Next]_resVars => [BegunKeptStep]_resVars
  BY EveryStep
<1> QED
  BY <1>1, InvHolds, PTL DEF Spec, BegunReservationsKept, BegunKeptStep

\* A booking displaces nobody but its own owner, and only on the same lab.
THEOREM BookingsDisplaceOnlyOwn == Spec => BookingDisplacesOnlyOwn
<1>1. Inv /\ [Next]_resVars => [DisplacesOnlyOwnStep]_resVars
  BY EveryStep
<1> QED
  BY <1>1, InvHolds, PTL DEF Spec, BookingDisplacesOnlyOwn, DisplacesOnlyOwnStep

-----------------------------------------------------------------------------
(* The limit of simultaneous labs.  The sweep of reserve_lab counts entries *)
(* while the limit is about labs: the proof goes through the image of the   *)
(* counted entries under their lab.                                         *)

\* The labs that user u holds at the instant t by unextended entries of S.
Held(S, u, t) ==
    {l \in Labs : \E e \in S :
        e.lab = l /\ e.owner = u /\ ~e.extended /\ e.start <= t /\ t < e.end}

\* The limit at every instant, also beyond the ones TLC looks at.
LimitInv ==
    /\ Inv
    /\ IsFiniteSet(res)
    /\ \A u \in Users, t \in Nat : Cardinality(Held(res, u, t)) <= MaxSimultaneous

\* The labs of finitely many entries are no more than the entries.
LEMMA LabsOfEntries ==
    ASSUME NEW S \in SUBSET Entry, IsFiniteSet(S)
    PROVE  LET T == {e.lab : e \in S} IN
           /\ IsFiniteSet(T) /\ Cardinality(T) \in Nat /\ Cardinality(S) \in Nat
           /\ Cardinality(T) <= Cardinality(S)
<1> DEFINE T == {e.lab : e \in S}
           f == [e \in S |-> e.lab]
<1>1. f \in Surjection(S, T)
  <2>1. f \in [S -> T]
    OBVIOUS
  <2>2. \A y \in T : \E e \in S : f[e] = y
    OBVIOUS
  <2> QED BY <2>1, <2>2 DEF Surjection
<1> HIDE DEF f, T
<1>2. IsFiniteSet(T) /\ Cardinality(T) <= Cardinality(S)
  BY <1>1, FS_Surjection
<1> QED BY <1>2, FS_CardinalityType DEF T

\* Fewer entries hold fewer labs.
LEMMA HeldFewer ==
    ASSUME NEW S \in SUBSET Entry, IsFiniteSet(S), NEW u, NEW t, NEW v, NEW w,
           NEW R, Held(R, v, w) \subseteq Held(S, u, t)
    PROVE  /\ IsFiniteSet(Held(R, v, w))
           /\ Cardinality(Held(R, v, w)) \in Nat /\ Cardinality(Held(S, u, t)) \in Nat
           /\ Cardinality(Held(R, v, w)) <= Cardinality(Held(S, u, t))
<1>1. IsFiniteSet({e.lab : e \in S})
  BY LabsOfEntries
<1>2. Held(S, u, t) \in SUBSET {e.lab : e \in S}
  BY DEF Held
<1>3. IsFiniteSet(Held(S, u, t))
  BY <1>1, <1>2, FS_Subset
<1>4. Held(R, v, w) \in SUBSET Held(S, u, t)
  OBVIOUS
<1>5. IsFiniteSet(Held(R, v, w)) /\ Cardinality(Held(R, v, w)) <= Cardinality(Held(S, u, t))
  BY <1>3, <1>4, FS_Subset
<1> QED BY <1>3, <1>5, FS_CardinalityType

\* A step in which nobody comes to hold more labs keeps the limit.
LEMMA NobodyHoldsMore ==
    ASSUME LimitInv, Inv', IsFiniteSet(res'),
           \A u \in Users, t \in Nat : Held(res', u, t) \subseteq Held(res, u, t)
    PROVE  LimitInv'
<1>1. res \in SUBSET Entry /\ IsFiniteSet(res)
  BY DEF LimitInv, Inv, TypeOK
<1>2. ASSUME NEW u \in Users, NEW t \in Nat
      PROVE  Cardinality(Held(res', u, t)) <= MaxSimultaneous
  <2>1. /\ Cardinality(Held(res', u, t)) \in Nat /\ Cardinality(Held(res, u, t)) \in Nat
        /\ Cardinality(Held(res', u, t)) <= Cardinality(Held(res, u, t))
    BY <1>1, HeldFewer
  <2>2. Cardinality(Held(res, u, t)) <= MaxSimultaneous
    BY DEF LimitInv
  <2> QED BY <2>1, <2>2, LimitsAssumption
<1> QED BY <1>2 DEF LimitInv

LEMMA RemovalKeepsLimit ==
    ASSUME LimitInv, Inv', res' \subseteq res
    PROVE  LimitInv'
<1>1. IsFiniteSet(res')
  BY FS_Subset DEF LimitInv
<1>2. \A u \in Users, t \in Nat : Held(res', u, t) \subseteq Held(res, u, t)
  BY DEF Held
<1> QED BY <1>1, <1>2, NobodyHoldsMore

\* A new or moved entry n, the sweep having found room beside the entries C of
\* its owner.  Entries on n's own lab need not be counted.
LEMMA AdditionKeepsLimit ==
    ASSUME LimitInv, Inv', NEW S \in SUBSET res, NEW n \in Entry, res' = S \cup {n},
           NEW C \in SUBSET S,
           \A e \in S : e.owner = n.owner /\ e.lab # n.lab => e \in C,
           RoomForOneMore(C, n.start, n.end)
    PROVE  LimitInv'
<1>1. res \in SUBSET Entry /\ S \in SUBSET Entry /\ IsFiniteSet(res)
  BY DEF LimitInv, Inv, TypeOK
<1>2. IsFiniteSet(S) /\ IsFiniteSet(res')
  BY <1>1, FS_Subset, FS_AddElement
<1>3. ASSUME NEW u \in Users, NEW t \in Nat
      PROVE  Cardinality(Held(res', u, t)) <= MaxSimultaneous
  <2>1. CASE u # n.owner \/ ~(n.start <= t /\ t < n.end)
    <3>1. Held(res', u, t) \subseteq Held(res, u, t)
      BY <2>1 DEF Held
    <3>2. /\ Cardinality(Held(res', u, t)) \in Nat /\ Cardinality(Held(res, u, t)) \in Nat
          /\ Cardinality(Held(res', u, t)) <= Cardinality(Held(res, u, t))
      BY <1>1, <3>1, HeldFewer
    <3>3. Cardinality(Held(res, u, t)) <= MaxSimultaneous
      BY DEF LimitInv
    <3> QED BY <3>2, <3>3, LimitsAssumption
  <2>2. CASE u = n.owner /\ n.start <= t /\ t < n.end
    <3> DEFINE D == {e \in C : e.start <= t /\ t < e.end}
               T == {e.lab : e \in D}
    <3>1. D \in SUBSET Entry /\ IsFiniteSet(D)
      <4>1. D \in SUBSET S
        OBVIOUS
      <4> QED BY <1>1, <1>2, <4>1, FS_Subset
    <3>2. /\ IsFiniteSet(T) /\ Cardinality(T) \in Nat /\ Cardinality(D) \in Nat
          /\ Cardinality(T) <= Cardinality(D)
      BY <3>1, LabsOfEntries
    <3>3. Cardinality(D) + 1 <= MaxSimultaneous
      <4>1. t \in n.start .. (n.end - 1)
        BY <2>2 DEF Entry
      <4> QED BY <4>1 DEF RoomForOneMore
    <3>4. Held(res', u, t) \in SUBSET (T \cup {n.lab})
      BY <2>2 DEF Held
    <3> HIDE DEF T, D
    <3>5. /\ IsFiniteSet(T \cup {n.lab})
          /\ Cardinality(T \cup {n.lab}) =
                IF n.lab \in T THEN Cardinality(T) ELSE Cardinality(T) + 1
      BY <3>2, FS_AddElement
    <3>6. /\ IsFiniteSet(Held(res', u, t))
          /\ Cardinality(Held(res', u, t)) <= Cardinality(T \cup {n.lab})
      BY <3>4, <3>5, FS_Subset
    <3>7. Cardinality(Held(res', u, t)) \in Nat
      BY <3>6, FS_CardinalityType
    <3> QED BY <3>2, <3>3, <3>5, <3>6, <3>7, LimitsAssumption
  <2> QED BY <2>1, <2>2
<1> QED BY <1>2, <1>3 DEF LimitInv

LEMMA ReserveKeepsLimit ==
    ASSUME LimitInv, Inv', NEW u \in Users, NEW l \in Labs, NEW s \in 0 .. Horizon,
           NEW h \in 0 .. MaxHours + 1, ReserveLab(u, l, s, h)
    PROVE  LimitInv'
<1> DEFINE start == IF s < now THEN now ELSE s
           S == Unexpired \ ReplacedBy(u, l, start, start + h)
           C == {e \in Unexpired : e.owner = u /\ e.lab # l}
<1>1. PICK i \in FreshIds : res' = S \cup {Booked(i, u, l, start, h)}
  BY DEF ReserveLab, Booked
<1> DEFINE n == Booked(i, u, l, start, h)
<1>2. n \in Entry
  BY <1>1 DEF Inv, TypeOK
<1>3. n.owner = u /\ n.lab = l /\ n.start = start /\ n.end = start + h
  BY DEF Booked
<1>4. S \in SUBSET res /\ C \in SUBSET S
  BY DEF Unexpired, ReplacedBy
<1>5. \A e \in S : e.owner = u /\ e.lab # l => e \in C
  OBVIOUS
<1>6. RoomForOneMore(C, start, start + h)
  BY DEF ReserveLab
<1>7. res' = S \cup {n}
  BY <1>1
<1> HIDE DEF S, n, start, C
<1>8. /\ \A e \in S : e.owner = n.owner /\ e.lab # n.lab => e \in C
      /\ RoomForOneMore(C, n.start, n.end)
  BY <1>3, <1>5, <1>6
<1> QED BY AdditionKeepsLimit, <1>2, <1>4, <1>7, <1>8

LEMMA UpdateKeepsLimit ==
    ASSUME LimitInv, Inv', NEW l \in Labs, NEW i \in Ids, NEW s \in 0 .. Horizon,
           NEW h \in 0 .. MaxHours + 1, UpdateScheduled(l, i, s, h)
    PROVE  LimitInv'
<1>1. PICK e \in ScheduledOn(l) :
        /\ RoomForOneMore({f \in Unexpired \ {e} : f.owner = e.owner}, s, s + h)
        /\ res' = (Unexpired \ {e}) \cup
                    {[e EXCEPT !.start = s, !.end = s + h, !.hours = h]}
  BY DEF UpdateScheduled
<1> DEFINE n == [e EXCEPT !.start = s, !.end = s + h, !.hours = h]
           S == Unexpired \ {e}
           C == {f \in S : f.owner = e.owner}
<1>2. e \in Entry
  BY DEF ScheduledOn, Unexpired, LimitInv, Inv, TypeOK
<1>3. n.owner = e.owner /\ n.start = s /\ n.end = s + h
  BY <1>2 DEF Entry
<1>4. n \in Entry /\ res' = S \cup {n}
  BY <1>1 DEF Inv, TypeOK
<1>5. S \in SUBSET res /\ C \in SUBSET S /\ RoomForOneMore(C, s, s + h)
  BY <1>1 DEF Unexpired
<1>6. \A f \in S : f.owner = e.owner /\ f.lab # n.lab => f \in C
  OBVIOUS
<1> HIDE DEF n, S, C
<1>7. /\ \A f \in S : f.owner = n.owner /\ f.lab # n.lab => f \in C
      /\ RoomForOneMore(C, n.start, n.end)
  BY <1>3, <1>5, <1>6
<1> QED BY AdditionKeepsLimit, <1>4, <1>5, <1>7

\* An extended entry no longer counts.
LEMMA ExtendKeepsLimit ==
    ASSUME LimitInv, Inv', NEW l \in Labs, NEW a \in 0 .. MaxTotalHours,
           ExtendReservation(l, a)
    PROVE  LimitInv'
<1>1. PICK e \in FirstActive(l) :
        \E total \in 0 .. MaxTotalHours :
            res' = (Unexpired \ {e}) \cup
                     {[e EXCEPT !.end = @ + a, !.hours = total, !.extended = TRUE]}
  BY DEF ExtendReservation, Rounded
<1>0. PICK total \in 0 .. MaxTotalHours :
        res' = (Unexpired \ {e}) \cup
                 {[e EXCEPT !.end = @ + a, !.hours = total, !.extended = TRUE]}
  BY <1>1
<1> DEFINE n == [e EXCEPT !.end = @ + a, !.hours = total, !.extended = TRUE]
<1>2. e \in Entry
  BY DEF FirstActive, ActiveOn, Unexpired, LimitInv, Inv, TypeOK
<1>3. n.extended = TRUE
  BY <1>2 DEF Entry
<1>4. res' = (Unexpired \ {e}) \cup {n} /\ (Unexpired \ {e}) \in SUBSET res
  BY <1>0 DEF Unexpired
<1> HIDE DEF n
<1>5. IsFiniteSet(res')
  <2>1. IsFiniteSet(Unexpired \ {e})
    BY <1>4, FS_Subset DEF LimitInv
  <2> QED BY <1>4, <2>1, FS_AddElement
<1>6. \A u \in Users, t \in Nat : Held(res', u, t) \subseteq Held(res, u, t)
  BY <1>3, <1>4 DEF Held
<1> QED BY <1>5, <1>6, NobodyHoldsMore

LEMMA NextKeepsLimit == LimitInv /\ [Next]_resVars => LimitInv'
<1> SUFFICES ASSUME LimitInv, [Next]_resVars
             PROVE  LimitInv'
  OBVIOUS
<1>1. Inv'
  BY NextKeepsInv DEF LimitInv
<1>2. CASE res' \subseteq res
  BY <1>1, <1>2, RemovalKeepsLimit
<1>3. ASSUME NEW u \in Users, NEW l \in Labs, NEW s \in 0 .. Horizon,
             NEW h \in 0 .. MaxHours + 1, ReserveLab(u, l, s, h)
      PROVE  LimitInv'
  BY <1>1, <1>3, ReserveKeepsLimit
<1>4. ASSUME NEW l \in Labs, NEW i \in Ids, NEW s \in 0 .. Horizon,
             NEW h \in 0 .. MaxHours + 1, UpdateScheduled(l, i, s, h)
      PROVE  LimitInv'
  BY <1>1, <1>4, UpdateKeepsLimit
<1>5. ASSUME NEW l \in Labs, NEW a \in 0 .. MaxTotalHours, ExtendReservation(l, a)
      PROVE  LimitInv'
  BY <1>1, <1>5, ExtendKeepsLimit
<1>6. \/ Tick \/ Prune \/ UNCHANGED resVars
      \/ (\E l \in Labs, i \in Ids : CancelScheduled(l, i))
      \/ (\E l \in Labs : ReleaseLab(l))
      => res' \subseteq res
  BY DEF Tick, Prune, CancelScheduled, ReleaseLab, Unexpired, resVars
<1> QED
  BY <1>2, <1>3, <1>4, <1>5, <1>6 DEF Next

LEMMA LimitAtFirst == Init => LimitInv
<1> SUFFICES ASSUME Init PROVE LimitInv
  OBVIOUS
<1>1. Inv
  BY DEF Init, Inv, TypeOK, UniqueIds, DurationsBounded, ExtendedHaveBegun,
         OverlapOnlyByExtension
<1>2. \A u \in Users, t \in Nat : Held(res, u, t) = {}
  BY DEF Init, Held
<1> QED BY <1>1, <1>2, FS_EmptySet, LimitsAssumption DEF Init, LimitInv

\* Apart from extensions nobody holds more than MaxSimultaneous labs at any
\* instant, although reserve_lab and update_scheduled_reservation only look at
\* the slot they store and leave the rest of the timeline unchecked.
THEOREM LimitHolds == Spec => []SimultaneousLimitUnlessExtended
<1>1. LimitInv => SimultaneousLimitUnlessExtended
  <2> SUFFICES ASSUME LimitInv, NEW u \in Users, NEW t \in 0 .. Horizon + MaxTotalHours
               PROVE  Cardinality(Held(res, u, t)) <= MaxSimultaneous
    BY DEF SimultaneousLimitUnlessExtended, Held
  <2>1. t \in Nat
    BY LimitsAssumption
  <2> QED BY <2>1 DEF LimitInv
<1> QED
  BY <1>1, LimitAtFirst, NextKeepsLimit, PTL DEF Spec

-----------------------------------------------------------------------------
(* The sweep.  Induction over the naturals goes through the least element  *)
(* of the set of counterexamples.                                          *)

\* Every set of naturals has a least element.
LEMMA LeastNumber ==
    ASSUME NEW T \in SUBSET Nat, T # {}
    PROVE  \E m \in T : \A k \in T : m <= k
<1> DEFINE R == OpToRel(<, Nat)
<1>1. IsWellFoundedOn(R, Nat)
  BY NatLessThanWellFounded, Zenon
<1>2. R = {ss \in Nat \X Nat : ss[1] < ss[2]}
  BY Zenon DEF OpToRel
<1> HIDE DEF R
<1>3. PICK m \in T : \A k \in T : ~(<<k, m>> \in R)
  BY <1>1, WFMin
<1>4. ASSUME NEW k \in T PROVE m <= k
  <2>1. <<k, m>> \in Nat \X Nat /\ <<k, m>> \notin R
    BY <1>3, <1>4
  <2> QED BY <1>2, <2>1
<1> QED BY <1>4

\* Induction up to n, for a set instead of a predicate.
LEMMA ReachesAll ==
    ASSUME NEW n \in Nat, NEW T, 0 \in T, \A i \in 0 .. n - 1 : i \in T => i + 1 \in T
    PROVE  0 .. n \subseteq T
<1> DEFINE U == (0 .. n) \ T
<1> SUFFICES ASSUME U # {} PROVE FALSE
  OBVIOUS
<1>1. U \in SUBSET Nat
  OBVIOUS
<1> HIDE DEF U
<1>2. PICK m \in U : \A k \in U : m <= k
  BY <1>1, LeastNumber
<1>3. m - 1 \in 0 .. n - 1 /\ m - 1 \in T
  BY <1>1, <1>2 DEF U
<1> QED BY <1>2, <1>3 DEF U

-----------------------------------------------------------------------------
\* The events that the sort key tells apart.
Timed(E) == \A v \in E : v[1] \in Int /\ v[2] \in Int

\* Before orders by time and delta, and is total up to equal keys.
LEMMA BeforeIsWeakOrder ==
    ASSUME NEW a, NEW b, NEW c, a[1] \in Int, a[2] \in Int,
           b[1] \in Int, b[2] \in Int, c[1] \in Int, c[2] \in Int
    PROVE  /\ Before(a, b) /\ ~Before(c, b) => Before(a, c)
           /\ ~Before(b, a) /\ Before(b, c) => Before(a, c)
           /\ ~Before(b, a) /\ ~Before(c, b) => ~Before(c, a)
           /\ Before(a, b) => ~Before(b, a)
<1>1. Before(a, b) /\ ~Before(c, b) => Before(a, c)
  BY DEF Before
<1>2. ~Before(b, a) /\ Before(b, c) => Before(a, c)
  BY DEF Before
<1>3. ~Before(b, a) /\ ~Before(c, b) => ~Before(c, a)
  BY DEF Before
<1>4. Before(a, b) => ~Before(b, a)
  BY DEF Before
<1> QED BY <1>1, <1>2, <1>3, <1>4

LEMMA FirstIsOrder ==
    ASSUME NEW n \in Nat, NEW E, Timed(E), NEW s \in [1 .. n -> E],
           NEW i \in 1 .. n, NEW j \in 1 .. n, NEW k \in 1 .. n
    PROVE  /\ ComesFirst(s, i, j) \/ ComesFirst(s, j, i)
           /\ ComesFirst(s, i, j) /\ ComesFirst(s, j, i) => i = j
           /\ ComesFirst(s, i, j) /\ ComesFirst(s, j, k) => ComesFirst(s, i, k)
           /\ ComesFirst(s, i, j) => ~Before(s[j], s[i])
<1>1. \A v \in {i, j, k} : s[v][1] \in Int /\ s[v][2] \in Int
  BY DEF Timed
<1>2. /\ Before(s[i], s[j]) => ~Before(s[j], s[i])
      /\ Before(s[i], s[j]) /\ ~Before(s[k], s[j]) => Before(s[i], s[k])
      /\ ~Before(s[j], s[i]) /\ Before(s[j], s[k]) => Before(s[i], s[k])
      /\ ~Before(s[j], s[i]) /\ ~Before(s[k], s[j]) => ~Before(s[k], s[i])
  BY <1>1, BeforeIsWeakOrder
<1>3. Before(s[j], s[k]) => ~Before(s[k], s[j])
  BY <1>1, BeforeIsWeakOrder
<1>4. ComesFirst(s, i, j) \/ ComesFirst(s, j, i)
  BY <1>2 DEF ComesFirst
<1>5. ComesFirst(s, i, j) /\ ComesFirst(s, j, i) => i = j
  BY <1>2 DEF ComesFirst
<1>6. ComesFirst(s, i, j) /\ ComesFirst(s, j, k) => ComesFirst(s, i, k)
  BY <1>2, <1>3 DEF ComesFirst
<1>7. ComesFirst(s, i, j) => ~Before(s[j], s[i])
  BY <1>2 DEF ComesFirst
<1> QED BY <1>4, <1>5, <1>6, <1>7

LEMMA PlacesDiffer ==
    ASSUME NEW n \in Nat, NEW E, Timed(E), NEW s \in [1 .. n -> E],
           NEW i \in 1 .. n, NEW j \in 1 .. n
    PROVE  /\ Place(s, i) \in 1 .. n
           /\ ComesFirst(s, i, j) /\ i # j => Place(s, i) < Place(s, j)
<1> DEFINE P(k) == {m \in 1 .. n : ComesFirst(s, m, k)}
<1>1. /\ IsFiniteSet(1 .. n) /\ Cardinality(1 .. n) = n
      /\ \A k \in 1 .. n : k \in P(k) /\ P(k) \in SUBSET (1 .. n)
  BY FS_Interval, FirstIsOrder
<1>2. \A k \in 1 .. n : /\ IsFiniteSet(P(k)) /\ Cardinality(P(k)) \in Nat
                        /\ Cardinality(P(k)) <= n /\ Cardinality(P(k)) # 0
                        /\ Place(s, k) = Cardinality(P(k))
  <2> SUFFICES ASSUME NEW k \in 1 .. n
               PROVE  /\ IsFiniteSet(P(k)) /\ Cardinality(P(k)) \in Nat
                      /\ Cardinality(P(k)) <= n /\ Cardinality(P(k)) # 0
                      /\ Place(s, k) = Cardinality(P(k))
    OBVIOUS
  <2>1. Place(s, k) = Cardinality(P(k))
    BY DEF Place
  <2> HIDE DEF P
  <2>2. IsFiniteSet(P(k)) /\ Cardinality(P(k)) <= n
    BY <1>1, FS_Subset
  <2>3. Cardinality(P(k)) \in Nat /\ Cardinality(P(k)) # 0
    BY <1>1, <2>2, FS_CardinalityType, FS_EmptySet
  <2> QED BY <2>1, <2>2, <2>3
<1>3. ASSUME ComesFirst(s, i, j), i # j PROVE Place(s, i) < Place(s, j)
  <2>1. P(i) \in SUBSET P(j) /\ j \in P(j) /\ j \notin P(i)
    BY <1>3, <1>1, FirstIsOrder
  <2> HIDE DEF P
  <2>2. Cardinality(P(i)) <= Cardinality(P(j)) /\ Cardinality(P(i)) # Cardinality(P(j))
    BY <1>2, <2>1, FS_Subset
  <2> QED BY <1>2, <2>2
<1> HIDE DEF P
<1> QED BY <1>2, <1>3

\* A sorted sequence holds the same events, in the order of the key.
LEMMA SortedIsSorted ==
    ASSUME NEW n \in Nat, NEW E, Timed(E), NEW s \in [1 .. n -> E],
           \A v \in E : \E i \in 1 .. n : s[i] = v,
           \A i, j \in 1 .. n : s[i] = s[j] => i = j
    PROVE  /\ Sorted(s) \in [1 .. n -> E]
           /\ \A v \in E : \E p \in 1 .. n : Sorted(s)[p] = v
           /\ \A p, q \in 1 .. n : Sorted(s)[p] = Sorted(s)[q] => p = q
           /\ \A p, q \in 1 .. n : p < q => ~Before(Sorted(s)[q], Sorted(s)[p])
<1> DEFINE D == 1 .. n
           place == [i \in D |-> Place(s, i)]
           at(p) == CHOOSE i \in D : Place(s, i) = p
<1>1. \A i, j \in D : Place(s, i) \in D /\ (Place(s, i) = Place(s, j) => i = j)
  BY PlacesDiffer, FirstIsOrder
<1>2. place \in Injection(D, D)
  BY <1>1 DEF Injection, IsInjective
<1>3. place \in Surjection(D, D)
  <2>1. IsFiniteSet(D)
    BY FS_Interval
  <2> HIDE DEF D, place
  <2> QED BY <1>2, <2>1, FS_Injection
<1>4. \A p \in D : at(p) \in D /\ Place(s, at(p)) = p
  <2>1. \A p \in D : \E i \in D : place[i] = p
    BY <1>3 DEF Surjection
  <2> QED BY <2>1
<1>5. \A i \in D : at(Place(s, i)) = i
  BY <1>1, <1>4
<1>6. Sorted(s) = [p \in D |-> s[at(p)]]
  BY DEF Sorted
<1> HIDE DEF at
<1>7. \A v \in E : \E p \in D : Sorted(s)[p] = v
  BY <1>1, <1>5, <1>6
<1>8. \A p, q \in D : Sorted(s)[p] = Sorted(s)[q] => p = q
  BY <1>4, <1>6
<1>9. ASSUME NEW p \in D, NEW q \in D, p < q
      PROVE  ~Before(Sorted(s)[q], Sorted(s)[p])
  <2>1. ~ComesFirst(s, at(q), at(p))
    <3>1. /\ at(p) \in 1 .. n /\ Place(s, at(p)) = p
          /\ at(q) \in 1 .. n /\ Place(s, at(q)) = q
      BY <1>4, <1>9
    <3>2. ComesFirst(s, at(q), at(p)) /\ at(q) # at(p) => Place(s, at(q)) < Place(s, at(p))
      BY <3>1, PlacesDiffer
    <3> QED BY <1>9, <3>1, <3>2
  <2>2. ~Before(s[at(q)], s[at(p)])
    BY <1>4, <2>1, FirstIsOrder
  <2> QED BY <1>6, <2>2
<1> QED BY <1>4, <1>6, <1>7, <1>8, <1>9

LEMMA SetToSeqLists ==
    ASSUME NEW E, IsFiniteSet(E)
    PROVE  LET n == Cardinality(E)  s == SetToSeq(E)
           IN  /\ n \in Nat /\ s \in [1 .. n -> E]
               /\ \A v \in E : \E i \in 1 .. n : s[i] = v
               /\ \A i, j \in 1 .. n : s[i] = s[j] => i = j
<1> DEFINE n == Cardinality(E)
           s == SetToSeq(E)
<1>1. n \in Nat /\ ExistsBijection(1 .. n, E)
  BY FS_CardinalityType
<1>2. \E f \in [1 .. n -> E] : IsInjective(f)
  BY <1>1 DEF ExistsBijection, Bijection, Injection
<1>3. s \in [1 .. n -> E] /\ IsInjective(s)
  BY <1>2 DEF SetToSeq
<1>4. s \in Injection(1 .. n, E)
  BY <1>3 DEF Injection
<1>5. s \in Surjection(1 .. n, E)
  <2>1. Cardinality(1 .. n) = n
    BY <1>1, FS_Interval
  <2> HIDE DEF s
  <2> QED BY <1>4, <2>1, FS_Injection
<1> HIDE DEF n, s
<1>6. \A v \in E : \E i \in 1 .. n : s[i] = v
  BY <1>5 DEF Surjection
<1> QED BY <1>1, <1>3, <1>6 DEF IsInjective, n, s
-----------------------------------------------------------------------------
\* The loop: its counters start at zero and are those of the code from then on.
Counters == [current : Int, max : Int]
Zero == [current |-> 0, max |-> 0]

LEMMA LoopRuns ==
    ASSUME NEW n \in Nat, NEW E, Timed(E), NEW s \in [1 .. n -> E]
    PROVE  /\ Loop(s) \in [0 .. n -> Counters]
           /\ Loop(s)[0] = Zero
           /\ \A i \in 1 .. n : Loop(s)[i] = NextEvent(Loop(s)[i - 1], s[i])
<1> DEFINE Runs(g, m) == /\ g \in [0 .. m -> Counters] /\ g[0] = Zero
                         /\ \A i \in 1 .. m : g[i] = NextEvent(g[i - 1], s[i])
           T == {m \in 0 .. n : \E g : Runs(g, m)}
           F(g) == [i \in 0 .. n |-> IF i = 0 THEN Zero ELSE NextEvent(g[i - 1], s[i])]
<1>1. \A c \in Counters, i \in 1 .. n : NextEvent(c, s[i]) \in Counters
  BY DEF NextEvent, Later, Counters, Timed
<1>2. 0 \in T
  <2>1. Runs([i \in 0 .. 0 |-> Zero], 0)
    BY DEF Zero, Counters
  <2> HIDE DEF Runs
  <2> QED BY <2>1
<1>3. ASSUME NEW m \in 0 .. n - 1, m \in T PROVE m + 1 \in T
  <2>1. PICK g : Runs(g, m)
    BY <1>3
  <2> DEFINE h == [i \in 0 .. m + 1 |-> IF i <= m THEN g[i] ELSE NextEvent(g[m], s[m + 1])]
  <2>2. g[m] \in Counters /\ m + 1 \in 1 .. n
    BY <2>1
  <2>3. h \in [0 .. m + 1 -> Counters]
    BY <1>1, <2>1, <2>2
  <2>4. h[0] = Zero
    BY <2>1
  <2>5. ASSUME NEW i \in 1 .. m + 1 PROVE h[i] = NextEvent(h[i - 1], s[i])
    <3>1. CASE i <= m
      BY <3>1, <2>1
    <3>2. CASE i = m + 1
      BY <3>2, <2>1
    <3> QED BY <3>1, <3>2
  <2>6. Runs(h, m + 1)
    BY <2>3, <2>4, <2>5
  <2> HIDE DEF Runs, h
  <2> QED BY <2>2, <2>6
<1>4. n \in T
  <2> HIDE DEF T
  <2>1. 0 .. n \subseteq T
    BY <1>2, <1>3, ReachesAll
  <2> QED BY <2>1
<1>5. PICK g : Runs(g, n)
  BY <1>4
<1>6. g = F(g)
  <2>1. g = [i \in 0 .. n |-> g[i]]
    BY <1>5
  <2>2. \A i \in 0 .. n : g[i] = IF i = 0 THEN Zero ELSE NextEvent(g[i - 1], s[i])
    BY <1>5
  <2> HIDE DEF Runs
  <2> QED BY <2>1, <2>2
<1>7. s \in Seq(E) /\ Len(s) = n
  OBVIOUS
<1>8. Loop(s) = CHOOSE f : f = F(f)
  BY <1>7 DEF Loop, Zero
<1> DEFINE f == Loop(s)
<1>9. f = F(f)
  <2> HIDE DEF F
  <2> QED BY <1>6, <1>8
<1>10. f[0] = Zero /\ \A i \in 1 .. n : f[i] = NextEvent(f[i - 1], s[i])
  BY <1>9
<1>11. \A i \in 0 .. n : f[i] \in Counters
  <2> DEFINE U == {i \in 0 .. n : f[i] \in Counters}
  <2>1. 0 \in U
    BY <1>10 DEF Zero, Counters
  <2>2. \A i \in 0 .. n - 1 : i \in U => i + 1 \in U
    BY <1>1, <1>10
  <2>3. 0 .. n \subseteq U
    <3> HIDE DEF U
    <3> QED BY <2>1, <2>2, ReachesAll
  <2> QED BY <2>3
<1>12. f = [i \in 0 .. n |-> f[i]]
  BY <1>9
<1> HIDE DEF f
<1> QED BY <1>10, <1>11, <1>12 DEF f
-----------------------------------------------------------------------------
\* The entries of a sweep and its slot.
Sweepable(S, slot) ==
    /\ IsFiniteSet(S)
    /\ \A e \in S : e.start \in Nat /\ e.end \in Nat
    /\ \A e, f \in S : e.id = f.id => e = f
    /\ slot \in Nat \X Nat /\ slot[1] < slot[2]

StartOf(e, slot) == <<Clipped(e, slot)[1], 1, e.id>>
EndOf(e, slot) == <<Clipped(e, slot)[2], -1, e.id>>

LEMMA ClippedTimes ==
    ASSUME NEW S, NEW slot, Sweepable(S, slot), NEW e \in S
    PROVE  /\ Clipped(e, slot)[1] \in Nat /\ Clipped(e, slot)[2] \in Nat
           /\ \A t \in slot[1] .. (slot[2] - 1) :
                 /\ Clipped(e, slot)[1] <= t <=> e.start <= t
                 /\ t < Clipped(e, slot)[2] <=> t < e.end
           /\ e \in Overlapping(S, slot) =>
                 Clipped(e, slot)[1] \in slot[1] .. (slot[2] - 1)
  BY DEF Sweepable, Clipped, Later, Sooner, Overlapping

LEMMA EventsOf ==
    ASSUME NEW S, NEW slot, Sweepable(S, slot)
    PROVE  LET O == Overlapping(S, slot)
           IN  /\ O \subseteq S /\ IsFiniteSet(O)
               /\ IsFiniteSet(Events(S, slot)) /\ Timed(Events(S, slot))
               /\ Events(S, slot) = {StartOf(e, slot) : e \in O} \cup {EndOf(e, slot) : e \in O}
               /\ \A e \in O : Before(StartOf(e, slot), EndOf(e, slot))
               /\ \A e, f \in O : /\ StartOf(e, slot) # EndOf(f, slot)
                                  /\ StartOf(e, slot) = StartOf(f, slot) => e = f
                                  /\ EndOf(e, slot) = EndOf(f, slot) => e = f
<1> DEFINE O == Overlapping(S, slot)
           starts == [e \in O |-> StartOf(e, slot)]
           ends == [e \in O |-> EndOf(e, slot)]
           A == {StartOf(e, slot) : e \in O}
           B == {EndOf(e, slot) : e \in O}
<1>1. O \subseteq S /\ O \in SUBSET S
  BY DEF Overlapping
<1>2. IsFiniteSet(O)
  BY <1>1, FS_Subset DEF Sweepable
<1>3. Events(S, slot) = A \cup B
  BY DEF Events, StartOf, EndOf
<1>4. starts \in Surjection(O, A) /\ ends \in Surjection(O, B)
  BY DEF Surjection
<1>5. IsFiniteSet(A) /\ IsFiniteSet(B)
  <2> HIDE DEF O, A, B, starts, ends
  <2> QED BY <1>2, <1>4, FS_Surjection
<1>6. IsFiniteSet(Events(S, slot))
  <2> HIDE DEF A, B
  <2> QED BY <1>3, <1>5, FS_Union
<1>7. Timed(A \cup B)
  BY <1>1, ClippedTimes DEF Timed, StartOf, EndOf
<1>8. \A e \in O : Before(StartOf(e, slot), EndOf(e, slot))
  BY DEF Before, StartOf, EndOf, Overlapping
<1>9. \A e, f \in O : /\ StartOf(e, slot) # EndOf(f, slot)
                      /\ StartOf(e, slot) = StartOf(f, slot) => e = f
                      /\ EndOf(e, slot) = EndOf(f, slot) => e = f
  BY <1>1 DEF StartOf, EndOf, Sweepable
<1> QED BY <1>1, <1>2, <1>3, <1>6, <1>7, <1>8, <1>9

\* Where the events of an entry are in the sorted list: from[e] and to[e].
Listed(O, slot, n, t, from, to) ==
    /\ n \in Nat
    /\ from \in [O -> 1 .. n] /\ to \in [O -> 1 .. n]
    /\ \A e \in O : t[from[e]] = StartOf(e, slot) /\ t[to[e]] = EndOf(e, slot) /\ from[e] < to[e]
    /\ \A p \in 1 .. n : \E e \in O : p = from[e] \/ p = to[e]
    /\ \A e, f \in O : /\ from[e] # to[f]
                       /\ from[e] = from[f] => e = f
                       /\ to[e] = to[f] => e = f
    /\ \A p \in 1 .. n : t[p][1] \in Nat /\ t[p][2] \in {1, -1}
    /\ \A p, q \in 1 .. n : p < q => ~Before(t[q], t[p])

LEMMA SweepLists ==
    ASSUME NEW S, NEW slot, Sweepable(S, slot)
    PROVE  LET E == Events(S, slot)  n == Cardinality(E)  t == Sorted(SetToSeq(E))
           IN  /\ t \in [1 .. n -> E]
               /\ \E from, to : Listed(Overlapping(S, slot), slot, n, t, from, to)
<1> DEFINE O == Overlapping(S, slot)
           E == Events(S, slot)
           n == Cardinality(E)
           t == Sorted(SetToSeq(E))
<1>1. /\ O \subseteq S /\ IsFiniteSet(E) /\ Timed(E)
      /\ E = {StartOf(e, slot) : e \in O} \cup {EndOf(e, slot) : e \in O}
      /\ \A e \in O : Before(StartOf(e, slot), EndOf(e, slot))
      /\ \A e, f \in O : /\ StartOf(e, slot) # EndOf(f, slot)
                         /\ StartOf(e, slot) = StartOf(f, slot) => e = f
                         /\ EndOf(e, slot) = EndOf(f, slot) => e = f
  BY EventsOf
<1> DEFINE s == SetToSeq(E)
<1> HIDE DEF E
<1>s. /\ n \in Nat /\ s \in [1 .. n -> E]
      /\ \A v \in E : \E i \in 1 .. n : s[i] = v
      /\ \A i, j \in 1 .. n : s[i] = s[j] => i = j
  <2>1. IsFiniteSet(E)
    BY <1>1
  <2> QED BY ONLY <2>1, SetToSeqLists, Zenon
<1> HIDE DEF n, s
<1>t. /\ t \in [1 .. n -> E]
      /\ \A v \in E : \E p \in 1 .. n : t[p] = v
      /\ \A p, q \in 1 .. n : t[p] = t[q] => p = q
      /\ \A p, q \in 1 .. n : p < q => ~Before(t[q], t[p])
  <2>1. t = Sorted(s)
    BY DEF s
  <2>2. Timed(E)
    BY <1>1
  <2>3. /\ Sorted(s) \in [1 .. n -> E]
        /\ \A v \in E : \E p \in 1 .. n : Sorted(s)[p] = v
        /\ \A p, q \in 1 .. n : Sorted(s)[p] = Sorted(s)[q] => p = q
        /\ \A p, q \in 1 .. n : p < q => ~Before(Sorted(s)[q], Sorted(s)[p])
    BY ONLY <1>s, <2>2, SortedIsSorted, Zenon
  <2> HIDE DEF t
  <2> QED BY <2>1, <2>3
<1>2. n \in Nat /\ t \in [1 .. n -> E]
  BY <1>s, <1>t
<1>3. /\ \A v \in E : \E p \in 1 .. n : t[p] = v
      /\ \A p, q \in 1 .. n : t[p] = t[q] => p = q
      /\ \A p, q \in 1 .. n : p < q => ~Before(t[q], t[p])
  BY <1>t
<1> HIDE DEF t
<1> DEFINE from == [e \in O |-> CHOOSE p \in 1 .. n : t[p] = StartOf(e, slot)]
           to == [e \in O |-> CHOOSE p \in 1 .. n : t[p] = EndOf(e, slot)]
<1>4. \A e \in O : /\ from[e] \in 1 .. n /\ t[from[e]] = StartOf(e, slot)
                   /\ to[e] \in 1 .. n /\ t[to[e]] = EndOf(e, slot)
  <2> SUFFICES ASSUME NEW e \in O
               PROVE  /\ \E p \in 1 .. n : t[p] = StartOf(e, slot)
                      /\ \E p \in 1 .. n : t[p] = EndOf(e, slot)
    OBVIOUS
  <2> QED BY <1>1, <1>3
<1>5. from \in [O -> 1 .. n] /\ to \in [O -> 1 .. n]
  BY <1>4
<1> HIDE DEF from, to
<1>6. \A e \in O : from[e] < to[e]
  <2> SUFFICES ASSUME NEW e \in O, ~(from[e] < to[e]) PROVE FALSE
    OBVIOUS
  <2>1. from[e] # to[e]
    BY <1>1, <1>4
  <2>2. to[e] < from[e]
    BY <1>2, <1>4, <2>1
  <2> QED BY <1>1, <1>3, <1>4, <2>2
<1>7. \A p \in 1 .. n : \E e \in O : p = from[e] \/ p = to[e]
  <2> SUFFICES ASSUME NEW p \in 1 .. n PROVE \E e \in O : p = from[e] \/ p = to[e]
    OBVIOUS
  <2>1. \E e \in O : t[p] = StartOf(e, slot) \/ t[p] = EndOf(e, slot)
    BY <1>1, <1>2
  <2> QED BY <1>3, <1>4, <2>1
<1>8. \A e, f \in O : /\ from[e] # to[f]
                      /\ from[e] = from[f] => e = f
                      /\ to[e] = to[f] => e = f
  BY <1>1, <1>4
<1>9. \A p \in 1 .. n : t[p][1] \in Nat /\ t[p][2] \in {1, -1}
  <2>1. \A e \in O : /\ StartOf(e, slot)[1] \in Nat /\ StartOf(e, slot)[2] = 1
                     /\ EndOf(e, slot)[1] \in Nat /\ EndOf(e, slot)[2] = -1
    BY <1>1, ClippedTimes DEF StartOf, EndOf
  <2> QED BY <1>4, <1>7, <2>1
<1>10. Listed(O, slot, n, t, from, to)
  BY <1>2, <1>3, <1>4, <1>5, <1>6, <1>7, <1>8, <1>9 DEF Listed
<1>11. t \in [1 .. n -> E] /\ \E g, h : Listed(O, slot, n, t, g, h)
  BY <1>2, <1>10
<1> HIDE DEF O
<1> QED BY <1>11 DEF E, n, t, O
\* The entries begun and not ended after the first i events.
Open(O, from, to, i) == {e \in O : from[e] <= i /\ i < to[e]}

LEMMA OneEvent ==
    ASSUME NEW O, NEW slot, NEW n, NEW t, NEW from, NEW to, IsFiniteSet(O),
           Listed(O, slot, n, t, from, to), NEW i \in 1 .. n
    PROVE  /\ Cardinality(Open(O, from, to, i)) \in Nat
           /\ Cardinality(Open(O, from, to, i - 1)) \in Nat
           /\ Cardinality(Open(O, from, to, i)) = Cardinality(Open(O, from, to, i - 1)) + t[i][2]
<1> DEFINE A == Open(O, from, to, i - 1)
           B == Open(O, from, to, i)
<1>0. n \in Nat
  BY DEF Listed
<1>1. IsFiniteSet(A) /\ IsFiniteSet(B)
  <2>1. A \in SUBSET O /\ B \in SUBSET O
    BY DEF Open
  <2> HIDE DEF A, B
  <2> QED BY <2>1, FS_Subset
<1>2. Cardinality(A) \in Nat /\ Cardinality(B) \in Nat
  <2> HIDE DEF A, B
  <2> QED BY <1>1, FS_CardinalityType
<1>3. \A e \in O : from[e] \in 1 .. n /\ to[e] \in 1 .. n
  BY DEF Listed
<1>4. ASSUME NEW e \in O, i = from[e] PROVE Cardinality(B) = Cardinality(A) + t[i][2]
  <2>1. e \notin A /\ B = A \cup {e}
    BY <1>0, <1>3, <1>4 DEF Open, Listed
  <2>2. t[i][2] = 1
    BY <1>4 DEF Listed, StartOf
  <2> HIDE DEF A, B
  <2> QED BY <1>1, <1>2, <2>1, <2>2, FS_AddElement
<1>5. ASSUME NEW e \in O, i = to[e] PROVE Cardinality(B) = Cardinality(A) + t[i][2]
  <2>1. e \in A /\ B = A \ {e}
    BY <1>0, <1>3, <1>5 DEF Open, Listed
  <2>2. t[i][2] = -1
    BY <1>5 DEF Listed, EndOf
  <2> HIDE DEF A, B
  <2> QED BY <1>1, <1>2, <2>1, <2>2, FS_RemoveElement
<1>6. \E e \in O : i = from[e] \/ i = to[e]
  BY DEF Listed
<1> HIDE DEF A, B
<1> QED BY <1>2, <1>4, <1>5, <1>6 DEF A, B

\* What the loop has found after i events: the entries that are open, and the
\* most that were open after one of them, which was a start.
LEMMA LoopCounts ==
    ASSUME NEW O, NEW slot, NEW n, NEW E, NEW t, NEW from, NEW to, IsFiniteSet(O), Timed(E),
           t \in [1 .. n -> E], Listed(O, slot, n, t, from, to)
    PROVE  LET m == Loop(t)[n].max
               open(i) == Cardinality(Open(O, from, to, i))
           IN  /\ \A i \in 0 .. n : open(i) <= m
               /\ m = 0 \/ \E i \in 1 .. n : m = open(i) /\ t[i][2] = 1
<1> DEFINE open(i) == Cardinality(Open(O, from, to, i))
           after == Loop(t)
           Peak(i) == /\ after[i].current = open(i)
                      /\ \A j \in 0 .. i : open(j) <= after[i].max
                      /\ \/ after[i].max = 0
                         \/ \E j \in 1 .. i : after[i].max = open(j) /\ t[j][2] = 1
           T == {i \in 0 .. n : Peak(i)}
<1>0. n \in Nat
  BY DEF Listed
<1>1. /\ after \in [0 .. n -> Counters] /\ after[0] = Zero
      /\ \A i \in 1 .. n : after[i] = NextEvent(after[i - 1], t[i])
  <2> HIDE DEF after
  <2> QED BY <1>0, LoopRuns DEF after
<1>2. open(0) = 0
  <2>1. \A e \in O : from[e] \in 1 .. n
    BY DEF Listed
  <2>2. Open(O, from, to, 0) = {}
    BY <1>0, <2>1 DEF Open
  <2> QED BY <2>2, FS_EmptySet
<1>3. \A i \in 1 .. n : /\ open(i) \in Nat /\ open(i - 1) \in Nat
                        /\ open(i) = open(i - 1) + t[i][2] /\ t[i][2] \in {1, -1}
  <2>1. \A i \in 1 .. n : t[i][2] \in {1, -1}
    BY DEF Listed
  <2>2. \A i \in 1 .. n : /\ open(i) \in Nat /\ open(i - 1) \in Nat
                          /\ open(i) = open(i - 1) + t[i][2]
    <3> SUFFICES ASSUME NEW i \in 1 .. n
                 PROVE  /\ open(i) \in Nat /\ open(i - 1) \in Nat
                        /\ open(i) = open(i - 1) + t[i][2]
      OBVIOUS
    <3>1. /\ Cardinality(Open(O, from, to, i)) \in Nat
          /\ Cardinality(Open(O, from, to, i - 1)) \in Nat
          /\ Cardinality(Open(O, from, to, i)) = Cardinality(Open(O, from, to, i - 1)) + t[i][2]
      <4> HIDE DEF open, after, Peak, T
      <4> QED BY ONLY IsFiniteSet(O), Listed(O, slot, n, t, from, to), i \in 1 .. n, OneEvent
    <3> QED BY <3>1
  <2> HIDE DEF open
  <2> QED BY <2>1, <2>2
<1> HIDE DEF open, after
<1>4. 0 \in T
  BY <1>0, <1>1, <1>2 DEF Zero
<1>5. ASSUME NEW i \in 0 .. n - 1, i \in T PROVE i + 1 \in T
  <2> DEFINE k == i + 1
  <2>1. k \in 1 .. n /\ k - 1 = i /\ Peak(i)
    BY <1>0, <1>5
  <2>2. after[k] = NextEvent(after[i], t[k])
    BY <1>1, <2>1
  <2>3. after[i] \in Counters /\ after[i].current \in Int /\ after[i].max \in Int
    <3>1. i \in 0 .. n
      BY <1>0
    <3>2. after[i] \in Counters
      BY <1>1, <3>1
    <3> QED BY <3>2 DEF Counters
  <2>4. /\ open(k) \in Nat /\ open(i) \in Nat
        /\ open(k) = open(i) + t[k][2] /\ t[k][2] \in {1, -1}
    BY <1>3, <2>1
  <2>5. after[k].current = open(k) /\ after[k].max = Later(after[i].max, open(k))
    BY <2>1, <2>2, <2>4 DEF NextEvent
  <2>6. \A j \in 0 .. k : open(j) <= after[k].max
    <3> SUFFICES ASSUME NEW j \in 0 .. k PROVE open(j) <= after[k].max
      OBVIOUS
    <3>1. CASE j = k
      BY <3>1, <2>3, <2>4, <2>5 DEF Later
    <3>2. CASE j \in 0 .. i
      <4>1. open(j) <= after[i].max /\ open(j) \in Int
        BY <1>2, <1>3, <1>0, <2>1, <3>2
      <4> QED BY <4>1, <2>3, <2>4, <2>5 DEF Later
    <3> QED BY <3>1, <3>2
  <2>7. \/ after[k].max = 0
        \/ \E j \in 1 .. k : after[k].max = open(j) /\ t[j][2] = 1
    <3>1. CASE after[i].max < open(k)
      <4>1. open(i) <= after[i].max
        BY <2>1
      <4>2. t[k][2] = 1
        BY <3>1, <4>1, <2>3, <2>4
      <4> QED BY <2>1, <2>5, <3>1, <4>2 DEF Later
    <3>2. CASE ~(after[i].max < open(k))
      <4>1. after[k].max = after[i].max
        BY <2>5, <3>2 DEF Later
      <4> QED BY <2>1, <4>1
    <3> QED BY <3>1, <3>2
  <2>8. Peak(k)
    BY <2>5, <2>6, <2>7
  <2> HIDE DEF Peak
  <2> QED BY <2>1, <2>8
<1>6. n \in T
  <2> HIDE DEF T
  <2>1. 0 .. n \subseteq T
    BY <1>0, <1>4, <1>5, ReachesAll
  <2> QED BY <1>0, <2>1
<1>7. Peak(n)
  BY <1>6
<1> QED BY <1>7 DEF open, after
-----------------------------------------------------------------------------
\* The entries of S in force at an instant.
InForce(S, t) == {e \in S : e.start <= t /\ t < e.end}

\* The entries in force at an instant of the slot are those open after the
\* events up to it.
LEMMA OpenAt ==
    ASSUME NEW S, NEW slot, Sweepable(S, slot), NEW n, NEW t, NEW from, NEW to,
           Listed(Overlapping(S, slot), slot, n, t, from, to),
           NEW x \in slot[1] .. (slot[2] - 1)
    PROVE  \E i \in 0 .. n : InForce(S, x) = Open(Overlapping(S, slot), from, to, i)
<1> DEFINE O == Overlapping(S, slot)
           J == {i \in 0 .. n : \A p \in 1 .. n : i < p => x < t[p][1]}
<1>1. /\ n \in Nat /\ x \in Nat /\ O \subseteq S
      /\ \A e \in O : from[e] \in 1 .. n /\ to[e] \in 1 .. n
      /\ \A p \in 1 .. n : t[p][1] \in Nat /\ t[p][2] \in {1, -1}
      /\ \A p, q \in 1 .. n : p < q => ~Before(t[q], t[p])
  BY DEF Listed, Overlapping, Sweepable
<1>2. PICK i \in J : \A k \in J : i <= k
  <2>1. J \in SUBSET Nat /\ n \in J
    BY <1>1
  <2> HIDE DEF J
  <2> QED BY <2>1, LeastNumber
<1>3. i \in 0 .. n /\ \A p \in 1 .. n : i < p => x < t[p][1]
  BY <1>2
<1>4. \A p \in 1 .. i : t[p][1] <= x
  <2> SUFFICES ASSUME NEW p \in 1 .. i, ~(t[p][1] <= x) PROVE FALSE
    OBVIOUS
  <2>1. i - 1 \in 0 .. n /\ p \in 1 .. n /\ i \in 1 .. n
    BY <1>1, <1>3
  <2>2. \A q \in 1 .. n : i - 1 < q => x < t[q][1]
    <3> SUFFICES ASSUME NEW q \in 1 .. n, i - 1 < q PROVE x < t[q][1]
      OBVIOUS
    <3>1. q = p \/ p < q
      BY <1>3, <2>1
    <3>2. ~Before(t[q], t[p]) \/ q = p
      BY <1>1, <2>1, <3>1
    <3> QED BY <1>1, <2>1, <3>2 DEF Before
  <2>3. i - 1 \in J
    BY <2>1, <2>2
  <2> HIDE DEF J
  <2> QED BY <1>2, <1>3, <2>1, <2>3
<1>5. ASSUME NEW e \in O
      PROVE  e \in InForce(S, x) <=> from[e] <= i /\ i < to[e]
  <2>1. e \in S /\ from[e] \in 1 .. n /\ to[e] \in 1 .. n
    BY <1>1
  <2>2. t[from[e]][1] = Clipped(e, slot)[1] /\ t[to[e]][1] = Clipped(e, slot)[2]
    BY DEF Listed, StartOf, EndOf
  <2>3. from[e] <= i <=> Clipped(e, slot)[1] <= x
    BY <1>1, <1>3, <1>4, <2>1, <2>2
  <2>4. i < to[e] <=> x < Clipped(e, slot)[2]
    BY <1>1, <1>3, <1>4, <2>1, <2>2
  <2> QED BY <2>1, <2>3, <2>4, ClippedTimes DEF InForce
<1>6. InForce(S, x) \subseteq O
  <2> SUFFICES ASSUME NEW e \in InForce(S, x) PROVE e \in O
    OBVIOUS
  <2>1. e \in S /\ e.start <= x /\ x < e.end
    BY DEF InForce
  <2>2. Clipped(e, slot)[1] <= x /\ x < Clipped(e, slot)[2]
    BY <2>1, ClippedTimes
  <2> QED BY <1>1, <2>1, <2>2, ClippedTimes DEF Overlapping
<1>7. InForce(S, x) = Open(O, from, to, i)
  BY <1>5, <1>6 DEF Open
<1> QED BY <1>3, <1>7

\* What is open after a start is in force at that start.
LEMMA OpenIsInForce ==
    ASSUME NEW S, NEW slot, Sweepable(S, slot), NEW n, NEW t, NEW from, NEW to,
           Listed(Overlapping(S, slot), slot, n, t, from, to),
           NEW i \in 1 .. n, t[i][2] = 1
    PROVE  \E x \in slot[1] .. (slot[2] - 1) :
              Open(Overlapping(S, slot), from, to, i) \subseteq InForce(S, x)
<1> DEFINE O == Overlapping(S, slot)
           x == t[i][1]
<1>1. /\ n \in Nat /\ O \subseteq S
      /\ \A e \in O : from[e] \in 1 .. n /\ to[e] \in 1 .. n
      /\ \A p \in 1 .. n : t[p][1] \in Nat /\ t[p][2] \in {1, -1}
      /\ \A p, q \in 1 .. n : p < q => ~Before(t[q], t[p])
  BY DEF Listed, Overlapping
<1>2. PICK f \in O : t[i] = StartOf(f, slot)
  <2>1. PICK f \in O : i = from[f] \/ i = to[f]
    BY DEF Listed
  <2>2. t[i] = StartOf(f, slot) \/ t[i] = EndOf(f, slot)
    BY <2>1 DEF Listed
  <2> QED BY <2>2 DEF EndOf
<1>3. x \in slot[1] .. (slot[2] - 1) /\ x \in Nat
  BY <1>1, <1>2, ClippedTimes DEF StartOf
<1>4. ASSUME NEW e \in Open(O, from, to, i) PROVE e \in InForce(S, x)
  <2>1. e \in O /\ e \in S /\ from[e] <= i /\ i < to[e]
    BY <1>1 DEF Open
  <2>2. from[e] \in 1 .. n /\ to[e] \in 1 .. n
    BY <1>1, <2>1
  <2>3. /\ t[from[e]][1] = Clipped(e, slot)[1] /\ t[to[e]] = EndOf(e, slot)
        /\ t[to[e]][1] = Clipped(e, slot)[2] /\ t[to[e]][2] = -1
    BY <2>1 DEF Listed, StartOf, EndOf
  <2>4. Clipped(e, slot)[1] <= x
    <3>1. from[e] = i \/ ~Before(t[i], t[from[e]])
      BY <1>1, <2>1, <2>2
    <3> QED BY <1>1, <2>2, <2>3, <3>1 DEF Before
  <2>5. x < Clipped(e, slot)[2]
    <3>1. ~Before(t[to[e]], t[i])
      BY <1>1, <2>1, <2>2
    <3> QED BY <1>1, <2>2, <2>3, <3>1 DEF Before
  <2> QED BY <1>3, <2>1, <2>4, <2>5, ClippedTimes DEF InForce
<1> QED BY <1>3, <1>4

\* So the loop ends with the most that are in force at one instant.
LEMMA LoopFindsPeak ==
    ASSUME NEW S, NEW slot, Sweepable(S, slot)
    PROVE  /\ MaxOverlap(S, slot) \in Nat
           /\ \A x \in slot[1] .. (slot[2] - 1) :
                 Cardinality(InForce(S, x)) <= MaxOverlap(S, slot)
           /\ \E x \in slot[1] .. (slot[2] - 1) :
                 Cardinality(InForce(S, x)) = MaxOverlap(S, slot)
<1> DEFINE O == Overlapping(S, slot)
           E == Events(S, slot)
           n == Cardinality(E)
           t == Sorted(SetToSeq(E))
           m == Loop(t)[n].max
<1>1. PICK from, to : t \in [1 .. n -> E] /\ Listed(O, slot, n, t, from, to)
  BY SweepLists
<1>2. IsFiniteSet(O) /\ IsFiniteSet(E) /\ Timed(E) /\ n \in Nat
  BY <1>1, EventsOf DEF Listed
<1>3. MaxOverlap(S, slot) = m
  <2>1. Len(t) = n
    <3> HIDE DEF n, t
    <3> QED BY <1>1, <1>2
  <2>2. Len(SetToSeq(E)) = n
    <3> HIDE DEF E
    <3> QED BY <1>2, SetToSeqLists
  <2> QED BY <2>1, <2>2 DEF MaxOverlap
<1> DEFINE open(i) == Cardinality(Open(O, from, to, i))
<1>4. /\ \A i \in 0 .. n : open(i) <= m
      /\ m = 0 \/ \E i \in 1 .. n : m = open(i) /\ t[i][2] = 1
  <2> HIDE DEF O, E, n, t
  <2> QED BY <1>1, <1>2, LoopCounts
<1> HIDE DEF n, t
<1>5. \A x \in slot[1] .. (slot[2] - 1) :
         /\ IsFiniteSet(InForce(S, x)) /\ Cardinality(InForce(S, x)) \in Nat
  <2> SUFFICES ASSUME NEW x \in slot[1] .. (slot[2] - 1)
               PROVE  IsFiniteSet(InForce(S, x)) /\ Cardinality(InForce(S, x)) \in Nat
    OBVIOUS
  <2>1. InForce(S, x) \in SUBSET S
    BY DEF InForce
  <2> QED BY <2>1, FS_Subset, FS_CardinalityType DEF Sweepable
<1>6. \A x \in slot[1] .. (slot[2] - 1) : Cardinality(InForce(S, x)) <= m
  <2> SUFFICES ASSUME NEW x \in slot[1] .. (slot[2] - 1)
               PROVE  Cardinality(InForce(S, x)) <= m
    OBVIOUS
  <2>1. PICK i \in 0 .. n : InForce(S, x) = Open(O, from, to, i)
    BY <1>1, OpenAt
  <2> QED BY <1>4, <2>1
<1>7. m \in Nat /\ \E x \in slot[1] .. (slot[2] - 1) : Cardinality(InForce(S, x)) = m
  <2>1. CASE m = 0
    <3>1. slot[1] \in slot[1] .. (slot[2] - 1)
      BY DEF Sweepable
    <3> HIDE DEF m
    <3>2. Cardinality(InForce(S, slot[1])) = 0
      BY <1>5, <1>6, <2>1, <3>1
    <3> QED BY <2>1, <3>1, <3>2
  <2>2. CASE \E i \in 1 .. n : m = open(i) /\ t[i][2] = 1
    <3>1. PICK i \in 1 .. n : m = open(i) /\ t[i][2] = 1
      BY <2>2
    <3>2. PICK x \in slot[1] .. (slot[2] - 1) : Open(O, from, to, i) \subseteq InForce(S, x)
      BY <1>1, <3>1, OpenIsInForce
    <3>3. open(i) <= Cardinality(InForce(S, x)) /\ open(i) \in Nat
      <4> DEFINE A == Open(O, from, to, i)
                 B == InForce(S, x)
      <4>1. A \in SUBSET B /\ IsFiniteSet(B)
        BY <1>5, <3>2
      <4> HIDE DEF A, B
      <4>2. IsFiniteSet(A) /\ Cardinality(A) <= Cardinality(B)
        BY <4>1, FS_Subset
      <4>3. Cardinality(A) \in Nat
        BY <4>2, FS_CardinalityType
      <4> QED BY <4>2, <4>3 DEF A, B
    <3>4. Cardinality(InForce(S, x)) <= m /\ Cardinality(InForce(S, x)) \in Nat
      BY <1>5, <1>6
    <3> HIDE DEF m, open
    <3> QED BY <3>1, <3>3, <3>4
  <2> QED BY <1>4, <2>1, <2>2
<1> HIDE DEF m
<1> QED BY <1>3, <1>6, <1>7

-----------------------------------------------------------------------------
\* Any entries of the store can be swept.
LEMMA StoreIsSweepable ==
    ASSUME LimitInv, NEW S \in SUBSET res, NEW s \in Nat, NEW h \in Nat \ {0}
    PROVE  Sweepable(S, <<s, s + h>>)
<1>1. IsFiniteSet(S)
  BY FS_Subset DEF LimitInv
<1>2. \A e \in S : e \in Entry
  BY DEF LimitInv, Inv, TypeOK
<1>3. \A e, f \in S : e.id = f.id => e = f
  BY DEF LimitInv, Inv, UniqueIds
<1> QED BY <1>1, <1>2, <1>3 DEF Sweepable, Entry

LEMMA LimitInvHolds == Spec => []LimitInv
  BY LimitAtFirst, NextKeepsLimit, PTL DEF Spec

\* The loop of reserve_lab and update_scheduled_reservation ends with the most
\* of a user's entries that are in force at one instant of the requested slot,
\* whatever entries the store has come to hold and in whichever order the
\* sort leaves equal events.
THEOREM SweepIsRight == Spec => []SweepFindsPeak
<1>1. LimitInv => SweepFindsPeak
  <2> SUFFICES ASSUME LimitInv, NEW u \in Users, NEW s \in 0 .. Horizon, NEW h \in 1 .. MaxHours
               PROVE  LET own    == {e \in res : e.owner = u}
                          counts == {Cardinality({e \in own : e.start <= t /\ t < e.end}) :
                                        t \in s .. (s + h - 1)}
                          peak   == MaxOverlap(own, <<s, s + h>>)
                      IN  peak \in counts /\ \A c \in counts : c <= peak
    BY DEF SweepFindsPeak
  <2> DEFINE own == {e \in res : e.owner = u}
  <2>1. own \in SUBSET res /\ s \in Nat /\ h \in Nat \ {0} /\ s + h - 1 = (s + h) - 1
    BY LimitsAssumption
  <2>2. Sweepable(own, <<s, s + h>>)
    <3> HIDE DEF own
    <3> QED BY <2>1, StoreIsSweepable
  <2> HIDE DEF own
  <2> DEFINE m == MaxOverlap(own, <<s, s + h>>)
             C(x) == Cardinality({e \in own : e.start <= x /\ x < e.end})
  <2>3. /\ \A x \in s .. (s + h - 1) : C(x) <= m
        /\ \E x \in s .. (s + h - 1) : C(x) = m
    BY <2>1, <2>2, LoopFindsPeak DEF InForce
  <2> HIDE DEF m, C
  <2>4. m \in {C(x) : x \in s .. (s + h - 1)} /\ \A c \in {C(x) : x \in s .. (s + h - 1)} : c <= m
    BY <2>3
  <2> QED BY <2>4 DEF m, C, own
<1> QED BY <1>1, LimitInvHolds, PTL

\* The check of the model and that of the code agree.
RoomIsDecided ==
    \A S \in SUBSET res, s \in Nat, h \in Nat \ {0} :
        RoomForOneMore(S, s, s + h) <=> MaxOverlap(S, <<s, s + h>>) + 1 <= MaxSimultaneous

\* RoomForOneMore, by which module Reservations decides bookings and moves, is
\* the decision of the code, "max_overlap + 1 > MAX_SIMULTANEOUS...", for every
\* choice of entries of the store and every slot.
THEOREM SweepDecides == Spec => []RoomIsDecided
<1>1. ASSUME LimitInv PROVE RoomIsDecided
  <2> SUFFICES ASSUME NEW S \in SUBSET res, NEW s \in Nat, NEW h \in Nat \ {0}
               PROVE  RoomForOneMore(S, s, s + h)
                        <=> MaxOverlap(S, <<s, s + h>>) + 1 <= MaxSimultaneous
    BY DEF RoomIsDecided
  <2>0. Sweepable(S, <<s, s + h>>)
    BY <1>1, StoreIsSweepable
  <2> DEFINE m == MaxOverlap(S, <<s, s + h>>)
             C(x) == Cardinality({e \in S : e.start <= x /\ x < e.end})
  <2>1. /\ m \in Nat
        /\ \A x \in s .. (s + h - 1) : C(x) <= m
        /\ \E x \in s .. (s + h - 1) : C(x) = m
    BY <2>0, LoopFindsPeak DEF InForce
  <2>2. \A x \in s .. (s + h - 1) : C(x) \in Nat
    <3> SUFFICES ASSUME NEW x \in s .. (s + h - 1) PROVE C(x) \in Nat
      OBVIOUS
    <3> DEFINE A == {e \in S : e.start <= x /\ x < e.end}
    <3>1. A \in SUBSET S /\ IsFiniteSet(S)
      BY <2>0 DEF Sweepable
    <3> HIDE DEF A
    <3>2. Cardinality(A) \in Nat
      BY <3>1, FS_Subset, FS_CardinalityType
    <3> QED BY <3>2 DEF A
  <2>3. RoomForOneMore(S, s, s + h)
           <=> \A x \in s .. (s + h - 1) : C(x) + 1 <= MaxSimultaneous
    BY DEF RoomForOneMore
  <2> HIDE DEF m, C
  <2>4. (\A x \in s .. (s + h - 1) : C(x) + 1 <= MaxSimultaneous)
           <=> m + 1 <= MaxSimultaneous
    BY <2>1, <2>2, LimitsAssumption
  <2> QED BY <2>3, <2>4 DEF m
<1> QED BY <1>1, LimitInvHolds, PTL

=============================================================================
