----------------------------- MODULE Reservations -----------------------------
(***************************************************************************)
(* The reservation store of the central server                             *)
(* (central/src/services/reservations.py).                                 *)
(*                                                                         *)
(* Every public function of the service runs under _RESERVATIONS_LOCK, so  *)
(* each one is a single action here.  A call that raises writes nothing    *)
(* (the file is only replaced by _save) and is therefore a stuttering      *)
(* step: the guards below are the conditions under which a call succeeds.  *)
(*                                                                         *)
(* Data abstraction.  The JSON file maps "vm::lab" to a list of entries    *)
(* sorted by start; here it is one set of entries, each carrying its lab.  *)
(* The list order only matters where the code takes the first or the last  *)
(* active entry; two entries that start together are taken in either       *)
(* order.  Times and durations are counted in ticks, of which the finest   *)
(* duration that an extension stores has Grain; entries with an unreadable *)
(* date, which the code skips, are left out.                               *)
(***************************************************************************)
EXTENDS Naturals, FiniteSets

CONSTANTS
    Users,           \* usernames that may own a reservation
    Labs,            \* (vm_id, lab_name) pairs
    Ids,             \* reservation ids (uuid4)
    MaxHours,        \* MAX_RESERVATION_HOURS
    MaxTotalHours,   \* MAX_RESERVATION_TOTAL_HOURS
    ExtensionWindow, \* RESERVATION_EXTENSION_WINDOW_HOURS
    MaxSimultaneous, \* MAX_SIMULTANEOUS_LAB_RESERVATIONS
    Grain,           \* ticks in the 1/10000 h to which extensions round
    Horizon          \* bound of the clock and of the requested start times

ASSUME LimitsAssumption ==
    /\ MaxHours \in Nat \ {0}
    /\ MaxTotalHours \in Nat
    /\ MaxHours <= MaxTotalHours
    /\ ExtensionWindow \in Nat
    /\ MaxSimultaneous \in Nat \ {0}
    /\ Grain \in Nat \ {0}
    /\ \E k \in 0 .. MaxTotalHours : MaxTotalHours = k * Grain
    /\ Horizon \in Nat

VARIABLES
    res,   \* the entries of the reservations file
    now    \* the wall clock

resVars == <<res, now>>

Entry == [id : Ids, lab : Labs, owner : Users, start : Nat, end : Nat,
          hours : 0 .. MaxTotalHours, extended : BOOLEAN]

-----------------------------------------------------------------------------
(* Helpers of the service.  A definition whose name ends in "Mutant" is a    *)
(* plausible bug in the one that follows it; TLC is to find it harmful.    *)

\* _is_active_now: both ends are included.
IsActive(e) == e.start <= now /\ now <= e.end

\* _intervals_overlap: intervals that only touch do not overlap.
Overlaps(s1, e1, s2, e2) == s1 < e2 /\ s2 < e1

\* _prune_expired_entries: an entry that ends exactly now is kept.
Unexpired == {e \in res : e.end >= now}

ActiveOn(l) == {e \in Unexpired : e.lab = l /\ IsActive(e)}

ScheduledOnMutant(l) == {e \in Unexpired : e.lab = l /\ e.start >= now}

ScheduledOn(l) == {e \in Unexpired : e.lab = l /\ e.start > now}

\* get_reservation returns the active entry with the latest start ...
LatestActive(l) == {e \in ActiveOn(l) : \A f \in ActiveOn(l) : f.start <= e.start}

\* ... release_lab and extend_reservation take the first one of the list.
FirstActive(l) == {e \in ActiveOn(l) : \A f \in ActiveOn(l) : e.start <= f.start}

\* No entry of another owner on this lab overlaps the slot.
LabFreeForMutant(S, u, l, s, f) ==
    \A e \in S : e.lab = l /\ e.start <= s /\ s < e.end => e.owner = u

LabFreeFor(S, u, l, s, f) ==
    \A e \in S : e.lab = l /\ Overlaps(s, f, e.start, e.end) => e.owner = u

\* The timeline sweep: at every instant of the slot, the entries of S in
\* force leave room for one more (module OverlapSweep has the sweep itself).
RoomForOneMoreMutant(S, s, f) ==
    Cardinality({e \in S : e.start <= s /\ s < e.end}) + 1 <= MaxSimultaneous

RoomForOneMore(S, s, f) ==
    \A t \in s .. (f - 1) :
        Cardinality({e \in S : e.start <= t /\ t < e.end}) + 1 <= MaxSimultaneous

\* The owner's entries that a new booking of the slot replaces.
ReplacedByMutant(u, l, s, f) ==
    {e \in Unexpired : e.owner = u /\ Overlaps(s, f, e.start, e.end)}

ReplacedBy(u, l, s, f) ==
    {e \in Unexpired : e.lab = l /\ e.owner = u /\ Overlaps(s, f, e.start, e.end)}

\* uuid4 never yields an id that is already stored.
FreshIds == Ids \ {e.id : e \in res}

\* The duration check of reserve_lab and update_scheduled_reservation.
ValidHours(hours) == hours > 0 /\ hours <= MaxHours

\* The window and the total limit of extend_reservation.
ExtensionAllowed(e, additional) ==
    /\ additional > 0
    /\ now + ExtensionWindow >= e.end
    /\ e.hours + additional <= MaxTotalHours

\* round(hours, 4): the nearest multiple, either one of two that are as near.
Rounded(hours) ==
    {h \in 0 .. MaxTotalHours :
        /\ \E k \in 0 .. MaxTotalHours : h = k * Grain
        /\ 2 * h <= 2 * hours + Grain /\ 2 * hours <= 2 * h + Grain}

-----------------------------------------------------------------------------
Init == res = {} /\ now = 0

\* Time passes; nothing in the service runs on expiry.
Tick == now < Horizon /\ now' = now + 1 /\ UNCHANGED res

\* get_reservation, list_scheduled_reservations, attach_reservations: a read
\* that found expired entries saves the pruned file.
Prune == res' = Unexpired /\ res' # res /\ UNCHANGED now

\* reserve_lab: a start in the past becomes now.
ReserveLab(u, l, requested, hours) ==
    LET start == IF requested < now THEN now ELSE requested
        end   == start + hours
    IN  /\ ValidHours(hours)
        /\ LabFreeFor(Unexpired, u, l, start, end)
        /\ RoomForOneMore({e \in Unexpired : e.owner = u /\ e.lab # l}, start, end)
        /\ \E i \in FreshIds :
              res' = (Unexpired \ ReplacedBy(u, l, start, end)) \cup
                       {[id |-> i, lab |-> l, owner |-> u, start |-> start,
                         end |-> end, hours |-> hours, extended |-> FALSE]}
        /\ UNCHANGED now

\* update_scheduled_reservation: only an entry that has not started; the
\* sweep leaves out the entry itself but counts the owner's other entries of
\* the same lab, which are not replaced.
UpdateScheduled(l, i, start, hours) ==
    \E e \in ScheduledOn(l) :
        LET end    == start + hours
            others == Unexpired \ {e}
        IN  /\ e.id = i
            /\ start >= now
            /\ ValidHours(hours)
            /\ LabFreeFor(others, e.owner, l, start, end)
            /\ RoomForOneMore({f \in others : f.owner = e.owner}, start, end)
            /\ res' = others \cup
                        {[e EXCEPT !.start = start, !.end = end, !.hours = hours]}
            /\ UNCHANGED now

\* cancel_scheduled_reservation: only an entry that has not started.
CancelScheduled(l, i) ==
    \E e \in ScheduledOn(l) :
        /\ e.id = i
        /\ res' = Unexpired \ {e}
        /\ UNCHANGED now

\* extend_reservation: only in the last hour, up to the total limit.  Neither
\* the lab's next entries nor the owner's other labs are looked at.
ExtendReservation(l, additional) ==
    \E e \in FirstActive(l) : \E total \in Rounded(e.hours + additional) :
        /\ ExtensionAllowed(e, additional)
        /\ res' = (Unexpired \ {e}) \cup
                    {[e EXCEPT !.end = @ + additional, !.hours = total,
                               !.extended = TRUE]}
        /\ UNCHANGED now

\* release_lab: the first active entry, whoever owns it.
ReleaseLab(l) ==
    \E e \in FirstActive(l) : res' = Unexpired \ {e} /\ UNCHANGED now

Next ==
    \/ Tick
    \/ Prune
    \/ \E u \in Users, l \in Labs, s \in 0 .. Horizon, h \in 0 .. MaxHours + 1 :
          ReserveLab(u, l, s, h)
    \/ \E l \in Labs, i \in Ids, s \in 0 .. Horizon, h \in 0 .. MaxHours + 1 :
          UpdateScheduled(l, i, s, h)
    \/ \E l \in Labs, i \in Ids : CancelScheduled(l, i)
    \/ \E l \in Labs, a \in 0 .. MaxTotalHours : ExtendReservation(l, a)
    \/ \E l \in Labs : ReleaseLab(l)

Spec == Init /\ [][Next]_resVars

-----------------------------------------------------------------------------
(* Properties.                                                             *)

\* Every stored entry has the shape reserve_lab gives it.
TypeOK == res \in SUBSET Entry /\ now \in Nat

\* No two entries share a reservation id, so cancel and update by id hit one
\* reservation (reserve_lab, update_scheduled_reservation).
UniqueIds == \A e, f \in res : e.id = f.id => e = f

\* No entry is empty; a booking ends after its hours, also when it was moved,
\* and only an extension goes past the limit of a booking.  (Of an extended
\* one the hours are rounded at every extension, so that start, end and hours
\* need not agree, and it is the hours that the total limit is about.)
DurationsBounded ==
    \A e \in res :
        /\ e.start < e.end
        /\ ~e.extended => e.end = e.start + e.hours /\ e.hours <= MaxHours

\* Two users hold the same lab at the same time only where the earlier of the
\* two reservations was extended into the other: creating and moving
\* reservations keep the lab exclusive ("Same-lab overlap protection").
OverlapOnlyByExtension ==
    \A e, f \in res :
        /\ e.lab = f.lab /\ e.owner # f.owner
        /\ Overlaps(e.start, e.end, f.start, f.end)
        /\ e.start <= f.start
        => e.extended

\* Apart from extensions, no user holds more than MaxSimultaneous labs at any
\* instant, whatever sequence of creations and moves led there.
SimultaneousLimitUnlessExtended ==
    \A u \in Users, t \in 0 .. Horizon + MaxTotalHours :
        Cardinality({l \in Labs : \E e \in res :
                        /\ e.lab = l /\ e.owner = u /\ ~e.extended
                        /\ e.start <= t /\ t < e.end}) <= MaxSimultaneous

\* A reservation that has begun keeps its lab, owner and start, and its end
\* never comes closer: only release or expiry ends it early.
BegunReservationsKept ==
    [][\A e \in res, f \in res' :
          e.id = f.id /\ e.start <= now =>
              /\ f.lab = e.lab /\ f.owner = e.owner /\ f.start = e.start
              /\ f.end >= e.end]_resVars

\* A new booking displaces nobody: an unexpired entry that disappears in the
\* step that adds another is an entry of the same owner on the same lab.
BookingDisplacesOnlyOwn ==
    [][\A n \in res' : n.id \notin {e.id : e \in res} =>
          \A e \in Unexpired :
              e.id \notin {f.id : f \in res'} => e.owner = n.owner /\ e.lab = n.lab]_resVars

=============================================================================
