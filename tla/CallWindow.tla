----------------------------- MODULE CallWindow -----------------------------
(***************************************************************************)
(* The hours in which a client may be called: calculate_scheduled_at       *)
(* (backend/app/scheduler/service.py), its twin in the next-action engine, *)
(* and the checks made at scheduling and at dial time.                     *)
(*                                                                         *)
(* A local time is a day, an hour and a position within the hour, ordered  *)
(* as datetimes are.  UTC is a number of ticks; a timezone is an offset    *)
(* (its daylight saving changes are left out).                             *)
(***************************************************************************)
EXTENDS Integers

CONSTANTS
  HoursPerDay, TicksPerHour,
  StartHour, EndHour,   \* scheduler_allowed_hours_start and _end
  Offset                \* scheduler_timezone: local = UTC + Offset ticks

(* clients/schemas.py and clients/router.py refuse start >= end. *)
ASSUME WindowAssumption ==
  /\ HoursPerDay \in Nat \ {0} /\ TicksPerHour \in Nat \ {0}
  /\ StartHour \in Nat /\ EndHour \in Nat
  /\ StartHour < EndHour /\ EndHour <= HoursPerDay
  /\ Offset \in Int

LocalTime == [day : Int, hour : 0 .. HoursPerDay - 1, tick : 0 .. TicksPerHour - 1]

Before(t, u) ==
  \/ t.day < u.day
  \/ t.day = u.day /\ t.hour < u.hour
  \/ t.day = u.day /\ t.hour = u.hour /\ t.tick < u.tick

NotAfter(t, u) == t = u \/ Before(t, u)

TicksPerDay == HoursPerDay * TicksPerHour

ToLocal(utc) ==
  LET l == utc + Offset
  IN  [day |-> l \div TicksPerDay,
       hour |-> (l % TicksPerDay) \div TicksPerHour,
       tick |-> l % TicksPerHour]

ToUtc(t) == t.day * TicksPerDay + t.hour * TicksPerHour + t.tick - Offset

-----------------------------------------------------------------------------
Allowed(t) == StartHour <= t.hour /\ t.hour < EndHour

Opening(day) == [day |-> day, hour |-> StartHour, tick |-> 0]

(* Mutant of Clamp: a time past the window goes back to that day's opening. *)
Clamp_SameDay(t) == IF Allowed(t) THEN t ELSE Opening(t.day)

(* Inside the window: as it is.  Before it: at the opening of the day.  After
   it: at the opening of the next day. *)
Clamp(t) ==
  IF Allowed(t) THEN t
  ELSE Opening(IF t.hour < StartHour THEN t.day ELSE t.day + 1)

(* calculate_scheduled_at, _calculate_retry_scheduled_at *)
ScheduledAt(now, cooldown) == ToUtc(Clamp(ToLocal(now + cooldown)))

(* _dial_claimed_scheduled_call: the row is dialed if the clock is a fixpoint,
   else it goes back to pending for the time computed. *)
MayDialAt(now) == ScheduledAt(now, 0) = now

=============================================================================
