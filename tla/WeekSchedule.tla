---------------------------- MODULE WeekSchedule ----------------------------
(***************************************************************************)
(* Recurring weekly time windows (internal/policy/schedule.go): when a     *)
(* pause or a scheduled action is active, and which lists of schedules     *)
(* NewStore accepts for a group.                                           *)
(*                                                                         *)
(* A window starts on each of its days at minute "start" and runs up to,   *)
(* and without, minute "end"; when end is before start it runs over        *)
(* midnight into the next day.  Times are wall-clock minutes of the        *)
(* household's time zone.  The code's day has 24 * 60 minutes; here its    *)
(* length is a parameter.  Identifiers and labels of windows are left out, *)
(* and the days of a window, which validateWindow keeps free of            *)
(* repetitions, are a set.                                                 *)
(*                                                                         *)
(* A definition whose comment begins with "Bug:" is not part of the model: *)
(* it is a plausible mistake in the definition that follows it, and a      *)
(* property of the runs fails when it takes that definition's place.       *)
(***************************************************************************)
EXTENDS Integers, Sequences

CONSTANT DayLength     \* minutes in a day

ASSUME DayLengthAssumption == DayLength \in Nat \ {0}

Days == 0 .. 6
Minutes == 0 .. (DayLength - 1)
WeekLength == 7 * DayLength

(* WeeklyWindow, the part that a pause and a schedule have in common. *)
isWindow(window) ==
    /\ window.days \in SUBSET Days
    /\ window.start \in Minutes
    /\ window.end \in Minutes

validateWindow(window) ==
    /\ window.start # window.end
    /\ window.days # {}

-----------------------------------------------------------------------------
(* Bug: a window over midnight is looked up on the day it ends. *)
windowActive_NoPreviousDay(window, today, minute) ==
    \E day \in window.days :
        \/ /\ day = today
           /\ window.start < window.end
           /\ minute >= window.start /\ minute < window.end
        \/ /\ day = today
           /\ window.end < window.start
           /\ minute >= window.start \/ minute < window.end

(* Bug: a window includes the minute at which it ends. *)
windowActive_EndInclusive(window, today, minute) ==
    LET previousDay == (today + 6) % 7
    IN \E day \in window.days :
          \/ /\ day = today
             /\ window.start < window.end
             /\ minute >= window.start /\ minute <= window.end
          \/ /\ day = today
             /\ window.end < window.start
             /\ minute >= window.start
          \/ /\ day = previousDay
             /\ window.end < window.start
             /\ minute <= window.end

(* windowActive: the three ways in which a window covers a minute of today. *)
windowActive(window, today, minute) ==
    LET previousDay == (today + 6) % 7
    IN \E day \in window.days :
          \/ /\ day = today
             /\ window.start < window.end
             /\ minute >= window.start /\ minute < window.end
          \/ /\ day = today
             /\ window.end < window.start
             /\ minute >= window.start
          \/ /\ day = previousDay
             /\ window.end < window.start
             /\ minute < window.end

duration(window) ==
    IF window.end - window.start <= 0
    THEN window.end - window.start + DayLength
    ELSE window.end - window.start

(* Bug: the overlap check does not wrap around the end of the week. *)
occupiedFrom_NoWrap(window, day) ==
    {day * DayLength + window.start + offset :
        offset \in 0 .. (duration(window) - 1)}

(* The minutes of the week that occupyWindow marks for one day of a window. *)
occupiedFrom(window, day) ==
    {(day * DayLength + window.start + offset) % WeekLength :
        offset \in 0 .. (duration(window) - 1)}

occupiedBy(window) == UNION {occupiedFrom(window, day) : day \in window.days}

(* occupyWindow finds a conflict: a minute that an earlier window, or an    *)
(* earlier day of the same window, has marked.                              *)
occupyWindow(occupied, window) ==
    \/ occupiedBy(window) \cap occupied # {}
    \/ \E day, other \in window.days :
          /\ day # other
          /\ occupiedFrom(window, day) \cap occupiedFrom(window, other) # {}

(* The loop of NewStore over the schedules of a group. *)
acceptedSchedules(schedules) ==
    \A i \in 1 .. Len(schedules) :
        /\ validateWindow(schedules[i])
        /\ ~ occupyWindow(UNION {occupiedBy(schedules[j]) : j \in 1 .. (i - 1)},
                          schedules[i])

(* activeScheduledAction: the first schedule of the list that is active, as *)
(* a set of at most one index.                                              *)
activeScheduledAction(schedules, today, minute) ==
    {i \in 1 .. Len(schedules) :
        /\ windowActive(schedules[i], today, minute)
        /\ \A j \in 1 .. (i - 1) : ~ windowActive(schedules[j], today, minute)}
=============================================================================
