-------------------------- MODULE SchedulingWindows --------------------------
(***************************************************************************)
(* The windows in which dispatch is allowed: days of the week and a range  *)
(* of the day that wraps past midnight when it ends no later than it       *)
(* starts.  An instance's own windows replace the global ones.             *)
(***************************************************************************)
EXTENDS Naturals

CONSTANTS DayLength, WeekLength   \* 24 * 60 minutes and 7 days in the code

ASSUME WindowsAssumption == DayLength \in Nat \ {0} /\ WeekLength \in Nat \ {0}

VARIABLES
  ownWindows, globalWindows,  \* RailState.scheduling_windows of the two rows
  clockTime                   \* the minute of the week, in the windows' timezone

windowVars == <<ownWindows, globalWindows, clockTime>>

Days == 0 .. WeekLength - 1
Windows == [days : SUBSET Days, start : 0 .. DayLength, end : 0 .. DayLength]

Weekday(t) == t \div DayLength
MinuteOfDay(t) == t % DayLength
DayBefore(d) == (d + WeekLength - 1) % WeekLength

\* No days mean every day.
DayAllowed(w, d) == w.days = {} \/ d \in w.days

\* Mutant of WindowMatches: the tail belongs to the day it is on.
WindowMatchesToday(w, t) ==
  LET m == MinuteOfDay(t) IN
    /\ DayAllowed(w, Weekday(t))
    /\ IF w.end > w.start THEN w.start <= m /\ m < w.end ELSE w.start <= m \/ m < w.end

\* The tail of a window that wraps belongs to the day it started on.
WindowMatches(w, t) ==
  LET m == MinuteOfDay(t) IN
    IF w.end > w.start
    THEN DayAllowed(w, Weekday(t)) /\ w.start <= m /\ m < w.end
    ELSE \/ w.start <= m /\ DayAllowed(w, Weekday(t))
         \/ m < w.start /\ m < w.end /\ DayAllowed(w, DayBefore(Weekday(t)))

EffectiveWindows == IF ownWindows # {} THEN ownWindows ELSE globalWindows

WindowOpenAt(t) ==
  EffectiveWindows = {} \/ \E w \in EffectiveWindows : WindowMatches(w, t)

WindowsInit == ownWindows = {} /\ globalWindows = {} /\ clockTime = 0

SetOwnWindows(ws) ==
  ownWindows' = ws /\ UNCHANGED <<globalWindows, clockTime>>

SetGlobalWindows(ws) ==
  globalWindows' = ws /\ UNCHANGED <<ownWindows, clockTime>>

TimePasses ==
  /\ clockTime' = (clockTime + 1) % (DayLength * WeekLength)
  /\ UNCHANGED <<ownWindows, globalWindows>>

WindowsNext ==
  \/ TimePasses
  \/ SetOwnWindows({}) \/ SetGlobalWindows({})
  \/ \E w \in Windows : SetOwnWindows({w})
  \/ \E d \in Days : SetGlobalWindows({[days |-> {d}, start |-> 0, end |-> DayLength]})
-----------------------------------------------------------------------------
\* How long a window stays open: a full day if it ends when it starts.
Duration(w) == IF w.end > w.start THEN w.end - w.start ELSE w.end + DayLength - w.start

\* An opening of w, on one of its days, has begun at most Duration(w) ago.
WithinAnOpening(w, t) ==
  \E d \in Days :
    /\ DayAllowed(w, d)
    /\ LET week == DayLength * WeekLength
           since == (t + 2 * week - (d * DayLength + w.start)) % week
       IN since < Duration(w)

\* Dispatch is allowed exactly within the openings of the windows in force,
\* over midnight and over the end of the week.
OpenExactlyInOpenings ==
  WindowOpenAt(clockTime) <=>
    \/ ownWindows = {} /\ globalWindows = {}
    \/ \E w \in IF ownWindows = {} THEN globalWindows ELSE ownWindows :
         WithinAnOpening(w, clockTime)
=============================================================================
