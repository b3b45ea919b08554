---------------------------- MODULE UsageBudget -----------------------------
(***************************************************************************)
(* The long-stream budget of one account in one month (edge                *)
(* tunnel-object.ts, lib/usage.ts): the object of each of its names        *)
(* accrues the time of its long streams in memory and adds whole seconds   *)
(* to the account's row in D1.  Several flushes may be awaiting D1 at one  *)
(* time.  Time is counted in ticks.                                        *)
(***************************************************************************)
EXTENDS Integers, FiniteSets, Functions

CONSTANTS
  Objects,
  maxLongStreams, BUDGET,  \* longStreamBudget, in seconds
  SECOND,                  \* ticks of a second
  MAX_FLUSHES,             \* bound: flushes of one object at one time
  MAX_TICKS                \* bound: ticks on the account

ASSUME UsageAssumption ==
  /\ {maxLongStreams, BUDGET, MAX_TICKS} \subseteq Nat
  /\ SECOND \in Nat \ {0} /\ MAX_FLUSHES \in Nat \ {0} /\ IsFiniteSet(Objects)

VARIABLES
  usageRow,  \* long_stream_seconds
  unaccrued,     \* longStreams: the ticks of each unaccrued it was last accrued
  pending,   \* pendingUsage, in ticks
  known,     \* usage.seconds in the attachment of the agent's socket
  alarm,     \* an alarm is set
  flush,     \* the calls of flushUsage: what for, how far, its seconds, D1's answer
  due       \* ticks the streams lasted, less those that went with an object's
             \* memory, and again those whose write D1 did not confirm

usageVars == <<usageRow, unaccrued, pending, known, alarm, flush, due>>

FlushSlots == 1 .. MAX_FLUSHES
NoFlush == [for |-> "release", at |-> "none", seconds |-> 0, total |-> 0]
LongSlots == 1 .. maxLongStreams
Absent == MAX_TICKS + 1  \* the unaccrued of a stream that is not there

UsageTypeOK ==
  /\ usageRow \in Nat /\ unaccrued \in [Objects -> [LongSlots -> 0 .. Absent]]
  /\ {pending, known} \subseteq [Objects -> Nat] /\ alarm \in [Objects -> BOOLEAN]
  /\ flush \in [Objects -> [FlushSlots -> [for : {"release", "alarm", "refresh"},
       at : {"none", "sent", "written", "flushed"}, seconds : Nat, total : Nat]]]
  /\ due \in Nat

UsageInit ==
  /\ usageRow = 0 /\ due = 0
  /\ unaccrued = [o \in Objects |-> [s \in LongSlots |-> Absent]]
  /\ pending = [o \in Objects |-> 0] /\ known = pending
  /\ alarm = [o \in Objects |-> FALSE]
  /\ flush = [o \in Objects |-> [i \in FlushSlots |-> NoFlush]]

Long(o) == {s \in LongSlots : unaccrued[o][s] # Absent}
Accrued(o) == SumFunction([s \in LongSlots |-> IF s \in Long(o) THEN unaccrued[o][s] ELSE 0])
Seconds(o, is) == SumFunction([i \in FlushSlots |-> IF i \in is THEN flush[o][i].seconds ELSE 0])
Flushing(o) == {i \in FlushSlots : flush[o][i].at # "none"}
Sent(o) == {i \in FlushSlots : flush[o][i].at = "sent"}
---------------------------------------------------------------------------
(* flushUsage up to its await: whole seconds go, the rest stays.           *)
StartFlush(o, for, ticks) ==
  \E i \in FlushSlots \ Flushing(o) :
    /\ pending' = [pending EXCEPT ![o] = ticks % SECOND]
    /\ flush' = [flush EXCEPT ![o][i] =
         [for |-> for, at |-> IF ticks < SECOND THEN "flushed" ELSE "sent",
          seconds |-> ticks \div SECOND, total |-> 0]]

(* An old total is refreshed; what is old depends on clocks.               *)
AdmitLong(o, s) ==
  /\ s \notin Long(o) /\ SECOND * known[o] + pending[o] < SECOND * BUDGET
  /\ unaccrued' = [unaccrued EXCEPT ![o][s] = 0] /\ alarm' = [alarm EXCEPT ![o] = TRUE]
  /\ StartFlush(o, "refresh", pending[o]) \/ UNCHANGED <<pending, flush>>
  /\ UNCHANGED <<usageRow, known, due>>

StreamLasts(o, s) ==
  /\ s \in Long(o) /\ due < MAX_TICKS /\ due' = due + 1
  /\ unaccrued' = [unaccrued EXCEPT ![o][s] = @ + 1]
  /\ UNCHANGED <<usageRow, pending, known, alarm, flush>>

ReleaseLong(o, s) ==
  /\ s \in Long(o) /\ unaccrued' = [unaccrued EXCEPT ![o][s] = Absent]
  /\ StartFlush(o, "release", pending[o] + unaccrued[o][s])
  /\ UNCHANGED <<usageRow, known, alarm, due>>

NotAnew(o) == unaccrued[o]

(* accrue sets since to now.                                                   *)
Anew(o) == [s \in LongSlots |-> IF s \in Long(o) THEN 0 ELSE Absent]

Alarm(o) ==
  /\ alarm[o] /\ alarm' = [alarm EXCEPT ![o] = FALSE]
  /\ unaccrued' = [unaccrued EXCEPT ![o] = Anew(o)]
  /\ StartFlush(o, "alarm", pending[o] + Accrued(o))
  /\ UNCHANGED <<usageRow, known, due>>

AddUsage(o, i) ==
  LET f == flush[o][i] IN
  /\ f.at = "sent" /\ usageRow' = usageRow + f.seconds
  /\ flush' = [flush EXCEPT ![o][i] = [f EXCEPT !.at = "written", !.total = usageRow']]
  /\ UNCHANGED <<unaccrued, pending, known, alarm, due>>

Added(o, i) ==
  LET f == flush[o][i] IN
  /\ f.at = "written" /\ known' = [known EXCEPT ![o] = f.total]
  /\ flush' = [flush EXCEPT ![o][i].at = "flushed"]
  /\ UNCHANGED <<usageRow, unaccrued, pending, alarm, due>>

(* D1 fails, before it added the seconds or before its answer got here.    *)
FlushFails(o, i) ==
  LET f == flush[o][i] IN
  /\ f.at \in {"sent", "written"}
  /\ pending' = [pending EXCEPT ![o] = @ + SECOND * f.seconds]
  /\ due' = IF f.at = "written" THEN due + SECOND * f.seconds ELSE due
  /\ due' <= MAX_TICKS /\ flush' = [flush EXCEPT ![o][i].at = "flushed"]
  /\ UNCHANGED <<usageRow, unaccrued, known, alarm>>

Rearm(o) == Long(o) # {} \/ pending[o] >= SECOND

(* alarm sets the next one; refreshUsage reads the account's total.        *)
Flushed(o, i) ==
  LET f == flush[o][i] IN
  /\ f.at = "flushed" /\ flush' = [flush EXCEPT ![o][i] = NoFlush]
  /\ alarm' = IF f.for = "alarm" /\ Rearm(o) THEN [alarm EXCEPT ![o] = TRUE] ELSE alarm
  /\ IF f.for = "refresh" THEN known' \in {known, [known EXCEPT ![o] = usageRow]}
                          ELSE UNCHANGED known
  /\ UNCHANGED <<usageRow, unaccrued, pending, due>>

(* connectAgent reads the total; 0 if that fails.                          *)
ReadsUsage(o) ==
  /\ known' \in {[known EXCEPT ![o] = usageRow], [known EXCEPT ![o] = 0]}
  /\ UNCHANGED <<usageRow, unaccrued, pending, alarm, flush, due>>

(* The object is reset, or hibernates: its memory goes, its alarm stays; a *)
(* write under way may still take place.                                   *)
ObjectReset(o) ==
  \E written \in SUBSET Sent(o) :
    /\ usageRow' = usageRow + Seconds(o, written)
    /\ due' = due - pending[o] - Accrued(o) - SECOND * Seconds(o, Sent(o) \ written)
    /\ unaccrued' = [unaccrued EXCEPT ![o] = [s \in LongSlots |-> Absent]]
    /\ pending' = [pending EXCEPT ![o] = 0]
    /\ flush' = [flush EXCEPT ![o] = [i \in FlushSlots |-> NoFlush]]
    /\ UNCHANGED <<known, alarm>>

UsageNext ==
  \E o \in Objects :
    \/ Alarm(o) \/ ReadsUsage(o) \/ ObjectReset(o)
    \/ \E s \in LongSlots : AdmitLong(o, s) \/ StreamLasts(o, s) \/ ReleaseLong(o, s)
    \/ \E i \in FlushSlots : AddUsage(o, i) \/ Added(o, i) \/ FlushFails(o, i) \/ Flushed(o, i)

UsageSpec == UsageInit /\ [][UsageNext]_usageVars
---------------------------------------------------------------------------
Unflushed(o) == pending[o] + Accrued(o) + SECOND * Seconds(o, Sent(o))

(* Every tick of a long stream is charged once, although streams end while *)
(* an alarm's or another stream's flush awaits D1 and flushes fail: but    *)
(* for memory that a restart wipes out and writes whose answer is lost,    *)
(* the row, the flushes under way and what is yet to be flushed add up to  *)
(* what was spent; and no long stream runs without an alarm to come.       *)
UsageCounted ==
  /\ SECOND * usageRow + SumFunction([o \in Objects |-> Unflushed(o)]) = due
  /\ \A o \in Objects : Long(o) # {} =>
       alarm[o] \/ \E i \in Flushing(o) : flush[o][i].for = "alarm"
=============================================================================
