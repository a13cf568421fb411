----------------------------- MODULE AlarmDriver -----------------------------
(***************************************************************************)
(* src/system_time/driver.rs: the two alarms of the embassy-time driver on *)
(* the compare channels C1 and C3 of the system timer.  A channel compares *)
(* only the low word of the counter; its match bit interrupts until it is  *)
(* cleared.  `set_alarm` runs step by step against the counter, in the     *)
(* main thread and, nested, in the handler and in the callback the handler *)
(* calls.  `now` is one step, as SystemCounterProofs allows.               *)
(***************************************************************************)
EXTENDS Integers

CONSTANTS
  Channels,      \* the number of compare channels: C1 and C3
  Wrap,          \* the number of values of the low word, 2^32
  MaxTime        \* bound on the counter and on the timestamps, for TLC

ASSUME AlarmAssumption ==
  /\ Channels \in Nat \ {0}
  /\ Wrap \in Nat \ {0}
  /\ MaxTime \in Nat

VARIABLES
  time,      \* the 64-bit counter
  compare,   \* the compare register of a channel
  match,     \* the channels whose match bit is set in CS
  slot,      \* c1 and c3: the timestamp of the AlarmState, or Free
  callback,  \* the alarms that have the callback of a client
  call,      \* the set_alarm call of the main thread and that of the handler
  handler,   \* where the handler is
  todo,      \* the pending channels the handler has still to serve
  serving,   \* the alarm alarm_interrupt was called with
  due,       \* its local variable `timestamp`
  promised   \* history: the alarm set_alarm last answered true for

hardware == <<time, compare, match>>
isr == <<handler, todo, serving, due>>
vars == <<hardware, slot, callback, call, isr, promised>>

Alarms == 1 .. Channels   \* in the order they are allocated and served
Free == -1
NoAlarm == -1
Contexts == {"thread", "isr"}
Times == 0 .. MaxTime
low == time % Wrap
NoCall == [at |-> "idle", alarm |-> 1, timestamp |-> 0]

TypeOK ==
  /\ time \in Times
  /\ compare \in [Alarms -> 0 .. Wrap - 1]
  /\ match \subseteq Alarms
  /\ slot \in [Alarms -> Times \cup {Free}]
  /\ callback \subseteq Alarms
  /\ call \in [Contexts -> [at : {"idle", "check", "store", "write", "recheck",
                                  "clear", "zero"},
                            alarm : Alarms, timestamp : Times]]
  /\ handler \in {"off", "next", "load", "test", "again", "callback", "panic"}
  /\ todo \subseteq Alarms
  /\ serving \in Alarms
  /\ due \in Times
  /\ promised \in [Alarms -> Times \cup {NoAlarm}]

Init ==
  /\ time = 0
  /\ compare \in [Alarms -> 0 .. Wrap - 1]
  /\ match = {}
  /\ slot = [a \in Alarms |-> Free]
  /\ callback = {}
  /\ call = [c \in Contexts |-> NoCall]
  /\ handler = "off"
  /\ todo = {}
  /\ serving = 1
  /\ due = 0
  /\ promised = [a \in Alarms |-> NoAlarm]

\* The main thread executes: no handler runs, and no call is in progress.
Idle == handler = "off" /\ call["thread"].at = "idle"

-----------------------------------------------------------------------------
(* The system timer.                                                       *)

Tick ==
  /\ time < MaxTime
  /\ time' = time + 1
  /\ match' = match \cup {a \in Alarms : compare[a] = time' % Wrap}
  /\ UNCHANGED <<compare, slot, callback, call, isr, promised>>

-----------------------------------------------------------------------------
(* allocate_alarm and set_alarm_callback, as the time queue calls them:    *)
(* once each, the callback before the first alarm.                         *)

Allocate(a) ==
  /\ Idle
  /\ slot[a] = Free
  /\ \A b \in 1 .. a - 1 : slot[b] # Free
  /\ slot' = [slot EXCEPT ![a] = 0]
  /\ UNCHANGED <<hardware, callback, call, isr, promised>>

SetCallback(a) ==
  /\ Idle
  /\ slot[a] # Free
  /\ a \notin callback
  /\ slot' = [slot EXCEPT ![a] = 0]
  /\ callback' = callback \cup {a}
  /\ UNCHANGED <<hardware, call, isr, promised>>

-----------------------------------------------------------------------------
(* set_alarm, in a context c.                                              *)

\* The call in context c has reached a step, and goes on to the next one.
At(c, step) ==
  /\ call[c].at = step
  /\ c = "thread" => handler = "off"

Goto(c, step) == call' = [call EXCEPT ![c].at = step]

\* A call for alarm a and time t; it supersedes what was promised before.
Begin(c, a, t) ==
  /\ call' = [call EXCEPT ![c] = [at |-> "check", alarm |-> a, timestamp |-> t]]
  /\ promised' = [promised EXCEPT ![a] = NoAlarm]

\* The call of alarm_interrupt itself repeats what the client was promised.
BeginAgain(c, a, t) ==
  /\ call' = [call EXCEPT ![c] = [at |-> "check", alarm |-> a, timestamp |-> t]]
  /\ UNCHANGED promised

\* set_alarm answers, to the client or to the loop of alarm_interrupt.
Answer(c, ok) ==
  /\ call' = [call EXCEPT ![c] = NoCall]
  /\ IF c = "isr" /\ handler = "again"
       THEN /\ handler' = IF ok THEN "next" ELSE "test"
            /\ UNCHANGED promised
       ELSE /\ UNCHANGED handler
            /\ promised' = IF ok
                             THEN [promised EXCEPT ![call[c].alarm] =
                                     call[c].timestamp]
                             ELSE promised
  /\ UNCHANGED <<todo, serving, due>>

SetAlarm(a, t) ==
  /\ Idle
  /\ a \in callback
  /\ Begin("thread", a, t)
  /\ UNCHANGED <<hardware, slot, callback, isr>>

CheckPast(c) ==
  /\ At(c, "check")
  /\ IF call[c].timestamp <= time
       THEN Answer(c, FALSE)
       ELSE Goto(c, "store") /\ UNCHANGED <<isr, promised>>
  /\ UNCHANGED <<hardware, slot, callback>>

Store(c) ==
  /\ At(c, "store")
  /\ slot' = [slot EXCEPT ![call[c].alarm] = call[c].timestamp]
  /\ Goto(c, "write")
  /\ UNCHANGED <<hardware, callback, isr, promised>>

\* Mutant: the timestamp is not truncated.
WriteCompareWhole(c) ==
  /\ At(c, "write")
  /\ compare' = [compare EXCEPT ![call[c].alarm] = call[c].timestamp]
  /\ Goto(c, "recheck")
  /\ UNCHANGED <<time, match, slot, callback, isr, promised>>

\* `timestamp as u32`.  A register set to the value the counter has may or
\* may not match at once.
WriteCompare(c) ==
  /\ At(c, "write")
  /\ LET a == call[c].alarm
         word == call[c].timestamp % Wrap
     IN  /\ compare' = [compare EXCEPT ![a] = word]
         /\ match' \in {match} \cup (IF word = low THEN {match \cup {a}} ELSE {})
  /\ Goto(c, "recheck")
  /\ UNCHANGED <<time, slot, callback, isr, promised>>

\* Mutant: the second comparison with the counter is left out.
RecheckNothing(c) ==
  /\ At(c, "recheck")
  /\ Answer(c, TRUE)
  /\ UNCHANGED <<hardware, slot, callback>>

Recheck(c) ==
  /\ At(c, "recheck")
  /\ IF call[c].timestamp <= time
       THEN Goto(c, "clear") /\ UNCHANGED <<isr, promised>>
       ELSE Answer(c, TRUE)
  /\ UNCHANGED <<hardware, slot, callback>>

ClearMatch(c) ==
  /\ At(c, "clear")
  /\ match' = match \ {call[c].alarm}
  /\ Goto(c, "zero")
  /\ UNCHANGED <<time, compare, slot, callback, isr, promised>>

ZeroTimestamp(c) ==
  /\ At(c, "zero")
  /\ slot' = [slot EXCEPT ![call[c].alarm] = 0]
  /\ Answer(c, FALSE)
  /\ UNCHANGED <<hardware, callback>>

-----------------------------------------------------------------------------
(* interrupt_handler and alarm_interrupt.                                  *)

\* The pending register is read once, at the entry.  The time queue calls
\* set_alarm in a critical section.
EnterHandler ==
  /\ handler = "off"
  /\ match # {}
  /\ call["thread"].at = "idle"
  /\ handler' = "next"
  /\ todo' = match
  /\ UNCHANGED <<hardware, slot, callback, call, serving, due, promised>>

\* Mutant: the match bits are cleared when the handler is done.
LeaveHandlerClearing ==
  /\ handler = "next"
  /\ todo = {}
  /\ handler' = "off"
  /\ match' = {}
  /\ UNCHANGED <<time, compare, slot, callback, call, todo, serving, due, promised>>

LeaveHandler ==
  /\ handler = "next"
  /\ todo = {}
  /\ handler' = "off"
  /\ UNCHANGED <<hardware, slot, callback, call, todo, serving, due, promised>>

\* C1 before C3; the match bit is cleared first.
Acknowledge(a) ==
  /\ handler = "next"
  /\ a \in todo
  /\ \A b \in todo : a <= b
  /\ todo' = todo \ {a}
  /\ serving' = a
  /\ match' = match \ {a}
  /\ handler' = "load"
  /\ UNCHANGED <<time, compare, slot, callback, call, due, promised>>

\* expect("Alarm should be set")
LoadSlot ==
  /\ handler = "load"
  /\ \/ /\ slot[serving] # Free
        /\ due' = slot[serving]
        /\ handler' = "test"
     \/ /\ slot[serving] = Free
        /\ handler' = "panic"
        /\ UNCHANGED due
  /\ UNCHANGED <<hardware, slot, callback, call, todo, serving, promised>>

\* Mutant: any match of the low word calls the callback.
TestOmitted ==
  /\ handler = "test"
  /\ slot' = [slot EXCEPT ![serving] = 0]
  /\ promised' = [promised EXCEPT ![serving] = NoAlarm]
  /\ handler' = IF serving \in callback THEN "callback" ELSE "next"
  /\ UNCHANGED <<hardware, callback, call, todo, serving, due>>

\* The callback is called once the time has come; before, the match was that
\* of an earlier turn of the low word, and the alarm is set again.
Test ==
  /\ handler = "test"
  /\ IF due <= time
       THEN /\ slot' = [slot EXCEPT ![serving] = 0]
            /\ promised' = [promised EXCEPT ![serving] = NoAlarm]
            /\ handler' = IF serving \in callback THEN "callback" ELSE "next"
            /\ UNCHANGED call
       ELSE /\ handler' = "again"
            /\ BeginAgain("isr", serving, due)
            /\ UNCHANGED slot
  /\ UNCHANGED <<hardware, callback, todo, serving, due>>

\* The client's callback sets its next alarm, or returns.
CallbackSetsAlarm(t) ==
  /\ handler = "callback"
  /\ call["isr"].at = "idle"
  /\ Begin("isr", serving, t)
  /\ UNCHANGED <<hardware, slot, callback, isr>>

CallbackReturns ==
  /\ handler = "callback"
  /\ call["isr"].at = "idle"
  /\ handler' = "next"
  /\ UNCHANGED <<hardware, slot, callback, call, todo, serving, due, promised>>

-----------------------------------------------------------------------------
CallStep ==
  \E c \in Contexts :
    \/ CheckPast(c)
    \/ Store(c)
    \/ WriteCompare(c)
    \/ Recheck(c)
    \/ ClearMatch(c)
    \/ ZeroTimestamp(c)

HandlerStep ==
  \/ LeaveHandler
  \/ \E a \in Alarms : Acknowledge(a)
  \/ LoadSlot
  \/ Test
  \/ CallbackReturns

Next ==
  \/ Tick
  \/ \E a \in Alarms : Allocate(a)
  \/ \E a \in Alarms : SetCallback(a)
  \/ \E a \in Alarms, t \in Times : SetAlarm(a, t)
  \/ CallStep
  \/ EnterHandler
  \/ HandlerStep
  \/ \E t \in Times : CallbackSetsAlarm(t)

Spec == Init /\ [][Next]_vars

\* The timer counts, code runs, a callback returns in the end, and a pending
\* interrupt is taken when the client is not in its critical section.
Fairness ==
  /\ WF_vars(Tick)
  /\ WF_vars(CallStep)
  /\ WF_vars(HandlerStep)
  /\ SF_vars(CallbackReturns)
  /\ SF_vars(EnterHandler)

FairSpec == Spec /\ Fairness

-----------------------------------------------------------------------------
(* Properties.                                                             *)

Panicked == handler = "panic"

\* The handler, or a call in progress, is busy with alarm a.
Busy(a) ==
  \/ handler \in {"load", "test", "again", "callback"} /\ serving = a
  \/ \E c \in Contexts : call[c].at # "idle" /\ call[c].alarm = a

\* The step calls the callback of alarm a.
Calls(a) == handler = "test" /\ handler' = "callback" /\ serving = a

\* driver.rs:135-182, 64-82: while nobody is at work on it, an alarm that was
\* promised is in the slot and in the compare register, and it has matched
\* if its time has come: it cannot be lost, nor wait for another turn of the
\* low word.
Armed ==
  \A a \in Alarms : promised[a] # NoAlarm /\ ~ Busy(a) =>
    /\ slot[a] = promised[a]
    /\ compare[a] = promised[a] % Wrap
    /\ promised[a] <= time => a \in match \/ Panicked

\* driver.rs:71: the callback of a promised alarm is not called before its
\* time, although the channel matches in every turn of the low word.
NeverEarly ==
  [][\A a \in Alarms : Calls(a) /\ promised[a] # NoAlarm
                         => promised[a] <= time]_vars

\* driver.rs:180: "We are confident that the interrupt will be triggered":
\* a promised alarm is called back, or replaced by its client.
Honoured ==
  \A a \in Alarms : promised[a] # NoAlarm ~> (promised[a] = NoAlarm \/ Panicked)

\* driver.rs:198: "The time driver has allocated the alarm since the interrupt
\* for it was triggered": of C3, while the time queue uses the alarm of C1.
HandlerFindsAlarm ==
  handler = "load" /\ slot[1] # Free => slot[serving] # Free

=============================================================================
