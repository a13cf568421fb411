----------------------------- MODULE GpioDetect -----------------------------
(***************************************************************************)
(* src/gpio.rs: detectors waiting for events on input pins.  Each pin is   *)
(* owned by one task.  Interrupts come between any two steps: setting up a *)
(* detection is one critical section for the waker and one for each detect *)
(* register.  The handler runs to its end before the tasks go on, but the  *)
(* levels change while it runs.                                            *)
(***************************************************************************)
EXTENDS Integers, Sequences

CONSTANTS
  Pins,      \* the input pins
  BankSize,  \* the pins of a bank, 32
  NoTask,    \* an empty waker slot; no task is running
  States,    \* the DetectStates the tasks wait for
  Modes,     \* how: "future" is awaited, "block" is Detector::block
  MayCancel  \* whether a future may be dropped before it is ready

Kinds == {"rising", "falling", "high", "low", "asyncRising", "asyncFalling"}

ASSUME GpioAssumption ==
  /\ Pins \subseteq Nat
  /\ BankSize \in Nat \ {0}
  /\ NoTask \notin Pins
  /\ States \subseteq (SUBSET Kinds) \ {{}}
  /\ Modes \subseteq {"future", "block"}
  /\ MayCancel \in BOOLEAN

VARIABLES
  level,    \* the level of each pin
  enabled,  \* the detect registers in which the bit of the pin is set
  status,   \* the bit of each pin in the event detect status register
  acking,   \* the pins whose status bit the handler is about to clear
  slot,     \* WAKER_SET: the task each slot would wake
  owed,     \* tasks that were woken and not polled since
  current,  \* the task being polled
  call,     \* where each pin's detector is
  wanted,   \* the DetectState it waits for
  todo,     \* the detect registers it has still to write
  seen,     \* history: such an event has occurred since it was started
  leftOver, \* history: a detect register was set when it was started
  robbed    \* history: the interrupt of another pin has emptied its slot

lineVars == <<level, status, acking>>
taskVars == <<owed, current>>
callVars == <<call, wanted, todo>>
history == <<seen, leftOver, robbed>>
vars == <<lineVars, enabled, slot, taskVars, callVars, history>>

Bank(p) == p \div BankSize
Bit(p) == p % BankSize
Slots == Pins \cup {Bit(p) : p \in Pins}

\* The pins whose slot is the one the handler of their bank takes.
FirstBank == {p \in Pins : Bit(p) = p}

\* DetectState::registers() yields the flags in the order they are declared.
Rank == [rising |-> 1, falling |-> 2, high |-> 3, low |-> 4,
         asyncRising |-> 5, asyncFalling |-> 6]
FirstOf(k, kinds) == k \in kinds /\ \A j \in kinds : Rank[k] <= Rank[j]

\* What a change to level l raises, and what level l raises while it lasts.
EdgesTo(l) == IF l THEN {"rising", "asyncRising"} ELSE {"falling", "asyncFalling"}
Lasting(l) == IF l THEN {"high"} ELSE {"low"}

TypeOK ==
  /\ level \in [Pins -> BOOLEAN]
  /\ enabled \in [Pins -> SUBSET Kinds]
  /\ status \in [Pins -> BOOLEAN]
  /\ acking \subseteq Pins
  /\ slot \in [Slots -> Pins \cup {NoTask}]
  /\ owed \subseteq Pins
  /\ current \in Pins \cup {NoTask}
  /\ call \in [Pins -> {"none", "setup", "blockSetup", "await", "resume",
                        "spin", "ready"}]
  /\ wanted \in [Pins -> States]
  /\ todo \in [Pins -> SUBSET Kinds]
  /\ seen \in [Pins -> BOOLEAN]
  /\ leftOver \in [Pins -> BOOLEAN]
  /\ robbed \in [Pins -> BOOLEAN]

Init ==
  /\ level \in [Pins -> BOOLEAN]
  /\ enabled = [p \in Pins |-> {}]
  /\ status = [p \in Pins |-> FALSE]
  /\ acking = {}
  /\ slot = [s \in Slots |-> NoTask]
  /\ owed = Pins
  /\ current = NoTask
  /\ call = [p \in Pins |-> "none"]
  /\ wanted \in [Pins -> States]
  /\ todo = [p \in Pins |-> {}]
  /\ seen = [p \in Pins |-> FALSE]
  /\ leftOver = [p \in Pins |-> FALSE]
  /\ robbed = [p \in Pins |-> FALSE]

-----------------------------------------------------------------------------
(* The hardware.                                                           *)

Awaited(p) == call[p] \in {"setup", "await", "resume"}
Waiting(p) == Awaited(p) \/ call[p] \in {"blockSetup", "spin"}

Change(p) ==
  LET raised == EdgesTo(~ level[p]) \cup Lasting(~ level[p]) IN
  /\ level' = [level EXCEPT ![p] = ~ @]
  /\ status' = [status EXCEPT ![p] = @ \/ enabled[p] \cap raised # {}]
  /\ seen' = [seen EXCEPT ![p] = @ \/ (Waiting(p) /\ wanted[p] \cap raised # {})]
  /\ UNCHANGED <<enabled, acking, slot, taskVars, callVars, leftOver, robbed>>

\* The level that is there when its register is written.
Sense(p) ==
  /\ ~ status[p]
  /\ enabled[p] \cap Lasting(level[p]) # {}
  /\ status' = [status EXCEPT ![p] = TRUE]
  /\ UNCHANGED <<level, enabled, acking, slot, taskVars, callVars, history>>

-----------------------------------------------------------------------------
(* interrupt_handler1 and interrupt_handler2.                              *)

Raised(b) == {p \in Pins : Bank(p) = b /\ status[p]}

\* The slots of the raised pins; both handlers index WAKER_SET with the bit.
Taken(b) == {Bit(p) : p \in Raised(b)}

\* Mutant: a slot is taken to hold a waker.
WokenUnchecked(b) == {slot[s] : s \in Taken(b)}

Woken(b) == {slot[s] : s \in Taken(b)} \ {NoTask}

\* DetectState::all()
Cleared == Kinds

\* The futures whose waker is taken for an event of a pin of the other bank.
Victims(b) == {p \in Taken(b) \cap Pins : Awaited(p)} \ Raised(b)

\* Mutant: both handlers write to the registers of the first bank.
HandleFirstBank(b) ==
  /\ acking = {}
  /\ Raised(b) # {}
  /\ slot' = [s \in Slots |-> IF s \in Taken(b) THEN NoTask ELSE slot[s]]
  /\ owed' = owed \cup Woken(b)
  /\ enabled' = [p \in Pins |-> IF p \in Taken(b) THEN enabled[p] \ Cleared ELSE enabled[p]]
  /\ acking' = Raised(b)
  /\ robbed' = [p \in Pins |-> robbed[p] \/ p \in Victims(b)]
  /\ UNCHANGED <<level, status, current, callVars, seen, leftOver>>

\* The status is read; for each of its bits the waker is taken, to wake its
\* task, and the bit is cleared in the detect registers.
Handle(b) ==
  /\ acking = {}
  /\ Raised(b) # {}
  /\ slot' = [s \in Slots |-> IF s \in Taken(b) THEN NoTask ELSE slot[s]]
  /\ owed' = owed \cup Woken(b)
  /\ enabled' = [p \in Pins |-> IF p \in Raised(b) THEN enabled[p] \ Cleared ELSE enabled[p]]
  /\ acking' = Raised(b)
  /\ robbed' = [p \in Pins |-> robbed[p] \/ p \in Victims(b)]
  /\ UNCHANGED <<level, status, current, callVars, seen, leftOver>>

\* After its registers each bit is cleared in the status; one that was raised
\* meanwhile stays, for the next interrupt.
Acknowledge ==
  /\ acking # {}
  /\ status' = [p \in Pins |-> status[p] /\ p \notin acking]
  /\ acking' = {}
  /\ UNCHANGED <<level, enabled, slot, taskVars, callVars, history>>

-----------------------------------------------------------------------------
(* The task of a pin.                                                      *)

\* The task of p executes: the handler does not.
Runs(p) == current = p /\ acking = {}

\* raw.poll; the future its task awaits, if any, is polled again.
PollTask(p) ==
  /\ current = NoTask
  /\ acking = {}
  /\ p \in owed
  /\ owed' = owed \ {p}
  /\ current' = p
  /\ call' = [call EXCEPT ![p] = IF @ = "await" THEN "resume" ELSE @]
  /\ UNCHANGED <<lineVars, enabled, slot, wanted, todo, history>>

\* A task with no detector awaits something else.
Yield(p) ==
  /\ Runs(p)
  /\ call[p] \in {"none", "ready"}
  /\ current' = NoTask
  /\ UNCHANGED <<lineVars, enabled, slot, owed, callVars, history>>

\* Something else wakes a task.
WakeOther(p) ==
  /\ acking = {}
  /\ p \notin owed
  /\ owed' = owed \cup {p}
  /\ UNCHANGED <<lineVars, enabled, slot, current, callVars, history>>

\* The first poll of a Detector stores the waker; Detector::block stores none.
\* (With no flag set both return at once, and nothing changes.)
StartDetect(p, state, mode) ==
  /\ Runs(p)
  /\ call[p] \in {"none", "ready"}
  /\ IF mode = "future"
       THEN /\ slot' = [slot EXCEPT ![p] = p]
            /\ call' = [call EXCEPT ![p] = "setup"]
       ELSE /\ call' = [call EXCEPT ![p] = "blockSetup"]
            /\ UNCHANGED slot
  /\ wanted' = [wanted EXCEPT ![p] = state]
  /\ todo' = [todo EXCEPT ![p] = state]
  /\ seen' = [seen EXCEPT ![p] = state \cap Lasting(level[p]) # {}]
  /\ leftOver' = [leftOver EXCEPT ![p] = enabled[p] # {}]
  /\ robbed' = [robbed EXCEPT ![p] = FALSE]
  /\ UNCHANGED <<lineVars, enabled, taskVars>>

\* Mutant: setup_detection stops one register early.
SetupOneLess(p) ==
  /\ Runs(p)
  /\ call[p] \in {"setup", "blockSetup"}
  /\ \E k \in todo[p] :
       /\ FirstOf(k, todo[p])
       /\ todo' = [todo EXCEPT ![p] = @ \ {k}]
       /\ IF todo[p] # {k}
            THEN enabled' = [enabled EXCEPT ![p] = @ \cup {k}] /\ UNCHANGED <<call, current>>
            ELSE /\ call' = [call EXCEPT ![p] = IF @ = "setup" THEN "await" ELSE "spin"]
                 /\ current' = IF call[p] = "setup" THEN NoTask ELSE p
                 /\ UNCHANGED enabled
  /\ UNCHANGED <<lineVars, slot, owed, wanted, history>>

\* setup_detection: one register, in a critical section.  After the last one
\* the future is Pending, and block() starts to spin.
Setup(p) ==
  /\ Runs(p)
  /\ call[p] \in {"setup", "blockSetup"}
  /\ \E k \in todo[p] :
       /\ FirstOf(k, todo[p])
       /\ enabled' = [enabled EXCEPT ![p] = @ \cup {k}]
       /\ todo' = [todo EXCEPT ![p] = @ \ {k}]
       /\ IF todo[p] # {k}
            THEN UNCHANGED <<call, current>>
            ELSE /\ call' = [call EXCEPT ![p] = IF @ = "setup" THEN "await" ELSE "spin"]
                 /\ current' = IF call[p] = "setup" THEN NoTask ELSE p
  /\ UNCHANGED <<lineVars, slot, owed, wanted, history>>

\* Mutant: nobody looks whether the waker was still in its slot.
ResumeBlind(p) ==
  /\ Runs(p)
  /\ call[p] = "resume"
  /\ slot' = [slot EXCEPT ![p] = p]
  /\ call' = [call EXCEPT ![p] = "await"]
  /\ current' = NoTask
  /\ UNCHANGED <<lineVars, enabled, owed, wanted, todo, history>>

\* A later poll: if the waker was taken the interrupt routine took it.
Resume(p) ==
  /\ Runs(p)
  /\ call[p] = "resume"
  /\ \/ /\ slot[p] # NoTask
        /\ slot' = [slot EXCEPT ![p] = p]
        /\ call' = [call EXCEPT ![p] = "await"]
        /\ current' = NoTask
     \/ /\ slot[p] = NoTask
        /\ call' = [call EXCEPT ![p] = "ready"]
        /\ UNCHANGED <<slot, current>>
  /\ UNCHANGED <<lineVars, enabled, owed, wanted, todo, history>>

\* block() watches the bit of the pin in its first register.
Spin(p) ==
  /\ Runs(p)
  /\ call[p] = "spin"
  /\ \E k \in wanted[p] : FirstOf(k, wanted[p]) /\ k \notin enabled[p]
  /\ call' = [call EXCEPT ![p] = "ready"]
  /\ UNCHANGED <<lineVars, enabled, slot, taskVars, wanted, todo, history>>

\* The task runs again and drops the future: a Detector has no Drop.
Cancel(p) ==
  /\ MayCancel
  /\ Runs(p)
  /\ call[p] = "resume"
  /\ call' = [call EXCEPT ![p] = "none"]
  /\ UNCHANGED <<lineVars, enabled, slot, taskVars, wanted, todo, history>>

DetectorStep(p) == Yield(p) \/ Setup(p) \/ Resume(p) \/ Spin(p)

Next ==
  \/ \E p \in Pins : Change(p)
  \/ \E p \in Pins : Sense(p)
  \/ \E b \in {0, 1} : Handle(b)
  \/ Acknowledge
  \/ \E p \in Pins : PollTask(p)
  \/ \E p \in Pins : WakeOther(p)
  \/ \E p \in Pins, s \in States, m \in Modes : StartDetect(p, s, m)
  \/ \E p \in Pins : Cancel(p)
  \/ \E p \in Pins : DetectorStep(p)

Spec == Init /\ [][Next]_vars

\* Code runs, the executor polls what was woken (Executor!WokenIsPolled), a
\* level that lasts is sensed and a pending interrupt is taken, of both banks
\* in one entry of the handler.
Fairness ==
  /\ \A p \in Pins : /\ WF_vars(DetectorStep(p))
                     /\ SF_vars(PollTask(p))
                     /\ WF_vars(Sense(p))
  /\ \A b \in {0, 1} : SF_vars(Handle(b))
  /\ WF_vars(Acknowledge)

FairSpec == Spec /\ Fairness

-----------------------------------------------------------------------------
(* Properties.                                                             *)

\* gpio.rs:288-291, 343-374, 396-443: a detector is ready, and block() returns,
\* only after its event; what else may end it is a detect register an earlier
\* detector of that pin left set, and, a future only, the interrupt of a pin of
\* the other bank that takes its slot: never a spurious poll, the waker of a
\* dropped future or a pin of its own bank.
OnlyLeftOversMislead ==
  \A p \in Pins : call[p] = "ready" => seen[p] \/ leftOver[p] \/ robbed[p]

\* gpio.rs:354-367, 402-443: a task that awaits a detector on a pin of the
\* first bank will be told of the event, whatever happens on either bank:
\* unless it is to be polled anyway, its waker is in its slot and all the
\* registers of its state are set.
DetectorArmed ==
  \A p \in FirstBank : call[p] = "await" /\ p \notin owed =>
    slot[p] = p /\ wanted[p] \subseteq enabled[p]

\* gpio.rs:362-373, 402-425: a detector of the first bank that awaits an event
\* the hardware has detected becomes ready, or is dropped, unless some task is
\* for ever in the loop of block().
DetectionEnds ==
  \/ <>[](current # NoTask)
  \/ \A p \in FirstBank :
       call[p] = "await" /\ status[p] ~> call[p] \in {"none", "ready"}

\* gpio.rs:290-291: "You can either use this struct as a future, or call
\* [`Detector::block()`] to block until the event has occured", of any pin.
EveryDetectorArmed ==
  \A p \in Pins : call[p] = "await" /\ p \notin owed =>
    slot[p] = p /\ wanted[p] \subseteq enabled[p]

=============================================================================
