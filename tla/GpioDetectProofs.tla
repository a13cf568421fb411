-------------------------- MODULE GpioDetectProofs --------------------------
(***************************************************************************)
(* For any set of pins, of states and of ways to wait, cancelled or not:   *)
(* no detector of the first bank misses its interrupt, and of a detector   *)
(* that ends without its event it is known what has ended it.              *)
(***************************************************************************)
EXTENDS GpioDetect, TLAPS

\* TypeOK holds on both banks: neither handler leaves the slots.
LEMMA TypeIsKept == TypeOK /\ [Next]_vars => TypeOK'
<1> SUFFICES ASSUME TypeOK, [Next]_vars PROVE TypeOK'
  OBVIOUS
<1> USE GpioAssumption DEF TypeOK, Runs, lineVars, taskVars, callVars, history
<1>0. Pins \subseteq Slots
  BY DEF Slots
<1>1. ASSUME NEW p \in Pins, Change(p) \/ Sense(p) PROVE TypeOK'
  BY <1>1 DEF Change, Sense
<1>2. ASSUME NEW b \in {0, 1}, Handle(b) PROVE TypeOK'
  <2>1. Taken(b) \subseteq Slots
    BY DEF Taken, Raised, Slots
  <2>2. Woken(b) \subseteq Pins
    BY <2>1 DEF Woken
  <2>3. Raised(b) \subseteq Pins
    BY DEF Raised
  <2> QED
    BY <1>2, <2>2, <2>3 DEF Handle
<1>3. ASSUME NEW p \in Pins, PollTask(p) \/ WakeOther(p) \/ Cancel(p) PROVE TypeOK'
  BY <1>3 DEF PollTask, WakeOther, Cancel
<1>4. ASSUME NEW p \in Pins, NEW s \in States, NEW m \in Modes, StartDetect(p, s, m)
      PROVE  TypeOK'
  BY <1>0, <1>4 DEF StartDetect
<1>5. ASSUME NEW p \in Pins, DetectorStep(p) PROVE TypeOK'
  <2>1. CASE Setup(p)
    <3>1. PICK k \in todo[p] : /\ enabled' = [enabled EXCEPT ![p] = @ \cup {k}]
                              /\ todo' = [todo EXCEPT ![p] = @ \ {k}]
      BY <2>1 DEF Setup
    <3>2. k \in Kinds /\ todo' \in [Pins -> SUBSET Kinds] /\ enabled' \in [Pins -> SUBSET Kinds]
      BY <3>1
    <3>3. call' \in [Pins -> {"none", "setup", "blockSetup", "await", "resume", "spin", "ready"}]
            /\ current' \in Pins \cup {NoTask}
      BY <2>1 DEF Setup
    <3> QED
      BY <2>1, <3>2, <3>3 DEF Setup
  <2>2. CASE Yield(p)
    BY <2>2 DEF Yield
  <2>3. CASE Resume(p)
    BY <1>0, <2>3 DEF Resume
  <2>4. CASE Spin(p)
    BY <2>4 DEF Spin
  <2> QED
    BY <1>5, <2>1, <2>2, <2>3, <2>4 DEF DetectorStep
<1>6. CASE Acknowledge
  BY <1>6 DEF Acknowledge
<1>7. CASE UNCHANGED vars
  BY <1>7 DEF vars
<1> QED
  BY <1>1, <1>2, <1>3, <1>4, <1>5, <1>6, <1>7 DEF Next

\* gpio.rs:29, 343-374, 396-427: on both banks the handlers, the pins' tasks
\* and the dropped futures keep slots, registers and calls of their types.
THEOREM TypeCorrect == Spec => []TypeOK
<1>1. Init => TypeOK
  BY GpioAssumption DEF Init, TypeOK
<1> QED
  BY <1>1, TypeIsKept, PTL DEF Spec

-----------------------------------------------------------------------------
(* A task that awaits a detector of the first bank is told.                *)

\* A slot only ever holds the waker of the task of its pin.
SlotIsOwn == \A p \in Pins : slot[p] \in {p, NoTask}

\* A waker still in its slot: every register is set or about to be.
Watched ==
  \A p \in FirstBank : call[p] \in {"setup", "await", "resume"} /\ slot[p] # NoTask
                         => wanted[p] \subseteq enabled[p] \cup todo[p]

\* A waker that is gone: the task it was for is to be polled.
TakenIsWoken ==
  \A p \in FirstBank : call[p] \in {"setup", "await"} /\ slot[p] = NoTask => p \in owed

\* Only the running task sets up a detection, and it leaves nothing to do.
SetupRuns == \A p \in Pins : call[p] \in {"setup", "blockSetup"} => current = p
SetupDone == \A p \in Pins : call[p] \in {"await", "resume"} => todo[p] = {}

ArmedInv ==
  /\ TypeOK
  /\ SlotIsOwn
  /\ Watched
  /\ TakenIsWoken
  /\ SetupRuns
  /\ SetupDone

-----------------------------------------------------------------------------

LEMMA InitArmed == Init => ArmedInv
<1> SUFFICES ASSUME Init PROVE ArmedInv
  OBVIOUS
<1>1. TypeOK
  BY GpioAssumption DEF Init, TypeOK
<1>2. SlotIsOwn /\ Watched /\ TakenIsWoken
  BY DEF Init, SlotIsOwn, Watched, TakenIsWoken, FirstBank, Slots
<1>3. SetupRuns /\ SetupDone
  BY DEF Init, SetupRuns, SetupDone
<1> QED
  BY <1>1, <1>2, <1>3 DEF ArmedInv

\* The handler takes the waker of a raised pin of the first bank and wakes it;
\* so it does when the raised pin is one of the second bank with that bit.
LEMMA HandleKeepsArmed ==
  ASSUME ArmedInv, NEW b \in {0, 1}, Handle(b)
  PROVE  ArmedInv'
<1>1. Pins \subseteq Slots /\ Raised(b) \subseteq Pins /\ FirstBank \subseteq Pins
  BY DEF Slots, Raised, FirstBank
<1>2. \A p \in FirstBank : p \in Raised(b) => p \in Taken(b)
  BY DEF FirstBank, Taken
<1>3. \A p \in Pins : slot[p] \in {p, NoTask}
  BY DEF ArmedInv, SlotIsOwn
<1>4. \A p \in Pins : p \in Taken(b) /\ slot[p] # NoTask => p \in Woken(b)
  BY <1>3 DEF Woken
<1>5. /\ UNCHANGED <<call, wanted, todo, current>>
      /\ slot' = [s \in Slots |-> IF s \in Taken(b) THEN NoTask ELSE slot[s]]
      /\ owed' = owed \cup Woken(b)
      /\ enabled' = [p \in Pins |-> IF p \in Raised(b) THEN enabled[p] \ Cleared ELSE enabled[p]]
  BY DEF Handle, callVars
<1>6. TypeOK'
  BY TypeIsKept DEF ArmedInv, Next
<1>7. SlotIsOwn'
  BY <1>1, <1>3, <1>5 DEF SlotIsOwn
<1>8. Watched'
  BY <1>1, <1>2, <1>5 DEF ArmedInv, Watched
<1>9. TakenIsWoken'
  BY <1>1, <1>4, <1>5 DEF ArmedInv, TakenIsWoken
<1>10. SetupRuns' /\ SetupDone'
  BY <1>5 DEF ArmedInv, SetupRuns, SetupDone
<1> QED
  BY <1>6, <1>7, <1>8, <1>9, <1>10 DEF ArmedInv

\* The steps of the task of a pin.
LEMMA TaskKeepsArmed ==
  ASSUME ArmedInv, NEW p \in Pins,
         \/ PollTask(p)
         \/ WakeOther(p)
         \/ \E s \in States, m \in Modes : StartDetect(p, s, m)
         \/ Cancel(p)
         \/ DetectorStep(p)
  PROVE  ArmedInv'
<1> USE GpioAssumption DEF ArmedInv, Runs, lineVars, taskVars, callVars, history
<1>0. Pins \subseteq Slots /\ FirstBank \subseteq Pins
  BY DEF Slots, FirstBank
<1>1. CASE PollTask(p)
  BY <1>0, <1>1 DEF PollTask, TypeOK, SlotIsOwn, Watched, TakenIsWoken, SetupRuns, SetupDone
<1>2. CASE WakeOther(p)
  BY <1>0, <1>2 DEF WakeOther, TypeOK, SlotIsOwn, Watched, TakenIsWoken, SetupRuns, SetupDone
<1>3. ASSUME NEW s \in States, NEW m \in Modes, StartDetect(p, s, m)
      PROVE  ArmedInv'
  <2>1. TypeOK'
    BY <1>0, <1>3 DEF StartDetect, TypeOK
  <2>2. SlotIsOwn'
    BY <1>0, <1>3 DEF StartDetect, TypeOK, SlotIsOwn
  <2>3. Watched' /\ TakenIsWoken'
    BY <1>0, <1>3 DEF StartDetect, TypeOK, Watched, TakenIsWoken
  <2>4. SetupRuns' /\ SetupDone'
    BY <1>3 DEF StartDetect, TypeOK, SetupRuns, SetupDone
  <2> QED
    BY <2>1, <2>2, <2>3, <2>4
<1>4. CASE Cancel(p)
  BY <1>0, <1>4 DEF Cancel, TypeOK, SlotIsOwn, Watched, TakenIsWoken, SetupRuns, SetupDone
<1>5. CASE Yield(p)
  BY <1>0, <1>5 DEF Yield, TypeOK, SlotIsOwn, Watched, TakenIsWoken, SetupRuns, SetupDone
<1>6. CASE Setup(p)
  <2>1. PICK k \in todo[p] :
          /\ enabled' = [enabled EXCEPT ![p] = @ \cup {k}]
          /\ todo' = [todo EXCEPT ![p] = @ \ {k}]
          /\ IF todo[p] # {k}
               THEN UNCHANGED <<call, current>>
               ELSE /\ call' = [call EXCEPT ![p] = IF @ = "setup" THEN "await" ELSE "spin"]
                    /\ current' = IF call[p] = "setup" THEN NoTask ELSE p
    BY <1>6 DEF Setup, history
  <2>2. /\ call[p] \in {"setup", "blockSetup"} /\ current = p
        /\ UNCHANGED <<slot, owed, wanted, level, status, acking, seen, leftOver, robbed>>
    BY <1>6 DEF Setup, history
  <2>3. k \in Kinds
    BY <2>1 DEF TypeOK
  <2>4. TypeOK'
    BY <1>0, <2>1, <2>2, <2>3 DEF TypeOK
  <2>5. SlotIsOwn'
    BY <2>2 DEF SlotIsOwn
  <2>6. \A q \in Pins : wanted[q] \subseteq enabled[q] \cup todo[q]
                          => wanted'[q] \subseteq enabled'[q] \cup todo'[q]
    BY <2>1, <2>2 DEF TypeOK
  <2>7. \A q \in Pins : call'[q] \in {"setup", "await", "resume"} /\ call'[q] # call[q]
                          => call[q] = "setup" /\ q = p
    BY <2>1, <2>2 DEF TypeOK
  <2>8. Watched' /\ TakenIsWoken'
    BY <1>0, <2>2, <2>6, <2>7 DEF Watched, TakenIsWoken
  <2>9. SetupRuns' /\ SetupDone'
    BY <2>1, <2>2 DEF SetupRuns, SetupDone, TypeOK
  <2> QED
    BY <2>4, <2>5, <2>8, <2>9
<1>7. CASE Resume(p)
  BY <1>0, <1>7 DEF Resume, TypeOK, SlotIsOwn, Watched, TakenIsWoken, SetupRuns, SetupDone
<1>8. CASE Spin(p)
  BY <1>0, <1>8 DEF Spin, TypeOK, SlotIsOwn, Watched, TakenIsWoken, SetupRuns, SetupDone
<1> QED
  BY <1>1, <1>2, <1>3, <1>4, <1>5, <1>6, <1>7, <1>8 DEF DetectorStep

LEMMA NextKeepsArmed == ArmedInv /\ [Next]_vars => ArmedInv'
<1> SUFFICES ASSUME ArmedInv, [Next]_vars PROVE ArmedInv'
  OBVIOUS
<1>1. ASSUME NEW p \in Pins, Change(p) \/ Sense(p) PROVE ArmedInv'
  BY <1>1 DEF ArmedInv, Change, Sense, TypeOK, SlotIsOwn, Watched, TakenIsWoken,
     SetupRuns, SetupDone, taskVars, callVars, history
<1>2. CASE UNCHANGED vars
  BY <1>2 DEF vars, ArmedInv, TypeOK, SlotIsOwn, Watched, TakenIsWoken,
     SetupRuns, SetupDone, lineVars, taskVars, callVars, history
<1>3. CASE Acknowledge
  BY <1>3 DEF ArmedInv, Acknowledge, TypeOK, SlotIsOwn, Watched, TakenIsWoken,
     SetupRuns, SetupDone, taskVars, callVars, history
<1> QED
  BY <1>1, <1>2, <1>3, HandleKeepsArmed, TaskKeepsArmed DEF Next

\* gpio.rs:340-375, 396-443: a task that awaits a detector of the first bank is
\* never left without its waker in its slot or without its registers set,
\* however interrupts of either bank, spurious polls and dropped futures
\* interleave.
THEOREM NoLostEvent == Spec => []DetectorArmed
<1>1. ArmedInv => DetectorArmed
  <2>1. FirstBank \subseteq Pins
    BY DEF FirstBank
  <2> QED
    BY <2>1 DEF ArmedInv, SlotIsOwn, Watched, TakenIsWoken, SetupDone, DetectorArmed
<1>2. Init => ArmedInv
  BY InitArmed
<1>3. ArmedInv /\ [Next]_vars => ArmedInv'
  BY NextKeepsArmed
<1> QED
  BY <1>1, <1>2, <1>3, PTL DEF Spec

-----------------------------------------------------------------------------
(* What a detector that is ready has seen.                                 *)

\* The registers of a pin are cleared before its status bit, and until that is
\* cleared no task runs.
StatusIsSet == \A p \in Pins : status[p] => enabled[p] # {} \/ p \in acking

\* A level that is there when a detector starts, or comes after, is seen.
LevelIsSeen ==
  \A p \in Pins : Waiting(p) /\ ~ seen[p] => wanted[p] \cap Lasting(level[p]) = {}

Quiet(p) == Waiting(p) /\ ~ seen[p] /\ ~ leftOver[p] /\ ~ robbed[p]

\* Nothing has touched a detector that saw nothing, found nothing set and was
\* not robbed of its waker.
QuietIsUntouched ==
  \A p \in Pins : Quiet(p) =>
    /\ ~ status[p]
    /\ enabled[p] \cup todo[p] = wanted[p]
    /\ Awaited(p) => slot[p] # NoTask

SpinHasSetUp == \A p \in Pins : call[p] = "spin" => todo[p] = {}

SeenInv ==
  /\ StatusIsSet
  /\ LevelIsSeen
  /\ QuietIsUntouched
  /\ SpinHasSetUp
  /\ OnlyLeftOversMislead

\* The handler takes nothing from a pin it was not raised for, but the waker
\* of a future of the other bank, which it robs.
LEMMA HandleKeepsSeen ==
  ASSUME TypeOK, SeenInv, NEW b \in {0, 1}, Handle(b)
  PROVE  SeenInv'
<1>1. Raised(b) \subseteq Pins /\ Pins \subseteq Slots
  BY DEF Raised, Slots
<1>2. /\ UNCHANGED <<level, status, call, wanted, todo, seen, leftOver>>
      /\ slot' = [s \in Slots |-> IF s \in Taken(b) THEN NoTask ELSE slot[s]]
      /\ enabled' = [p \in Pins |-> IF p \in Raised(b) THEN enabled[p] \ Cleared ELSE enabled[p]]
      /\ acking = {} /\ acking' = Raised(b)
      /\ robbed' = [p \in Pins |-> robbed[p] \/ p \in Victims(b)]
  BY DEF Handle, callVars
<1>3. \A p \in Pins : /\ Waiting(p)' = Waiting(p) /\ Awaited(p)' = Awaited(p)
                      /\ robbed[p] => robbed'[p]
                      /\ Quiet(p)' => Quiet(p)
  BY <1>2 DEF Waiting, Awaited, Quiet
<1>4. ASSUME NEW p \in Pins, Quiet(p)'
      PROVE  /\ enabled'[p] = enabled[p]
             /\ Awaited(p) => slot'[p] # NoTask
  <2>1. Quiet(p) /\ ~ status[p] /\ (Awaited(p) => slot[p] # NoTask)
    BY <1>3, <1>4 DEF SeenInv, QuietIsUntouched
  <2>2. p \notin Raised(b)
    BY <2>1 DEF Raised
  <2>3. p \notin Victims(b)
    BY <1>2, <1>4 DEF Quiet
  <2>4. Awaited(p) => p \notin Taken(b)
    BY <2>2, <2>3 DEF Victims
  <2> QED
    BY <1>1, <1>2, <2>1, <2>2, <2>4
<1>5. StatusIsSet'
  BY <1>2 DEF SeenInv, StatusIsSet, Raised
<1>6. LevelIsSeen'
  BY <1>2, <1>3 DEF SeenInv, LevelIsSeen
<1>7. QuietIsUntouched'
  BY <1>2, <1>3, <1>4 DEF SeenInv, QuietIsUntouched
<1>8. SpinHasSetUp' /\ OnlyLeftOversMislead'
  BY <1>2, <1>3 DEF SeenInv, SpinHasSetUp, OnlyLeftOversMislead
<1> QED
  BY <1>5, <1>6, <1>7, <1>8 DEF SeenInv

\* The status bits the handler clears are of pins that are not quiet.
LEMMA AcknowledgeKeepsSeen ==
  ASSUME TypeOK, SeenInv, Acknowledge
  PROVE  SeenInv'
<1>1. /\ UNCHANGED <<level, enabled, slot, call, wanted, todo, seen, leftOver, robbed>>
      /\ acking' = {}
      /\ \A p \in Pins : status'[p] <=> status[p] /\ p \notin acking
  BY DEF Acknowledge, callVars, history, TypeOK
<1>2. \A p \in Pins : Waiting(p)' = Waiting(p) /\ Awaited(p)' = Awaited(p)
                        /\ Quiet(p)' = Quiet(p)
  BY <1>1 DEF Waiting, Awaited, Quiet
<1>3. StatusIsSet' /\ LevelIsSeen'
  BY <1>1, <1>2 DEF SeenInv, StatusIsSet, LevelIsSeen
<1>4. QuietIsUntouched' /\ SpinHasSetUp' /\ OnlyLeftOversMislead'
  BY <1>1, <1>2 DEF SeenInv, QuietIsUntouched, SpinHasSetUp, OnlyLeftOversMislead
<1> QED
  BY <1>3, <1>4 DEF SeenInv

\* An event that raises the status of a pin is one its detector sees.
LEMMA LineKeepsSeen ==
  ASSUME TypeOK, SeenInv, NEW p \in Pins, Change(p) \/ Sense(p)
  PROVE  SeenInv'
<1>0. /\ \A q \in Pins : Waiting(q)' = Waiting(q)
      /\ \A q \in Pins : Awaited(q)' = Awaited(q)
      /\ UNCHANGED <<enabled, acking, slot, call, wanted, todo, leftOver, robbed>>
  BY DEF Change, Sense, callVars, Waiting, Awaited, history
<1>1. ASSUME NEW q \in Pins, q # p
      PROVE  level'[q] = level[q] /\ status'[q] = status[q] /\ seen'[q] = seen[q]
  BY <1>1 DEF Change, Sense, TypeOK, history
<1>2. seen[p] => seen'[p]
  BY DEF Change, Sense, TypeOK, history
<1>3. /\ status'[p] => enabled[p] # {} \/ p \in acking
      /\ status[p] => status'[p]
  BY DEF Change, Sense, TypeOK, SeenInv, StatusIsSet
<1>4. Waiting(p) /\ ~ seen'[p] => wanted[p] \cap Lasting(level'[p]) = {}
  <2>1. CASE Change(p)
    <3>1. /\ level'[p] = ~ level[p]
          /\ seen'[p] = (seen[p] \/ (Waiting(p)
               /\ wanted[p] \cap (EdgesTo(~ level[p]) \cup Lasting(~ level[p])) # {}))
      BY <2>1 DEF Change, TypeOK
    <3> QED
      BY <3>1
  <2>2. CASE Sense(p)
    BY <2>2 DEF Sense, SeenInv, LevelIsSeen, history
  <2> QED
    BY <2>1, <2>2
<1>5. ASSUME Quiet(p)' PROVE Quiet(p) /\ ~ status'[p]
  <2>1. Quiet(p) /\ Waiting(p) /\ ~ seen'[p]
    BY <1>0, <1>2, <1>5 DEF Quiet
  <2>2. ~ status[p] /\ enabled[p] \subseteq wanted[p]
    BY <2>1 DEF SeenInv, QuietIsUntouched
  <2>3. CASE Change(p)
    <3>1. /\ status'[p] = (status[p]
               \/ enabled[p] \cap (EdgesTo(~ level[p]) \cup Lasting(~ level[p])) # {})
          /\ seen'[p] = (seen[p] \/ (Waiting(p)
               /\ wanted[p] \cap (EdgesTo(~ level[p]) \cup Lasting(~ level[p])) # {}))
      BY <2>3 DEF Change, TypeOK
    <3> QED
      BY <2>1, <2>2, <3>1
  <2>4. CASE Sense(p)
    BY <2>1, <2>2, <2>4 DEF Sense, SeenInv, LevelIsSeen, Quiet
  <2> QED
    BY <2>1, <2>3, <2>4
<1>6. StatusIsSet'
  BY <1>0, <1>1, <1>3 DEF SeenInv, StatusIsSet, TypeOK
<1>7. LevelIsSeen'
  BY <1>0, <1>1, <1>4 DEF SeenInv, LevelIsSeen
<1>8. QuietIsUntouched'
  BY <1>0, <1>1, <1>5 DEF SeenInv, QuietIsUntouched, Quiet
<1>9. SpinHasSetUp' /\ OnlyLeftOversMislead'
  BY <1>0, <1>1, <1>2 DEF SeenInv, SpinHasSetUp, OnlyLeftOversMislead
<1> QED
  BY <1>6, <1>7, <1>8, <1>9 DEF SeenInv

\* The steps of the task of a pin.
LEMMA TaskKeepsSeen ==
  ASSUME TypeOK, SeenInv, NEW p \in Pins,
         \/ PollTask(p)
         \/ WakeOther(p)
         \/ \E s \in States, m \in Modes : StartDetect(p, s, m)
         \/ Cancel(p)
         \/ DetectorStep(p)
  PROVE  SeenInv'
<1> USE GpioAssumption DEF Runs, lineVars, taskVars, callVars, history, Waiting, Awaited, Quiet
<1>0. Pins \subseteq Slots
  BY DEF Slots
<1>1. CASE PollTask(p)
  BY <1>1 DEF PollTask, TypeOK, SeenInv, StatusIsSet, LevelIsSeen, QuietIsUntouched,
              SpinHasSetUp, OnlyLeftOversMislead
<1>2. CASE WakeOther(p) \/ Yield(p)
  BY <1>2 DEF WakeOther, Yield, TypeOK, SeenInv, StatusIsSet, LevelIsSeen, QuietIsUntouched,
              SpinHasSetUp, OnlyLeftOversMislead
<1>3. ASSUME NEW s \in States, NEW m \in Modes, StartDetect(p, s, m)
      PROVE  SeenInv'
  <2>1. /\ call'[p] \in {"setup", "blockSetup"} /\ wanted'[p] = s /\ todo'[p] = s
        /\ seen'[p] = (s \cap Lasting(level[p]) # {}) /\ leftOver'[p] = (enabled[p] # {})
        /\ robbed'[p] = FALSE /\ acking = {}
        /\ call'[p] = "setup" => slot'[p] = p
        /\ UNCHANGED <<level, status, acking, enabled>>
    BY <1>0, <1>3 DEF StartDetect, TypeOK
  <2>2. \A q \in Pins \ {p} :
          /\ call'[q] = call[q] /\ wanted'[q] = wanted[q] /\ todo'[q] = todo[q]
          /\ seen'[q] = seen[q] /\ leftOver'[q] = leftOver[q] /\ slot'[q] = slot[q]
          /\ robbed'[q] = robbed[q]
    BY <1>0, <1>3 DEF StartDetect, TypeOK
  <2>3. LevelIsSeen' /\ SpinHasSetUp' /\ OnlyLeftOversMislead' /\ StatusIsSet'
    BY <2>1, <2>2
    DEF SeenInv, LevelIsSeen, SpinHasSetUp, OnlyLeftOversMislead, StatusIsSet
  <2>4. ASSUME Quiet(p)'
        PROVE  /\ ~ status'[p] /\ enabled'[p] \cup todo'[p] = wanted'[p]
               /\ Awaited(p)' => slot'[p] # NoTask
    <3>1. enabled[p] = {}
      <4>1. ~ leftOver'[p]
        BY <2>4
      <4> QED
        BY <2>1, <4>1
    <3>2. ~ status[p]
      BY <2>1, <3>1 DEF SeenInv, StatusIsSet
    <3> QED
      BY <2>1, <3>1, <3>2
  <2>5. QuietIsUntouched'
    BY <2>1, <2>2, <2>4 DEF SeenInv, QuietIsUntouched
  <2> QED
    BY <2>3, <2>5 DEF SeenInv
<1>4. CASE Cancel(p)
  BY <1>4 DEF Cancel, TypeOK, SeenInv, StatusIsSet, LevelIsSeen, QuietIsUntouched,
              SpinHasSetUp, OnlyLeftOversMislead
<1>5. CASE Setup(p)
  <2>1. PICK k \in todo[p] :
          /\ enabled' = [enabled EXCEPT ![p] = @ \cup {k}]
          /\ todo' = [todo EXCEPT ![p] = @ \ {k}]
          /\ IF todo[p] # {k}
               THEN UNCHANGED <<call, current>>
               ELSE /\ call' = [call EXCEPT ![p] = IF @ = "setup" THEN "await" ELSE "spin"]
                    /\ current' = IF call[p] = "setup" THEN NoTask ELSE p
    BY <1>5 DEF Setup
  <2>2. /\ call[p] \in {"setup", "blockSetup"}
        /\ UNCHANGED <<slot, wanted, level, status, acking, seen, leftOver, robbed>>
    BY <1>5 DEF Setup
  <2>3. \A q \in Pins \ {p} :
          enabled'[q] = enabled[q] /\ todo'[q] = todo[q] /\ call'[q] = call[q]
    BY <2>1 DEF TypeOK
  <2>4. enabled'[p] = enabled[p] \cup {k} /\ todo'[p] = todo[p] \ {k}
    BY <2>1 DEF TypeOK
  <2>5. \/ call'[p] = call[p]
        \/ call'[p] = (IF call[p] = "setup" THEN "await" ELSE "spin") /\ todo'[p] = {}
    BY <2>1, <2>4 DEF TypeOK
  <2>6. StatusIsSet' /\ LevelIsSeen' /\ SpinHasSetUp' /\ OnlyLeftOversMislead'
    BY <2>2, <2>3, <2>4, <2>5
    DEF SeenInv, StatusIsSet, LevelIsSeen, SpinHasSetUp, OnlyLeftOversMislead
  <2>7. enabled'[p] \cup todo'[p] = enabled[p] \cup todo[p]
    BY <2>1, <2>4
  <2>8. QuietIsUntouched'
    BY <2>2, <2>3, <2>5, <2>7 DEF SeenInv, QuietIsUntouched
  <2> QED
    BY <2>6, <2>8 DEF SeenInv
<1>6. CASE Resume(p)
  <2>1. /\ call[p] = "resume"
        /\ \/ call'[p] = "await" /\ slot'[p] # NoTask
           \/ call'[p] = "ready" /\ slot[p] = NoTask
        /\ UNCHANGED <<enabled, wanted, todo, level, status, acking, seen, leftOver, robbed>>
    BY <1>0, <1>6 DEF Resume, TypeOK
  <2>2. \A q \in Pins \ {p} : call'[q] = call[q] /\ slot'[q] = slot[q]
    BY <1>0, <1>6 DEF Resume, TypeOK
  <2>3. StatusIsSet' /\ LevelIsSeen' /\ SpinHasSetUp'
    BY <2>1, <2>2 DEF SeenInv, StatusIsSet, LevelIsSeen, SpinHasSetUp
  <2>4. QuietIsUntouched'
    BY <2>1, <2>2 DEF SeenInv, QuietIsUntouched
  <2>5. slot[p] = NoTask => seen[p] \/ leftOver[p] \/ robbed[p]
    BY <2>1 DEF SeenInv, QuietIsUntouched
  <2>6. OnlyLeftOversMislead'
    BY <2>1, <2>2, <2>5 DEF SeenInv, OnlyLeftOversMislead
  <2> QED
    BY <2>3, <2>4, <2>6 DEF SeenInv
<1>7. CASE Spin(p)
  <2>1. /\ call[p] = "spin" /\ call'[p] = "ready"
        /\ \E k \in wanted[p] : k \notin enabled[p]
        /\ UNCHANGED <<enabled, slot, wanted, todo, level, status, acking, seen, leftOver, robbed>>
    BY <1>7 DEF Spin, TypeOK
  <2>2. \A q \in Pins \ {p} : call'[q] = call[q]
    BY <1>7 DEF Spin, TypeOK
  <2>3. seen[p] \/ leftOver[p] \/ robbed[p]
    BY <2>1 DEF SeenInv, QuietIsUntouched, SpinHasSetUp
  <2>4. StatusIsSet' /\ LevelIsSeen' /\ SpinHasSetUp' /\ QuietIsUntouched'
    BY <2>1, <2>2 DEF SeenInv, StatusIsSet, LevelIsSeen, SpinHasSetUp, QuietIsUntouched
  <2>5. OnlyLeftOversMislead'
    BY <2>1, <2>2, <2>3 DEF SeenInv, OnlyLeftOversMislead
  <2> QED
    BY <2>4, <2>5 DEF SeenInv
<1> QED
  BY <1>1, <1>2, <1>3, <1>4, <1>5, <1>6, <1>7 DEF DetectorStep

\* gpio.rs:288-291, 343-374, 396-443: on both banks a detector is ready, and
\* block() returns, only after its event, or because a detect register was
\* still set when it started, or, a future, because the interrupt of a pin of
\* the other bank has emptied its slot: no other pin, spurious poll or waker of
\* a dropped future ends it.
THEOREM NoFalseAlarm == Spec => []OnlyLeftOversMislead
<1>1. Init => TypeOK /\ SeenInv
  BY GpioAssumption
  DEF Init, TypeOK, SeenInv, StatusIsSet, LevelIsSeen, QuietIsUntouched, SpinHasSetUp,
      OnlyLeftOversMislead, Quiet, Waiting, Awaited
<1>2. SeenInv => OnlyLeftOversMislead
  BY DEF SeenInv
<1>3. TypeOK /\ SeenInv /\ [Next]_vars => TypeOK' /\ SeenInv'
  <2> SUFFICES ASSUME TypeOK, SeenInv, [Next]_vars PROVE SeenInv'
    BY TypeIsKept
  <2>1. CASE UNCHANGED vars
    BY <2>1
    DEF vars, lineVars, taskVars, callVars, history, SeenInv, StatusIsSet, LevelIsSeen,
        QuietIsUntouched, SpinHasSetUp, OnlyLeftOversMislead, Quiet, Waiting, Awaited
  <2> QED
    BY <2>1, HandleKeepsSeen, AcknowledgeKeepsSeen, LineKeepsSeen,
       TaskKeepsSeen DEF Next
<1> QED
  BY <1>1, <1>2, <1>3, PTL DEF Spec

=============================================================================
