------------------------ MODULE CriticalSectionProofs ------------------------
(***************************************************************************)
(* Theorems about CriticalSection, for every nesting depth.                *)
(***************************************************************************)
EXTENDS CriticalSection, TLAPS

\* The f outermost sections of the thread are exposed and those inside them
\* are whole; the outermost of the whole ones, and no other of them, will
\* enable interrupts, and the thread is masked when there is one.
ExposedUpTo(f) ==
  /\ f \in 0 .. depth["thread"]
  /\ exposed = 1 .. f
  /\ \A k \in restore["thread"] : k <= f + 1 /\ k <= depth["thread"]
  /\ f < depth["thread"] => f + 1 \in restore["thread"] /\ running = "thread" /\ masked
  /\ f = depth["thread"] /\ running = "thread" => ~ masked
  /\ pc["thread"] = "disable" => f = depth["thread"] /\ f < MaxDepth

ThreadInv == \E f \in Nat : ExposedUpTo(f)

\* The handler runs masked, between no two instructions of an acquire, and its
\* sections ask for nothing.
IsrInv ==
  /\ running = "isr" => masked
  /\ depth["isr"] > 0 => running = "isr"
  /\ restore["isr"] = {}
  /\ pc["isr"] = "run"

IInv == TypeOK /\ ThreadInv /\ IsrInv

\* The two contexts, without looking at the set that holds them.
LEMMA TwoContexts ==
  /\ "thread" \in Contexts /\ "isr" \in Contexts
  /\ \A c \in Contexts : c = "thread" \/ c = "isr"
BY DEF Contexts

\* The innermost section is whole when not all of them are exposed.
LEMMA WholeAbove ==
  ASSUME TypeOK, NEW f \in Nat, ExposedUpTo(f)
  PROVE  Whole <=> f < depth["thread"]
BY TwoContexts DEF TypeOK, ExposedUpTo, Whole

\* The main thread starts unmasked, outside of every section.
LEMMA InvInit == Init => IInv
<1> SUFFICES ASSUME Init PROVE IInv
  OBVIOUS
<1> USE MaxDepthAssumption, TwoContexts DEF Init
<1>1. TypeOK
  <2>1. 0 \in 0 .. MaxDepth
    OBVIOUS
  <2> QED
    BY <2>1 DEF TypeOK
<1>2. ExposedUpTo(0)
  <2>1. 1 .. 0 = {}
    OBVIOUS
  <2> QED
    BY <2>1 DEF ExposedUpTo
<1>3. IsrInv
  BY DEF IsrInv
<1> QED
  BY <1>1, <1>2, <1>3 DEF IInv, ThreadInv

\* A section of the thread opens whose acquire masks: it is whole.
LEMMA OpensWhole ==
  ASSUME IInv, Disable("thread")
  PROVE  IInv'
<1> USE MaxDepthAssumption, TwoContexts DEF IInv
<1>1. PICK f \in Nat : ExposedUpTo(f)
  BY DEF ThreadInv
<1>2. f = depth["thread"] /\ f < MaxDepth /\ f + 1 \in Levels /\ f + 1 \in 0 .. MaxDepth
  BY <1>1 DEF Disable, ExposedUpTo, Levels
<1>3. /\ depth'["thread"] = f + 1 /\ depth'["isr"] = depth["isr"]
      /\ restore'["thread"] = restore["thread"] \cup {f + 1}
      /\ restore'["isr"] = restore["isr"]
      /\ pc'["thread"] = "run" /\ pc'["isr"] = pc["isr"]
      /\ running = "thread" /\ running' = "thread" /\ masked' /\ exposed' = exposed
  BY <1>2 DEF Disable, Deepen, WillRestore, TypeOK
<1>4. TypeOK'
  BY <1>2 DEF Disable, Deepen, WillRestore, TypeOK
<1>5. ExposedUpTo(f)'
  BY <1>1, <1>2, <1>3 DEF ExposedUpTo
<1>6. IsrInv'
  BY <1>3 DEF IsrInv
<1> QED
  BY <1>4, <1>5, <1>6 DEF ThreadInv

\* A section of the thread opens when the handler returns, without its cpsid:
\* it is exposed, whether it has a token or not.
LEMMA OpensExposed ==
  ASSUME IInv, running = "isr", running' = "thread", ~ masked', masked' \in BOOLEAN,
         irq' \in BOOLEAN, depth["isr"] = 0, depth["thread"] < MaxDepth,
         Deepen("thread"), Expose, WillRestore("thread") \/ UNCHANGED restore,
         pc' = [pc EXCEPT !["thread"] = "run"]
  PROVE  IInv'
<1> USE MaxDepthAssumption, TwoContexts DEF IInv
<1>1. PICK f \in Nat : ExposedUpTo(f)
  BY DEF ThreadInv
<1>2. f = depth["thread"] /\ f + 1 \in Levels /\ f + 1 \in 0 .. MaxDepth
  BY <1>1 DEF ExposedUpTo, Levels, TypeOK
<1>3. /\ depth'["thread"] = f + 1 /\ depth'["isr"] = 0
      /\ restore'["thread"] \subseteq restore["thread"] \cup {f + 1}
      /\ restore'["isr"] = restore["isr"]
      /\ pc'["thread"] = "run" /\ pc'["isr"] = pc["isr"]
      /\ exposed' = exposed \cup {f + 1}
  BY <1>2 DEF Deepen, WillRestore, Expose, TypeOK
<1>4. TypeOK'
  BY <1>2 DEF Deepen, WillRestore, Expose, TypeOK
<1>5. ExposedUpTo(f + 1)'
  <2>1. exposed' = 1 .. f + 1
    BY <1>1, <1>3 DEF ExposedUpTo
  <2>2. \A k \in restore'["thread"] : k <= f + 1
    BY <1>1, <1>3 DEF ExposedUpTo
  <2>3. \A k \in restore'["thread"] : k \in Int
    BY <1>4 DEF TypeOK, Levels
  <2> QED
    BY <1>3, <2>1, <2>2, <2>3 DEF ExposedUpTo
<1>6. IsrInv'
  BY <1>3 DEF IsrInv
<1> QED
  BY <1>4, <1>5, <1>6 DEF ThreadInv

\* A section that opens in a masked context asks for nothing.
LEMMA NestsWhole ==
  ASSUME IInv, NEW c \in Contexts, AcquireNested(c)
  PROVE  IInv'
<1> USE MaxDepthAssumption, TwoContexts DEF IInv
<1>1. PICK f \in Nat : ExposedUpTo(f)
  BY DEF ThreadInv
<1>2. /\ depth["thread"] \in 0 .. MaxDepth /\ depth["isr"] \in 0 .. MaxDepth
      /\ depth[c] + 1 \in 0 .. MaxDepth
  BY DEF AcquireNested, TypeOK
<1>3. TypeOK'
  BY <1>2 DEF AcquireNested, Deepen, TypeOK
<1>4. /\ depth'[c] = depth[c] + 1 /\ \A d \in Contexts \ {c} : depth'[d] = depth[d]
      /\ running = c /\ masked
      /\ UNCHANGED <<masked, running, pc, restore, exposed>>
  BY DEF AcquireNested, Deepen, TypeOK
<1>5. ExposedUpTo(f)'
  <2>1. CASE c = "thread"
    <3>1. f < depth["thread"]
      BY <1>1, <1>2, <1>4, <2>1 DEF ExposedUpTo
    <3>2. depth'["thread"] = depth["thread"] + 1
      BY <1>4, <2>1
    <3>3. \A k \in restore["thread"] : k \in Int
      BY DEF TypeOK, Levels
    <3> QED
      BY <1>1, <1>2, <1>4, <3>1, <3>2, <3>3 DEF ExposedUpTo
  <2>2. CASE c = "isr"
    <3>1. depth'["thread"] = depth["thread"]
      BY <1>4, <2>2
    <3> QED
      BY <1>1, <1>4, <3>1 DEF ExposedUpTo
  <2> QED
    BY <2>1, <2>2
<1>6. IsrInv'
  BY <1>2, <1>4 DEF IsrInv
<1> QED
  BY <1>3, <1>5, <1>6 DEF ThreadInv

\* The innermost section ends.
LEMMA ReleaseKeeps ==
  ASSUME IInv, NEW c \in Contexts, Release(c)
  PROVE  IInv'
<1> USE MaxDepthAssumption, TwoContexts DEF IInv
<1>0. /\ depth["thread"] \in 0 .. MaxDepth /\ depth["isr"] \in 0 .. MaxDepth
      /\ \A k \in restore["thread"] : k \in 1 .. MaxDepth
  BY DEF TypeOK, Levels
<1>1. TypeOK'
  BY <1>0 DEF Release, Shallow, TypeOK
<1>2. PICK f \in Nat : ExposedUpTo(f)
  BY DEF ThreadInv
<1>3. CASE c = "thread"
  <2> DEFINE d == depth["thread"]
  <2>1. /\ depth'["thread"] = d - 1 /\ depth'["isr"] = depth["isr"]
        /\ restore'["thread"] = restore["thread"] \ {d}
        /\ restore'["isr"] = restore["isr"] /\ pc' = pc
        /\ running' = "thread" /\ running = "thread"
        /\ pc["thread"] = "run" /\ d > 0 /\ exposed' = exposed \ {d}
    BY <1>3 DEF Release, Shallow, TypeOK
  <2>2. masked' <=> masked /\ d \notin restore["thread"]
    BY <1>3 DEF Release
  <2>3. CASE f = d
    <3>1. ExposedUpTo(f - 1)'
      BY <1>0, <1>2, <2>1, <2>2, <2>3 DEF ExposedUpTo
    <3> QED
      BY <1>1, <2>1, <2>3, <3>1 DEF ThreadInv, IsrInv
  <2>4. CASE f < d
    <3>1. masked /\ f + 1 \in restore["thread"] /\ d \notin 1 .. f
      BY <1>0, <1>2, <2>4 DEF ExposedUpTo
    <3>2. exposed' = 1 .. f
      BY <1>2, <2>1, <3>1 DEF ExposedUpTo
    <3>3. \A k \in restore'["thread"] : k <= f + 1 /\ k <= d - 1
      BY <1>0, <1>2, <2>1 DEF ExposedUpTo
    <3>4. d \in restore["thread"] <=> d = f + 1
      BY <1>0, <1>2, <2>4, <3>1 DEF ExposedUpTo
    <3>5. ExposedUpTo(f)'
      BY <1>0, <2>1, <2>2, <2>4, <3>1, <3>2, <3>3, <3>4 DEF ExposedUpTo
    <3> QED
      BY <1>1, <2>1, <3>5 DEF ThreadInv, IsrInv
  <2> QED
    BY <1>0, <1>2, <2>3, <2>4 DEF ExposedUpTo
<1>4. CASE c = "isr"
  <2>1. /\ depth'["isr"] = depth["isr"] - 1 /\ depth'["thread"] = depth["thread"]
        /\ restore'["thread"] = restore["thread"] /\ restore'["isr"] = {}
        /\ pc' = pc /\ running' = "isr" /\ running = "isr"
    BY <1>4 DEF Release, Shallow, TypeOK, IsrInv
  <2>2. masked' = masked /\ exposed' = exposed
    BY <1>4 DEF Release, Shallow, IsrInv, TypeOK
  <2>3. ExposedUpTo(f)'
    BY <1>2, <2>1, <2>2 DEF ExposedUpTo
  <2> QED
    BY <1>1, <2>1, <2>2, <2>3 DEF ThreadInv, IsrInv
<1> QED
  BY <1>3, <1>4

\* The handler returns, an instruction further than it should.
LEMMA LeaveKeeps ==
  ASSUME IInv, LeaveIsr
  PROVE  IInv'
<1> USE MaxDepthAssumption, TwoContexts DEF IInv
<1>0. /\ running = "isr" /\ depth["isr"] = 0 /\ running' = "thread" /\ masked' = FALSE
      /\ irq' = FALSE
  BY DEF LeaveIsr
<1>1. PICK f \in Nat : ExposedUpTo(f)
  BY DEF ThreadInv
<1>2. f = depth["thread"] /\ (pc["thread"] = "disable" => f < MaxDepth)
  BY <1>0, <1>1 DEF ExposedUpTo, TypeOK
<1>3. CASE SkipDisable
  BY <1>0, <1>2, <1>3, OpensExposed DEF SkipDisable
<1>4. CASE SkipTest
  <2>1. CASE /\ pc' = [pc EXCEPT !["thread"] = "disable"]
             /\ UNCHANGED <<depth, restore, exposed>>
    <3>1. TypeOK'
      BY <1>0, <2>1 DEF TypeOK
    <3>2. pc'["isr"] = pc["isr"]
      BY <2>1 DEF TypeOK
    <3>3. ExposedUpTo(f)'
      BY <1>0, <1>1, <1>2, <1>4, <2>1 DEF ExposedUpTo, SkipTest
    <3> QED
      BY <1>0, <2>1, <3>1, <3>2, <3>3 DEF ThreadInv, IsrInv
  <2>2. CASE /\ pc' = [pc EXCEPT !["thread"] = "run"]
             /\ Deepen("thread")
             /\ Expose
             /\ UNCHANGED restore
    BY <1>0, <1>4, <2>2, OpensExposed DEF SkipTest
  <2> QED
    BY <1>4, <2>1, <2>2 DEF SkipTest
<1>5. CASE SkipOther
  <2>1. TypeOK'
    BY <1>0, <1>5 DEF SkipOther, TypeOK
  <2>2. ExposedUpTo(f)'
    BY <1>0, <1>1, <1>2, <1>5 DEF SkipOther, ExposedUpTo
  <2>3. IsrInv'
    BY <1>0, <1>5 DEF SkipOther, IsrInv
  <2> QED
    BY <2>1, <2>2, <2>3 DEF ThreadInv
<1> QED
  BY <1>3, <1>4, <1>5 DEF LeaveIsr

\* Every instruction of the two contexts and of the processor keeps IInv.
LEMMA InvIsInductive == IInv /\ [Next]_vars => IInv'
<1> SUFFICES ASSUME IInv, [Next]_vars PROVE IInv'
  OBVIOUS
<1> USE MaxDepthAssumption, TwoContexts DEF IInv
<1>0. PICK f \in Nat : ExposedUpTo(f)
  BY DEF ThreadInv
<1>1. ASSUME NEW c \in Contexts, AcquireNested(c) PROVE IInv'
  BY <1>1, NestsWhole
<1>2. ASSUME NEW c \in Contexts, AcquireOutermost(c) PROVE IInv'
  <2>1. c = "thread" /\ running = "thread" /\ ~ masked /\ depth["thread"] < MaxDepth
    BY <1>2 DEF AcquireOutermost, IsrInv
  <2>2. f = depth["thread"]
    BY <1>0, <2>1 DEF ExposedUpTo, TypeOK
  <2>3. TypeOK'
    BY <1>2 DEF AcquireOutermost, TypeOK
  <2>4. pc'["isr"] = pc["isr"]
    BY <2>1, <1>2 DEF AcquireOutermost, TypeOK
  <2>5. ExposedUpTo(f)'
    BY <1>0, <1>2, <2>1, <2>2 DEF AcquireOutermost, ExposedUpTo
  <2> QED
    BY <1>2, <2>3, <2>4, <2>5 DEF AcquireOutermost, ThreadInv, IsrInv
<1>3. ASSUME NEW c \in Contexts, Disable(c) PROVE IInv'
  <2>1. c = "thread"
    BY <1>3 DEF Disable, IsrInv
  <2> QED
    BY <1>3, <2>1, OpensWhole
<1>4. ASSUME NEW c \in Contexts, Release(c) PROVE IInv'
  BY <1>4, ReleaseKeeps
<1>5. CASE RaiseIrq
  <2>1. ExposedUpTo(f)'
    BY <1>0, <1>5 DEF RaiseIrq, ExposedUpTo
  <2> QED
    BY <1>5, <2>1 DEF RaiseIrq, TypeOK, ThreadInv, IsrInv
<1>6. CASE EnterIsr
  <2>1. ExposedUpTo(f)'
    BY <1>0, <1>6 DEF EnterIsr, ExposedUpTo
  <2> QED
    BY <1>6, <2>1 DEF EnterIsr, TypeOK, ThreadInv, IsrInv
<1>7. CASE LeaveIsr
  BY <1>7, LeaveKeeps
<1>8. CASE UNCHANGED vars
  <2>1. ExposedUpTo(f)'
    BY <1>0, <1>8 DEF vars, ExposedUpTo
  <2> QED
    BY <1>8, <2>1 DEF vars, TypeOK, ThreadInv, IsrInv
<1> QED
  BY <1>1, <1>2, <1>3, <1>4, <1>5, <1>6, <1>7, <1>8 DEF Next

LEMMA InvHolds == Spec => []IInv
BY InvInit, InvIsInductive, PTL DEF Spec

\* The CPSR bit, the open sections and their tokens are well formed.
THEOREM TypeCorrect == Spec => []TypeOK
<1>1. IInv => TypeOK
  BY DEF IInv
<1> QED
  BY <1>1, InvHolds, PTL

\* critical_section_impl.rs:12-24: the handler is kept out of a section of the
\* thread whose own acquire was whole, at every depth and inside sections that
\* are exposed too.  Of the body of an exposed section, outside of the whole
\* sections it contains, nothing is said.
THEOREM WholeSectionsSerialise == Spec => []Exclusion
<1>1. IInv => Exclusion
  BY WholeAbove DEF IInv, ThreadInv, ExposedUpTo, Exclusion
<1> QED
  BY <1>1, InvHolds, PTL

\* critical_section_impl.rs:26-33: the handler is never entered while it runs,
\* whatever sections it opens and closes.
THEOREM HandlerIsAlone == Spec => []NoReentry
<1>1. IInv => NoReentry
  BY DEF IInv, IsrInv, NoReentry
<1> QED
  BY <1>1, InvHolds, PTL

\* critical_section_impl.rs:26-33: interrupts are enabled again when, and only
\* when, the outermost of the whole sections is closed.
THEOREM MaskIsGivenBack == Spec => []Balanced
<1>1. IInv => Balanced
  <2> SUFFICES ASSUME IInv PROVE Balanced
    OBVIOUS
  <2>1. PICK f \in Nat : ExposedUpTo(f)
    BY DEF IInv, ThreadInv
  <2>2. Whole <=> f < depth["thread"]
    BY <2>1, WholeAbove DEF IInv
  <2>3. depth["thread"] \in Nat
    BY TwoContexts, MaxDepthAssumption DEF IInv, TypeOK
  <2> QED
    BY <2>1, <2>2, <2>3 DEF ExposedUpTo, Balanced
<1> QED
  BY <1>1, InvHolds, PTL

=============================================================================
