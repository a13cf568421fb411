--------------------------- MODULE CriticalSection ---------------------------
(***************************************************************************)
(* src/critical_section_impl.rs on a single core: `acquire` reads the CPSR *)
(* and, in a second instruction, sets its I bit unless it was set; it      *)
(* returns whether `release` must clear it.  Sections nest, in the main    *)
(* thread and in the interrupt handler, which boot.s enters with the I bit *)
(* set by the processor and leaves by restoring the interrupted CPSR.  The *)
(* processor leaves in LR_irq the address of the instruction to come plus  *)
(* 4, and `isr` returns to what LR_irq holds: one instruction is skipped.  *)
(***************************************************************************)
EXTENDS Integers

CONSTANT MaxDepth   \* bound on the nesting of sections in one context

ASSUME MaxDepthAssumption == MaxDepth \in Nat \ {0}

VARIABLES
  masked,   \* the I bit of the CPSR
  running,  \* the context whose instructions the processor executes
  pc,       \* "disable": that context has read an unmasked CPSR in acquire
  depth,    \* open sections of a context
  restore,  \* the open sections, by level, whose RawRestoreState is true
  irq,      \* an enabled interrupt source is pending
  exposed   \* history: the open sections of the thread, by level, whose own
            \* acquire lost an instruction

vars == <<masked, running, pc, depth, restore, irq, exposed>>

Contexts == {"thread", "isr"}
Levels == 1 .. MaxDepth

TypeOK ==
  /\ masked \in BOOLEAN
  /\ running \in Contexts
  /\ pc \in [Contexts -> {"run", "disable"}]
  /\ depth \in [Contexts -> 0 .. MaxDepth]
  /\ restore \in [Contexts -> SUBSET Levels]
  /\ irq \in BOOLEAN
  /\ exposed \subseteq Levels

Init ==
  /\ masked = FALSE
  /\ running = "thread"
  /\ pc = [c \in Contexts |-> "run"]
  /\ depth = [c \in Contexts |-> 0]
  /\ restore = [c \in Contexts |-> {}]
  /\ irq = FALSE
  /\ exposed = {}

\* `acquire` returns: the section one level deeper is open.
Deepen(c) == depth' = [depth EXCEPT ![c] = @ + 1]
WillRestore(c) == restore' = [restore EXCEPT ![c] = @ \cup {depth[c] + 1}]

\* The section that opens is exposed.
Expose == exposed' = exposed \cup {depth["thread"] + 1}

\* `release` has consumed the token of the innermost section.
Shallow(c) ==
  /\ depth' = [depth EXCEPT ![c] = @ - 1]
  /\ restore' = [restore EXCEPT ![c] = @ \ {depth[c]}]
  /\ exposed' = exposed \ (IF c = "thread" THEN {depth[c]} ELSE {})

\* Mutant: a nested section, too, asks for interrupts to be enabled.
AcquireNestedRestoring(c) ==
  /\ running = c
  /\ pc[c] = "run"
  /\ depth[c] < MaxDepth
  /\ masked
  /\ Deepen(c)
  /\ WillRestore(c)
  /\ UNCHANGED <<masked, running, pc, irq, exposed>>

\* The CPSR read by `acquire` has the I bit set.
AcquireNested(c) ==
  /\ running = c
  /\ pc[c] = "run"
  /\ depth[c] < MaxDepth
  /\ masked
  /\ Deepen(c)
  /\ UNCHANGED <<masked, running, pc, restore, irq, exposed>>

\* The CPSR read has it clear; `disable` is the next instruction.
AcquireOutermost(c) ==
  /\ running = c
  /\ pc[c] = "run"
  /\ depth[c] < MaxDepth
  /\ ~ masked
  /\ pc' = [pc EXCEPT ![c] = "disable"]
  /\ UNCHANGED <<masked, running, depth, restore, irq, exposed>>

\* Mutant: the interrupts stay enabled in the section.
DisableNothing(c) ==
  /\ running = c
  /\ pc[c] = "disable"
  /\ pc' = [pc EXCEPT ![c] = "run"]
  /\ Deepen(c)
  /\ WillRestore(c)
  /\ UNCHANGED <<masked, running, irq, exposed>>

Disable(c) ==
  /\ running = c
  /\ pc[c] = "disable"
  /\ masked' = TRUE
  /\ pc' = [pc EXCEPT ![c] = "run"]
  /\ Deepen(c)
  /\ WillRestore(c)
  /\ UNCHANGED <<running, irq, exposed>>

\* Mutant: interrupts are enabled by the sections that found them disabled.
ReleaseInverted(c) ==
  /\ running = c
  /\ pc[c] = "run"
  /\ depth[c] > 0
  /\ masked' = (masked /\ depth[c] \in restore[c])
  /\ Shallow(c)
  /\ UNCHANGED <<running, pc, irq>>

\* Mutant: a second release of a section that is closed already.
ReleaseTwice(c) ==
  /\ running = c
  /\ pc[c] = "run"
  /\ masked' = FALSE
  /\ Shallow(c)
  /\ UNCHANGED <<running, pc, irq>>

\* The innermost section ends; `critical_section::with` makes it so.
Release(c) ==
  /\ running = c
  /\ pc[c] = "run"
  /\ depth[c] > 0
  /\ masked' = (masked /\ depth[c] \notin restore[c])
  /\ Shallow(c)
  /\ UNCHANGED <<running, pc, irq>>

-----------------------------------------------------------------------------
RaiseIrq ==
  /\ ~ irq
  /\ irq' = TRUE
  /\ UNCHANGED <<masked, running, pc, depth, restore, exposed>>

\* Taken at an instruction boundary; the processor sets the I bit.
EnterIsr ==
  /\ irq
  /\ ~ masked
  /\ running' = "isr"
  /\ masked' = TRUE
  /\ UNCHANGED <<pc, depth, restore, irq, exposed>>

\* The instruction that is skipped is the cpsid of `acquire`.
SkipDisable ==
  /\ pc["thread"] = "disable"
  /\ pc' = [pc EXCEPT !["thread"] = "run"]
  /\ Deepen("thread")
  /\ WillRestore("thread")
  /\ Expose

\* It is the read or the test of the CPSR: `acquire` goes by whatever is in
\* the register or in the flags.
SkipTest ==
  /\ depth["thread"] < MaxDepth
  /\ \/ /\ pc' = [pc EXCEPT !["thread"] = "disable"]
        /\ UNCHANGED <<depth, restore, exposed>>
     \/ /\ pc' = [pc EXCEPT !["thread"] = "run"]
        /\ Deepen("thread")
        /\ Expose
        /\ UNCHANGED restore

\* It is none of `acquire`; with interrupts enabled, cpsie does nothing.
SkipOther ==
  /\ pc["thread"] = "run"
  /\ UNCHANGED <<pc, depth, restore, exposed>>

\* interrupt_handler has served its sources, and rfefd restores the CPSR and
\* goes on where LR_irq points.
LeaveIsr ==
  /\ running = "isr"
  /\ pc["isr"] = "run"
  /\ depth["isr"] = 0
  /\ running' = "thread"
  /\ masked' = FALSE
  /\ irq' = FALSE
  /\ SkipDisable \/ SkipTest \/ SkipOther

Next ==
  \/ \E c \in Contexts : AcquireNested(c)
  \/ \E c \in Contexts : AcquireOutermost(c)
  \/ \E c \in Contexts : Disable(c)
  \/ \E c \in Contexts : Release(c)
  \/ RaiseIrq
  \/ EnterIsr
  \/ LeaveIsr

Spec == Init /\ [][Next]_vars

-----------------------------------------------------------------------------
(* Properties.                                                             *)

\* The innermost section of the thread was opened by a whole acquire.
Whole == depth["thread"] > 0 /\ depth["thread"] \notin exposed

\* critical_section_impl.rs:12-24, boot.s:111-120: no handler runs while the
\* main thread is inside a section whose own acquire was whole, however deep,
\* whenever the interrupt came, and whatever became of the acquires of the
\* sections around it.
Exclusion == Whole => running = "thread"

\* critical_section_impl.rs:16,27: no section of the handler enables
\* interrupts, so the handler is never entered while it runs.
NoReentry == running = "isr" => masked

\* critical_section_impl.rs:26-33: the main thread is masked exactly in such a
\* section: a section that ends gives the I bit back to the one around it as it
\* was, and the last one leaves it clear, whatever was skipped.
Balanced == running = "thread" => (masked <=> Whole)

=============================================================================
