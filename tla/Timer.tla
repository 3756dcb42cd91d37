------------------------------- MODULE Timer -------------------------------
(***************************************************************************)
(* Mikey's eight timers and the interrupt latch: src/timer.c, with the     *)
(* register accesses of src/mikey.c that reach them.  An action is one     *)
(* call: lynx_timer_step from the runtime, a register write from the game, *)
(* lynx_mikey_init from the host.  All are made from one thread.           *)
(*                                                                         *)
(* A step of the timers is a function of the machine (registers, phases    *)
(* and latch), so that its results can be compared with each other.  Of    *)
(* control A the code reads the interrupt enable, RELOAD, COUNT and the    *)
(* clock; RESETDONE is stored with the rest and never acted upon.          *)
(***************************************************************************)
EXTENDS Integers

CONSTANTS
  Timer,     (* the timers modelled, of the eight *)
  MaxCount,  (* the largest value of a count or backup register, 255 *)
  Control,   (* the values the game writes to a control A register *)
  Flags,     (* the values the game writes to a control B register *)
  Us         (* the numbers of microseconds the runtime steps by *)

ControlA ==
  [int : BOOLEAN, reload : BOOLEAN, count : BOOLEAN, clock : 0 .. 7]

ASSUME TimerAssumption == Timer \subseteq 0 .. 7
ASSUME MaxCountAssumption == MaxCount \in Nat
ASSUME ControlAssumption == Control \subseteq ControlA
ASSUME FlagsAssumption == Flags \subseteq SUBSET {"DONE", "BORROWOUT"}
ASSUME UsAssumption == Us \subseteq Nat \ {0}

VARIABLES
  reg,             (* the four registers of each timer, in lynx_mikey.reg *)
  phase,           (* microseconds each timer has not yet counted *)
  lynx_irq_latch   (* the timers whose interrupt is pending *)

vars == <<reg, phase, lynx_irq_latch>>

Machine == [reg |-> reg, phase |-> phase, latch |-> lynx_irq_latch]
MachineBecomes(m) ==
  reg' = m.reg /\ phase' = m.phase /\ lynx_irq_latch' = m.latch

Stopped == [int |-> FALSE, reload |-> FALSE, count |-> FALSE, clock |-> 0]

\* lynx_mikey_init clears every register and calls lynx_timer_init.
Reset ==
  [reg |-> [i \in Timer |-> [backup |-> 0, ctlA |-> Stopped, count |-> 0, ctlB |-> {}]],
   phase |-> [i \in Timer |-> 0],
   latch |-> {}]

Init ==
  /\ reg = Reset.reg
  /\ phase = Reset.phase
  /\ lynx_irq_latch = Reset.latch

-----------------------------------------------------------------------------
\* A mutant: the index chain, each timer driving the next, which the code used
\* before the Lynx's own chain (docs/RUN.md).
link_succ_by_index == [i \in 0 .. 7 |-> IF i = 7 THEN -1 ELSE i + 1]

\* The timer driven by timer i's underflow; -1 is none.
link_succ == [i \in 0 .. 7 |->
  CASE i = 0 -> 2 [] i = 1 -> 3 [] i = 2 -> 4 [] i = 3 -> 5 [] i = 4 -> 1 [] i = 5 -> 7
    [] OTHER -> -1]

Linked(m, i) == m.reg[i].ctlA.count /\ m.reg[i].ctlA.clock = 7

\* The timers one count tick of timer i reaches: a timer whose count is zero
\* underflows and ticks its successor, if that one is counting and linked.
ticked(m) ==
  LET reach[i \in Timer] ==
        {i} \cup (IF /\ m.reg[i].count = 0
                     /\ link_succ[i] \in Timer
                     /\ Linked(m, link_succ[i])
                  THEN reach[link_succ[i]]
                  ELSE {})
  IN  reach

\* A mutant: the count is decremented before it is compared with zero.
counted_past_zero(r) == [r EXCEPT !.count = @ - 1]

\* What an underflow does to the timer's registers, and a tick short of one.
counted(r) ==
  IF r.count = 0
  THEN [r EXCEPT !.count = IF r.ctlA.reload THEN r.backup ELSE 0,
                 !.ctlB = @ \cup {"DONE", "BORROWOUT"}]
  ELSE [r EXCEPT !.count = @ - 1]

tick(m, i) ==
  LET reached == ticked(m)[i]
  IN  [m EXCEPT
        !.reg = [j \in Timer |-> IF j \in reached THEN counted(m.reg[j]) ELSE m.reg[j]],
        !.latch = @ \cup {j \in reached : m.reg[j].count = 0 /\ m.reg[j].ctlA.int}]

\* The share of timer i in a step of us microseconds: whole periods of its
\* clock tick it, the rest stays in phase.  A linked timer has no share.
Period(r) == 2 ^ r.ctlA.clock

\* A mutant: the rest of a step that is no whole period is dropped.
advance_dropping(m, i, us) ==
  IF ~m.reg[i].ctlA.count \/ m.reg[i].ctlA.clock = 7 THEN m
  ELSE LET after[n \in 0 .. us \div Period(m.reg[i])] ==
             IF n = 0 THEN m ELSE tick(after[n - 1], i)
       IN  after[us \div Period(m.reg[i])]

advance(m, i, us) ==
  IF ~m.reg[i].ctlA.count \/ m.reg[i].ctlA.clock = 7 THEN m
  ELSE LET total == m.phase[i] + us
           after[n \in 0 .. total \div Period(m.reg[i])] ==
             IF n = 0
             THEN [m EXCEPT !.phase[i] = total % Period(m.reg[i])]
             ELSE tick(after[n - 1], i)
       IN  after[total \div Period(m.reg[i])]

step(m, us) ==
  LET upto[i \in 0 .. 8] ==
        IF i = 0 THEN m
        ELSE IF i - 1 \in Timer THEN advance(upto[i - 1], i - 1, us) ELSE upto[i - 1]
  IN  upto[8]

lynx_timer_step(us) == MachineBecomes(step(Machine, us))

\* lynx_mikey_write to a timer's registers: it stores the value.
write_backup(i, v) ==
  reg' = [reg EXCEPT ![i].backup = v] /\ UNCHANGED <<phase, lynx_irq_latch>>
write_count(i, v) ==
  reg' = [reg EXCEPT ![i].count = v] /\ UNCHANGED <<phase, lynx_irq_latch>>
write_ctlA(i, c) ==
  reg' = [reg EXCEPT ![i].ctlA = c] /\ UNCHANGED <<phase, lynx_irq_latch>>
write_ctlB(i, b) ==
  reg' = [reg EXCEPT ![i].ctlB = b] /\ UNCHANGED <<phase, lynx_irq_latch>>

\* Writes of INTRST and INTSET.
lynx_irq_ack(mask) ==
  lynx_irq_latch' = lynx_irq_latch \ mask /\ UNCHANGED <<reg, phase>>
lynx_irq_raise(mask) ==
  lynx_irq_latch' = lynx_irq_latch \cup mask /\ UNCHANGED <<reg, phase>>

lynx_mikey_init == MachineBecomes(Reset)

GameWrites(i) ==
  \/ \E v \in 0 .. MaxCount : write_backup(i, v) \/ write_count(i, v)
  \/ \E c \in Control : write_ctlA(i, c)
  \/ \E b \in Flags : write_ctlB(i, b)

-----------------------------------------------------------------------------
Registers ==
  [backup : 0 .. MaxCount, ctlA : ControlA, count : 0 .. MaxCount,
   ctlB : SUBSET {"DONE", "BORROWOUT"}]

\* The slowest clock counts every 64 microseconds: no phase reaches that, even
\* when the game changes a clock under a running timer, so the 32-bit sum with
\* the step never wraps.
Machines ==
  [reg : [Timer -> Registers], phase : [Timer -> 0 .. 63], latch : SUBSET Timer]

TypeOK == Machine \in Machines

\* How the runtime slices time does not matter: two steps leave the timers as
\* one step of their sum does, whatever the game has programmed.  The loop over
\* the timers handles each one's microseconds in turn, so this says that the
\* cascades commute with each other.
StepsCompose ==
  \A a, b \in Us : step(step(Machine, a), b) = step(Machine, a + b)

=============================================================================
