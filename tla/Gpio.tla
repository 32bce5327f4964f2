-------------------------------- MODULE Gpio --------------------------------
(***************************************************************************)
(* Interrupts of the pins of one GPIO port (libs/base/gpio.cc), with the   *)
(* software debouncing that reads the microsecond clock (timer.cc).        *)
(*                                                                         *)
(* The clock's hardware counter counts to Width (2^32) and wraps; an       *)
(* interrupt of the highest priority then counts g_micros_rollover.        *)
(* TimerMicros loads the two in an order that C++ leaves open, and time    *)
(* may pass in between.  Differences of times are unsigned: they are taken *)
(* modulo TimeModulus (2^64), which the clock itself never reaches.  The   *)
(* port's interrupt may come in at any point of GpioConfigureInterrupt.    *)
(***************************************************************************)
EXTENDS Naturals

CONSTANTS
  Pins,       \* the pins of the port that have interrupts
  Width,      \* values of the hardware counter
  Rollovers,  \* how often it wraps, at most, while we look
  Interval,   \* the debounce interval that a caller may ask for
  MaxDelay    \* the time that passes between two loads of the clock, at most

TimeModulus == 4 * Width * Rollovers

ASSUME GpioAssumption ==
  Width \in Nat /\ Rollovers \in Nat \ {0} /\ Interval \in 1..Width
  /\ MaxDelay \in Nat

VARIABLES
  count,       \* GPT1's counter
  rolledOver,  \* its roll-over flag
  rollover,    \* g_micros_rollover
  handlers,    \* pins with a callback in g_irq_handlers
  debounce,    \* g_irq_debounce_us
  last,        \* g_irq_last_time_us
  raised,      \* the port's interrupt flags
  enabled,     \* pins whose interrupt is enabled
  irqEnabled,  \* the port's interrupt is
  isr,         \* what the port's interrupt handler is doing
  task,        \* what a task in GpioConfigureInterrupt is doing
  since,       \* time since what last records, at most Horizon
  lastTorn,    \* last was computed from loads on two sides of a rollover
  decision     \* what IrqHandler last decided, and from what

clock == <<count, rolledOver, rollover>>
port == <<handlers, debounce, last, raised, enabled, irqEnabled>>
history == <<since, lastTorn, decision>>
gpioVars == <<clock, port, isr, task, history>>

\* A reader of the clock: which part has been loaded, and for the counter how
\* long ago, and the number of rollovers that belongs to it.
NotReading == [at |-> "none"]

Horizon == Width + MaxDelay
Later(t) == IF t < Horizon THEN t + 1 ELSE t
Time == (rollover + (IF rolledOver THEN 1 ELSE 0)) * Width + count
-----------------------------------------------------------------------------
(* The clock. *)

Delayed(now) == now.at = "count" /\ now.elapsed = MaxDelay
Aged(now) ==
  IF now.at = "count" THEN [now EXCEPT !.elapsed = @ + 1] ELSE now

Tick ==
  /\ ~rolledOver /\ ~Delayed(isr.now) /\ ~Delayed(task.now)
  /\ rollover < Rollovers - 1 \/ count < Width - 1
  /\ count' = (count + 1) % Width
  /\ rolledOver' = (count = Width - 1)
  /\ since' = [p \in Pins |-> Later(since[p])]
  /\ isr' = [isr EXCEPT !.now = Aged(@)]
  /\ task' = [task EXCEPT !.now = Aged(@)]
  /\ UNCHANGED <<rollover, port, lastTorn, decision>>

GPT1_IRQHandler ==
  /\ rolledOver
  /\ rolledOver' = FALSE
  /\ rollover' = rollover + 1
  /\ UNCHANGED <<count, port, isr, task, history>>

\* The first of TimerMicros' two loads.
FirstLoad ==
  {[at |-> "count", value |-> count, elapsed |-> 0,
    whole |-> rollover + (IF rolledOver THEN 1 ELSE 0)],
   [at |-> "rollover", value |-> rollover]}

\* The second one, and what TimerMicros returns.
Micros(now) ==
  IF now.at = "count"
  THEN [time |-> rollover * Width + now.value, elapsed |-> now.elapsed,
        torn |-> rollover # now.whole]
  ELSE [time |-> now.value * Width + count, elapsed |-> 0,
        torn |-> rolledOver \/ now.value # rollover]
-----------------------------------------------------------------------------
(* The port's interrupt. *)

\* An edge raises the flag of a pin, enabled or not.
Edge(p) ==
  /\ raised' = raised \cup {p}
  /\ UNCHANGED <<clock, handlers, debounce, last, enabled, irqEnabled, isr,
                 task, history>>

\* Enters with all flags of the port, those of pins that are not enabled too.
CommonIrqHandler ==
  /\ isr.left = {} /\ irqEnabled
  /\ raised \cap enabled # {}
  /\ isr' = [left |-> raised, now |-> NotReading]
  /\ raised' = {}
  /\ UNCHANGED <<clock, handlers, debounce, last, enabled, irqEnabled, task,
                 history>>

IrqTimerMicros ==
  /\ isr.left # {} /\ isr.now = NotReading
  /\ \E now \in FirstLoad : isr' = [isr EXCEPT !.now = now]
  /\ UNCHANGED <<clock, port, task, history>>

\* Mutant of Elapsed: a time that lies ahead counts as no time.
ElapsedSaturating(now, then) == IF now < then THEN 0 ELSE now - then

\* The difference of two unsigned 64-bit times.
Elapsed(now, then) == (now + TimeModulus - then) % TimeModulus

\* IrqHandler of a pin.
IrqHandler(p) ==
  /\ p \in isr.left /\ isr.now # NotReading
  /\ LET now == Micros(isr.now)
         calls == debounce[p] = 0 \/ Elapsed(now.time, last[p]) >= debounce[p]
     IN /\ last' = IF calls THEN [last EXCEPT ![p] = now.time] ELSE last
        /\ since' = IF calls THEN [since EXCEPT ![p] = now.elapsed] ELSE since
        /\ lastTorn' = IF calls THEN [lastTorn EXCEPT ![p] = now.torn]
                       ELSE lastTorn
        /\ decision' = [calls |-> calls, limit |-> debounce[p],
                        age |-> since[p] - now.elapsed,
                        nowTorn |-> now.torn, lastTorn |-> lastTorn[p]]
  /\ isr' = [left |-> isr.left \ {p}, now |-> NotReading]
  /\ UNCHANGED <<clock, handlers, debounce, raised, enabled, irqEnabled, task>>
-----------------------------------------------------------------------------
(* GpioConfigureInterrupt, by a task that the interrupt may preempt. *)

Configuring(step) == isr.left = {} /\ task.step = step

\* GPIO_PinInit masks the pin's interrupt before the callback is set.
ConfigureHandler(p, interval) ==
  /\ Configuring("idle")
  /\ enabled' = enabled \ {p}
  /\ handlers' = handlers \cup {p}
  /\ debounce' = [debounce EXCEPT ![p] = interval]
  /\ task' = [step |-> "time", pin |-> p, now |-> NotReading]
  /\ UNCHANGED <<clock, last, raised, irqEnabled, isr, history>>

ConfigureTimerMicros ==
  /\ Configuring("time") /\ task.now = NotReading
  /\ \E now \in FirstLoad : task' = [task EXCEPT !.now = now]
  /\ UNCHANGED <<clock, port, isr, history>>

ConfigureTime ==
  /\ Configuring("time") /\ task.now # NotReading
  /\ LET now == Micros(task.now) IN
     /\ last' = [last EXCEPT ![task.pin] = now.time]
     /\ since' = [since EXCEPT ![task.pin] = now.elapsed]
     /\ lastTorn' = [lastTorn EXCEPT ![task.pin] = now.torn]
  /\ task' = [task EXCEPT !.step = "enable", !.now = NotReading]
  /\ UNCHANGED <<clock, handlers, debounce, raised, enabled, irqEnabled, isr,
                 decision>>

\* The flags of all pins of the port are cleared.
ConfigureEnable ==
  /\ Configuring("enable")
  /\ raised' = {}
  /\ enabled' = enabled \cup {task.pin}
  /\ irqEnabled' = TRUE
  /\ task' = [task EXCEPT !.step = "idle"]
  /\ UNCHANGED <<clock, handlers, debounce, last, isr, history>>

\* kIntModeNone disables the interrupt that the pins of the port share.
ConfigureNone(p) ==
  /\ Configuring("idle")
  /\ enabled' = enabled \ {p}
  /\ irqEnabled' = FALSE
  /\ handlers' = handlers \ {p}
  /\ debounce' = [debounce EXCEPT ![p] = 0]
  /\ last' = [last EXCEPT ![p] = 0]
  /\ since' = [since EXCEPT ![p] = IF Time < Horizon THEN Time ELSE Horizon]
  /\ lastTorn' = [lastTorn EXCEPT ![p] = FALSE]
  /\ UNCHANGED <<clock, raised, isr, task, decision>>

\* GpioInit.
GpioInit ==
  /\ count = 0 /\ rolledOver = FALSE /\ rollover = 0
  /\ handlers = {} /\ enabled = {} /\ irqEnabled = FALSE /\ raised = {}
  /\ debounce = [p \in Pins |-> 0]
  /\ last = [p \in Pins |-> 0]
  /\ isr = [left |-> {}, now |-> NotReading]
  /\ task = [step |-> "idle", pin |-> "none",
             now |-> NotReading]
  /\ since = [p \in Pins |-> 0]
  /\ lastTorn = [p \in Pins |-> FALSE]
  /\ decision = [calls |-> TRUE, limit |-> 0, age |-> 0,
                 nowTorn |-> FALSE, lastTorn |-> FALSE]

GpioNext ==
  \/ Tick \/ GPT1_IRQHandler
  \/ CommonIrqHandler \/ IrqTimerMicros
  \/ ConfigureTimerMicros \/ ConfigureTime \/ ConfigureEnable
  \/ \E p \in Pins :
       \/ Edge(p) \/ IrqHandler(p) \/ ConfigureNone(p)
       \/ \E interval \in {0, Interval} : ConfigureHandler(p, interval)

GpioSpec == GpioInit /\ [][GpioNext]_gpioVars
-----------------------------------------------------------------------------
\* "Minimum interval in microseconds between repeated invocations of cb": an
\* edge is answered exactly if the interval has passed since the last call,
\* also when the counter has rolled over in between, except when a rollover
\* falls between the two loads of one of the times.  Such an accident costs at
\* most the edge that meets it: the pin is not deaf until the clock catches up
\* with a time that lies ahead by the counter's width, because times are
\* subtracted without a sign.
Debounced ==
  /\ ~decision.nowTorn /\ ~decision.lastTorn =>
       (decision.calls <=> decision.age >= decision.limit)
  /\ ~decision.nowTorn /\ ~decision.calls /\ decision.age < Width - MaxDelay =>
       decision.age < decision.limit
=============================================================================
