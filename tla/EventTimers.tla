----------------------------- MODULE EventTimers -----------------------------
(***************************************************************************)
(* The timers of clicon_event.c and their share of event_loop(): select()  *)
(* returns a descriptor that is ready before it returns a timeout, and a   *)
(* round of the loop calls either descriptors or one timer.  What a round  *)
(* does with several descriptors is ConfigSession's subject.               *)
(***************************************************************************)
EXTENDS Integers, Sequences, SequencesExt

CONSTANTS
  Timers,     \* callbacks with their argument, which identify a timer
  Periodic,   \* those of them that register themselves again when called
  MaxClock    \* bound: the clock stops there, with every timer expired

ASSUME TimersAssumption == Periodic \subseteq Timers /\ MaxClock \in Nat \ {0}

VARIABLES
  ee_timers,  \* the list: sequence of [fn, time]
  clock,
  fdReady,    \* is a descriptor ready?
  looping     \* has event_loop() not returned?

timerVars == <<ee_timers, clock, fdReady, looping>>

TimersInit == ee_timers = <<>> /\ clock = 0 /\ fdReady = FALSE /\ looping = TRUE

Registered == {ee_timers[i].fn : i \in DOMAIN ee_timers}

MutantRegTimeout(list, fn, t) == <<[fn |-> fn, time |-> t]>> \o list
\* event_reg_timeout(): before the first timer with a later time.
RegTimeout(list, fn, t) ==
  LET later == SelectInSeq(list, LAMBDA e : t < e.time)
  IN InsertAt(list, IF later = 0 THEN Len(list) + 1 ELSE later, [fn |-> fn, time |-> t])

\* event_unreg_timeout(): the first timer with this callback.
UnregTimeout(list, fn) == RemoveFirstMatch(list, LAMBDA e : e.fn = fn)

Register(fn, t) ==
  /\ looping /\ fn \notin Registered
  /\ ee_timers' = RegTimeout(ee_timers, fn, t)
  /\ UNCHANGED <<clock, fdReady, looping>>

Unregister(fn) ==
  /\ looping /\ fn \in Registered
  /\ ee_timers' = UnregTimeout(ee_timers, fn)
  /\ UNCHANGED <<clock, fdReady, looping>>

Tick == clock < MaxClock /\ clock' = clock + 1 /\ UNCHANGED <<ee_timers, fdReady, looping>>
Input == ~fdReady /\ fdReady' = TRUE /\ UNCHANGED <<ee_timers, clock, looping>>

\* A round of event_loop() with n > 0: the descriptor's callback reads it.
RoundFd ==
  /\ looping /\ fdReady
  /\ fdReady' = FALSE
  /\ UNCHANGED <<ee_timers, clock, looping>>

\* A round with n = 0: the first timer is taken off the list and called.
Expired(e) == e.time <= clock
TimerDue == ee_timers # <<>> /\ Expired(Head(ee_timers))
RoundTimer ==
  /\ looping /\ ~fdReady /\ TimerDue
  /\ LET fn == Head(ee_timers).fn
         next == IF clock < MaxClock THEN clock + 1 ELSE clock
     IN ee_timers' = IF fn \in Periodic THEN RegTimeout(Tail(ee_timers), fn, next) ELSE Tail(ee_timers)
  /\ UNCHANGED <<clock, fdReady, looping>>

\* A signal (select() returns EINTR) or a callback that fails ends the loop.
LoopEnds == looping /\ looping' = FALSE /\ UNCHANGED <<ee_timers, clock, fdReady>>

TimersNext ==
  \/ \E fn \in Timers : Unregister(fn) \/ \E t \in clock..MaxClock : Register(fn, t)
  \/ Tick \/ Input \/ RoundFd \/ RoundTimer \/ LoopEnds

\* The daemon goes round its loop.
TimersFairness == WF_timerVars(RoundFd \/ RoundTimer)

----------------------------------------------------------------------------
(***************************************************************************)
(* A timer that is due is called or removed, unless descriptors keep       *)
(* becoming ready.                                                         *)
(***************************************************************************)
TimerCalled ==
  \A fn \in Timers \ Periodic :
    (\E i \in DOMAIN ee_timers : ee_timers[i].fn = fn /\ Expired(ee_timers[i]))
      ~> (fn \notin Registered \/ fdReady \/ ~looping)
==============================================================================
