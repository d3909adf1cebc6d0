------------------------------- MODULE Filters -------------------------------
(***************************************************************************)
(* The filter nodes Peq, Loudness and Crossover, each a row of biquads     *)
(* (TBiquad), with the thread of the main loop in onProcess and a thread   *)
(* of the application in the setters.  The coefficients of a biquad are    *)
(* represented by the setting and the rate they were computed for.  A step *)
(* is what one thread does between two accesses to state of the other.     *)
(*                                                                         *)
(* A setting is a number; 0 is what a node is built with.  For Peq it is   *)
(* also the number of filters: none at first.                              *)
(***************************************************************************)
EXTENDS Integers, Sequences

CONSTANTS
  Settings,      \* what the application may set: valid filters
  Rates,         \* sample rates of buffers
  BuiltRate      \* TBiquad's m_rate when it is built: 44100

ASSUME SettingsAssumption == Settings \subseteq Nat
ASSUME RatesAssumption == 0 \notin Rates  \* 0 stands for no configuration

VARIABLES
  node,          \* the filter of this chain: "none" if there is none
  bq,            \* its biquads: filter and rate, and those of the coefficients
  headroom, volume,   \* Loudness: m_headroom, by its level, and m_volume
  mutex,         \* m_mutex: free, or the thread that holds it
  app,           \* the setter: where it is, biquad, setting, coefficients
  main,          \* onProcess: the same, with the buffer's rate
  used,          \* coefficients the last buffer was filtered with
  conf,          \* Peq: the rate of m_conf, 0 before the first buffer
  set,           \* the setting of the last setter that returned
  due,           \* that setting when onProcess took the mutex
  raced          \* setLevel has run while onProcess was in its filters

ghosts == <<set, due, raced>>
filterVars == <<node, bq, headroom, volume, mutex, app, main, used, conf,
                ghosts>>

Nodes == {"none", "peq", "loudness", "crossover"}
NumBiquads == Len(bq)

\* A TBiquad as it is built.
Biquad(rate) == [filter |-> 0, rate |-> rate, coeffs |-> <<0, rate>>]

Idle == [pc |-> "idle", i |-> 1, arg |-> 0, new |-> <<0, 0>>]

FiltersInit ==
  /\ node \in Nodes
  /\ bq = [i \in 1 .. CASE node = "loudness" -> 3
                         [] node = "crossover" -> 2
                         [] node \in {"none", "peq"} -> 0
             |-> Biquad(BuiltRate)]
  /\ headroom = 0 /\ volume = 1
  /\ mutex = "free" /\ app = Idle /\ main = Idle
  /\ used = <<>> /\ conf = 0
  /\ set = 0 /\ due = 0 /\ raced = FALSE
-----------------------------------------------------------------------------
(* TBiquad.  update() reads the filter and the rate, and writes the        *)
(* coefficients in a step of its own.                                      *)

\* setRate(), up to the end of update()'s reading.
setRate(i, rate) ==
  IF bq[i].rate = rate
  THEN main' = [main EXCEPT !.i = i + 1] /\ UNCHANGED bq
  ELSE /\ bq' = [bq EXCEPT ![i].rate = rate]
       /\ main' = [main EXCEPT !.pc = "store", !.new = <<bq[i].filter, rate>>]

\* setFilter(), likewise, by the application.
setFilter(i, filter) ==
  IF bq[i].filter = filter
  THEN app' = [app EXCEPT !.i = i + 1] /\ UNCHANGED bq
  ELSE /\ bq' = [bq EXCEPT ![i].filter = filter]
       /\ app' = [app EXCEPT !.pc = "store", !.new = <<filter, bq[i].rate>>]

\* The end of update().
update(i, new) == bq' = [bq EXCEPT ![i].coeffs = new]
-----------------------------------------------------------------------------
(* The setters: Peq::setFilters, Crossover::setFilter, Loudness::setLevel. *)

\* Mutant: no setter takes the mutex.
SetterUnlocked(arg) ==
  /\ app.pc = "idle"
  /\ app' = [Idle EXCEPT !.pc = "set", !.arg = arg]
  /\ UNCHANGED mutex

\* Loudness does not take the mutex, and Crossover compares first without it.
Setter(arg) ==
  /\ app.pc = "idle"
  /\ node = "crossover" => bq[1].filter # arg
  /\ app' = [Idle EXCEPT !.pc = "set", !.arg = arg]
  /\ IF node = "loudness" THEN UNCHANGED mutex
     ELSE mutex = "free" /\ mutex' = "app"

\* Peq's deque is resized with biquads for the rate of the last buffer.
Resized(n) ==
  [i \in 1 .. n |-> IF i <= NumBiquads THEN bq[i] ELSE Biquad(conf)]

CallSetter ==
  /\ node # "none"
  /\ \E arg \in Settings :
       /\ Setter(arg)
       /\ bq' = IF node = "peq" THEN Resized(arg) ELSE bq
  /\ raced' = (raced \/ main.pc \in {"rates", "store", "process"})
  /\ UNCHANGED <<node, headroom, volume, main, used, conf, set, due>>

SetOne ==
  /\ app.pc = "set" /\ app.i <= NumBiquads
  /\ setFilter(app.i, app.arg)
  /\ UNCHANGED <<node, headroom, volume, mutex, main, used, conf, ghosts>>

StoreOne ==
  /\ app.pc = "store"
  /\ update(app.i, app.new)
  /\ app' = [app EXCEPT !.pc = "set", !.i = @ + 1]
  /\ UNCHANGED <<node, headroom, volume, mutex, main, used, conf, ghosts>>

\* The setter returns; setLevel writes m_headroom last.
EndSetter ==
  /\ app.pc = "set" /\ app.i > NumBiquads
  /\ app' = Idle
  /\ set' = app.arg
  /\ headroom' = IF node = "loudness" THEN app.arg ELSE headroom
  /\ mutex' = IF node = "loudness" THEN mutex ELSE "free"
  /\ UNCHANGED <<node, bq, volume, main, used, conf, due, raced>>

setVolume ==
  /\ node = "loudness"
  /\ volume' = 1 - volume
  /\ UNCHANGED <<node, bq, headroom, mutex, app, main, used, conf, ghosts>>

\* The rest of a setter that has been called.
AppThread == SetOne \/ StoreOne \/ EndSetter
-----------------------------------------------------------------------------
(* onProcess, for a buffer of the rate given.                              *)

\* Loudness returns at once if it has neither volume nor headroom to apply;
\* Crossover would with an invalid filter, but it is built with a valid one.
EnterProcess(rate) ==
  /\ main.pc = "idle"
  /\ main' = [Idle EXCEPT !.arg = rate,
                !.pc = CASE node = "none" -> "done"
                         [] node = "loudness" ->
                              IF volume = 1 /\ headroom = 0 THEN "done"
                              ELSE "volume"
                         [] node \in {"peq", "crossover"} -> "lock"]
  /\ used' = <<>>
  /\ UNCHANGED <<node, bq, headroom, volume, mutex, app, conf, ghosts>>

\* The volume has been applied; without headroom there is no loudness.
AfterVolume ==
  /\ main.pc = "volume"
  /\ main' = [main EXCEPT !.pc = IF headroom = 0 THEN "done" ELSE "lock"]
  /\ UNCHANGED <<node, bq, headroom, volume, mutex, app, used, conf, ghosts>>

\* Crossover leaves the rate of its biquads alone.
Lock ==
  /\ main.pc = "lock" /\ mutex = "free"
  /\ mutex' = "main"
  /\ main' = [main EXCEPT !.pc = IF node = "crossover" THEN "process"
                                 ELSE "rates"]
  /\ conf' = IF node = "peq" THEN main.arg ELSE conf
  /\ due' = set
  /\ raced' = (raced \/ app.pc # "idle")
  /\ UNCHANGED <<node, bq, headroom, volume, app, used, set>>

\* The rate of every biquad.  Peq goes on to filter with each one in turn,
\* under the mutex, so that the order does not show.
SetRates ==
  /\ main.pc = "rates"
  /\ IF main.i <= NumBiquads THEN setRate(main.i, main.arg)
     ELSE main' = [main EXCEPT !.pc = "process", !.i = 1] /\ UNCHANGED bq
  /\ UNCHANGED <<node, headroom, volume, mutex, app, used, conf, ghosts>>

StoreRate ==
  /\ main.pc = "store"
  /\ update(main.i, main.new)
  /\ main' = [main EXCEPT !.pc = "rates", !.i = @ + 1]
  /\ UNCHANGED <<node, headroom, volume, mutex, app, used, conf, ghosts>>

\* process() of one biquad, over the whole buffer.
process ==
  /\ main.pc = "process"
  /\ IF main.i <= NumBiquads
     THEN /\ used' = Append(used, bq[main.i].coeffs)
          /\ main' = [main EXCEPT !.i = @ + 1]
          /\ UNCHANGED mutex
     ELSE /\ main' = [main EXCEPT !.pc = "done"]
          /\ mutex' = "free"
          /\ UNCHANGED used
  /\ UNCHANGED <<node, bq, headroom, volume, app, conf, ghosts>>

MainThread == AfterVolume \/ Lock \/ SetRates \/ StoreRate \/ process
-----------------------------------------------------------------------------
(* Properties.                                                             *)

\* A buffer is filtered by the biquads of one setting, that of the last setter
\* that had returned, computed for the buffer's own rate: for Peq and Crossover
\* because setters and onProcess exclude each other, for Loudness, whose
\* setLevel does not take the mutex, as long as no setLevel has run beside the
\* filters of a buffer (an update() that was overtaken leaves coefficients
\* that no later call repairs).  Crossover never learns the rate.
OneSetting ==
  main.pc = "done" /\ (node = "loudness" => ~raced) =>
    \A i \in DOMAIN used :
      /\ used[i][1] = due
      /\ node # "crossover" => used[i][2] = main.arg
=============================================================================
