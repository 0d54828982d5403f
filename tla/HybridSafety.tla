----------------------------- MODULE HybridSafety -----------------------------
(***************************************************************************)
(* The daily limits and the loss halt of GRK_Hybrid_Regime_EA.mq5 and how  *)
(* they survive the advisor and its terminal: the advisor's variables are  *)
(* copied to the terminal's global variables by PersistSafetyState and     *)
(* reach the disk when something calls GlobalVariablesFlush or the         *)
(* terminal closes.                                                        *)
(*                                                                         *)
(* Handlers run one at a time.  Deals happen at the broker whenever they   *)
(* do, and their OnTradeTransaction waits behind ticks already queued.     *)
(* Money is counted in units of one deal's result.  Market filters, the    *)
(* profit lock and the signal may stop a tick at their place; a tick that  *)
(* gets past them is the first of its bar; each order has a fresh record   *)
(* (AuthorizationAttempt says what it may do with it).  The terminal knows *)
(* the broker's day when the advisor starts.                               *)
(***************************************************************************)
EXTENDS Integers, Sequences

CONSTANTS
  MaxTradesPerDay, ConsecutiveHalt, HaltCooldownBars,
  LossLimit,      \* DailyLossLimit in money
  MaxPositions,
  LastDay, MaxDown, MaxUp, MaxDeals, MaxLate, MaxLosses,  \* bounds of the model
  None

ASSUME HybridAssumption ==
  /\ MaxTradesPerDay \in Nat \ {0} /\ LossLimit \in Nat \ {0}
  /\ ConsecutiveHalt \in Nat /\ HaltCooldownBars \in Nat
  /\ LastDay \in Nat /\ MaxDown \in Nat /\ MaxUp \in Nat /\ MaxLate \in Nat

VARIABLES
  mem,        \* the advisor's variables, None when it does not run
  globals,    \* the terminal's global variables
  disk,       \* what the terminal starts with after a crash
  today,      \* the broker's day
  equity,
  positions,  \* open positions of this advisor
  late,       \* orders it gave up on that may still fill
  deals,      \* closing deals whose OnTradeTransaction is still to run
  base,       \* history: day_start_equity at the first order of this day,
              \* forgotten, like the next two, when an OnInit fails
  crashed,    \* history: the terminal died today
  entries,    \* history, to a crash: orders of this day that were counted
  streak      \* history, to a crash: losses booked since a gain or a new day

vars == <<mem, globals, disk, today, equity, positions, late, deals,
          entries, base, streak, crashed>>

Money == -MaxDown .. MaxUp
Safety == [consec_losses : Nat, halt_bars_left : Nat, trades_today : Nat,
           day_stamp : -1..LastDay, day_start_equity : Money]

ASSUME NoneAssumption == None \notin Safety /\ None \notin Money

TypeOK ==
  /\ mem \in Safety \union {None}
  /\ globals \in Safety \union {None}
  /\ disk \in Safety \union {None}
  /\ mem # None => mem.day_stamp <= today /\ mem.halt_bars_left <= HaltCooldownBars
  /\ today \in 0..LastDay /\ equity \in Money
  /\ positions \in Nat /\ late \in 0..MaxLate
  /\ deals \in Seq({"loss", "gain"})
  /\ entries \in Nat /\ base \in Money \union {None}
  /\ streak \in Nat /\ crashed \in BOOLEAN

Fresh == [consec_losses |-> 0, halt_bars_left |-> 0, trades_today |-> 0,
          day_stamp |-> today, day_start_equity |-> equity]

Init ==
  /\ mem = None /\ globals = None /\ disk = None
  /\ today = 0 /\ equity = 0
  /\ positions = 0 /\ late = 0 /\ deals = <<>>
  /\ entries = 0 /\ base = None /\ streak = 0
  /\ crashed = FALSE
------------------------------------------------------------------------------
(* RollDayIfNeeded                                                         *)
MustRoll(s) == s.day_stamp # today
Rolled(s) == IF MustRoll(s) THEN Fresh ELSE s

(* Mutant: what halts the advisor is not loaded.                           *)
Loaded_Partly ==
  IF globals = None THEN Fresh ELSE [globals EXCEPT !.consec_losses = 0]

(* LoadSafetyState                                                         *)
Loaded == IF globals = None THEN Fresh ELSE globals

(* OnInit: what was not found or is of another day is set and persisted.   *)
OnInit ==
  /\ mem = None
  /\ mem' = Rolled(Loaded)
  /\ globals' = mem'
  /\ streak' = IF MustRoll(Loaded) THEN 0 ELSE streak
  /\ UNCHANGED <<disk, today, equity, positions, late, deals, entries, base,
                 crashed>>

(* OnInit returns INIT_FAILED: an input is out of range, an indicator or   *)
(* the trace file is not to be had.  The terminal calls OnDeinit all the   *)
(* same, which persists variables that were never loaded, of a day long    *)
(* past: the next OnInit begins the day anew.                              *)
OnInitFails ==
  /\ mem = None
  /\ globals' = [consec_losses |-> 0, halt_bars_left |-> 0, trades_today |-> 0,
                 day_stamp |-> -1, day_start_equity |-> 0]
  /\ entries' = 0 /\ base' = None /\ streak' = 0
  /\ UNCHANGED <<mem, disk, today, equity, positions, late, deals, crashed>>

(* Mutant: OnDeinit releases the indicators only.                          *)
OnDeinit_Forgets ==
  /\ mem # None
  /\ mem' = None /\ deals' = <<>>
  /\ UNCHANGED <<globals, disk, today, equity, positions, late, entries, base,
                 streak, crashed>>

(* The advisor is removed, recompiled or moved to another timeframe; what  *)
(* was queued for it is dropped.                                           *)
OnDeinit ==
  /\ mem # None
  /\ mem' = None /\ deals' = <<>>
  /\ globals' = mem
  /\ UNCHANGED <<disk, today, equity, positions, late, entries, base,
                 streak, crashed>>

(* A terminal that closes saves its global variables,                      *)
CloseTerminal ==
  /\ mem = None
  /\ disk' = globals
  /\ UNCHANGED <<mem, globals, today, equity, positions, late, deals, entries,
                 base, streak, crashed>>

(* one that dies comes back with those it saved last.                      *)
CrashTerminal ==
  /\ mem' = None /\ deals' = <<>>
  /\ globals' = disk
  /\ crashed' = TRUE /\ entries' = 0 /\ streak' = 0
  /\ UNCHANGED <<disk, today, equity, positions, late, base>>

------------------------------------------------------------------------------
(* OnTick, in three endings.                                               *)

(* DailyLossOk has rolled the day; then something stops the tick.          *)
Roll ==
  /\ mem # None /\ MustRoll(mem)
  /\ mem' = Fresh /\ globals' = Fresh
  /\ streak' = 0
  /\ UNCHANGED <<disk, today, equity, positions, late, deals, entries, base,
                 crashed>>

DailyLossOk == Rolled(mem).day_start_equity - equity < LossLimit

(* A tick that passes every check.                                         *)
Passes ==
  /\ mem # None
  /\ DailyLossOk
  /\ Rolled(mem).consec_losses < ConsecutiveHalt
  /\ Rolled(mem).trades_today < MaxTradesPerDay
  /\ positions < MaxPositions

(* During a halt it counts a bar.                                          *)
CountDown ==
  /\ Passes
  /\ Rolled(mem).halt_bars_left > 0
  /\ mem' = [Rolled(mem) EXCEPT !.halt_bars_left = @ - 1]
  /\ globals' = mem'
  /\ streak' = IF MustRoll(mem) THEN 0 ELSE streak
  /\ UNCHANGED <<disk, today, equity, positions, late, deals, entries, base,
                 crashed>>

(* Mutant: BeginRuntimeAuthorizationAttempt does not flush.                *)
Flushed_Never(s) == disk

(* GlobalVariablesFlush in BeginRuntimeAuthorizationAttempt.               *)
Flushed(s) == s

(* Otherwise it may send an order.  Counted ones were accepted in full and *)
(* marked consumed; trades_today is not persisted there.  The others were  *)
(* refused, partial or unknown, and the state is persisted, or could not   *)
(* be marked: they fill now, later or never.                               *)
Enter(counted, fills) ==
  LET s == Rolled(mem)
      kept == IF MustRoll(mem) THEN s ELSE globals
  IN
  /\ Passes /\ s.halt_bars_left = 0
  /\ counted => fills = "now"
  /\ fills = "later" => late < MaxLate
  /\ mem' = IF counted THEN [s EXCEPT !.trades_today = @ + 1] ELSE s
  /\ \/ globals' = s /\ ~counted
     \/ globals' = kept /\ fills = "now"
  /\ disk' = Flushed(kept)
  /\ positions' = IF fills = "now" THEN positions + 1 ELSE positions
  /\ late' = IF fills = "later" THEN late + 1 ELSE late
  /\ entries' = IF counted /\ ~crashed THEN entries + 1 ELSE entries
  /\ base' = IF base = None THEN s.day_start_equity ELSE base
  /\ streak' = IF MustRoll(mem) THEN 0 ELSE streak
  /\ UNCHANGED <<today, equity, deals, crashed>>

Order == \E counted \in BOOLEAN, fills \in {"now", "later", "never"} :
           Enter(counted, fills)

(* Mutant: the cooldown is added to what is left of the last one.          *)
Booked_Adds(s, d) ==
  IF d = "gain" THEN [s EXCEPT !.consec_losses = 0]
  ELSE [s EXCEPT !.consec_losses = @ + 1,
         !.halt_bars_left = IF s.consec_losses + 1 >= ConsecutiveHalt
                            THEN @ + HaltCooldownBars ELSE @]

Booked(s, d) ==
  IF d = "gain" THEN [s EXCEPT !.consec_losses = 0]
  ELSE [s EXCEPT !.consec_losses = @ + 1,
         !.halt_bars_left = IF s.consec_losses + 1 >= ConsecutiveHalt
                            THEN HaltCooldownBars ELSE @]

(* OnTradeTransaction for a closing deal.                                  *)
OnTradeTransaction ==
  /\ mem # None /\ deals # <<>>
  /\ mem' = Booked(mem, Head(deals)) /\ globals' = mem'
  /\ deals' = Tail(deals)
  /\ streak' = IF crashed \/ Head(deals) = "gain" THEN 0 ELSE streak + 1
  /\ UNCHANGED <<disk, today, equity, positions, late, entries, base,
                 crashed>>

------------------------------------------------------------------------------
(* The broker.                                                             *)

(* A closing deal, of part of a position or of all of it.  An advisor that *)
(* does not run never hears of it.                                         *)
Deal(d, all) ==
  /\ positions > 0 /\ Len(deals) < MaxDeals
  /\ mem # None => mem.consec_losses + Len(deals) < MaxLosses
  /\ equity' = IF d = "gain" THEN equity + 1 ELSE equity - 1
  /\ equity' \in Money
  /\ positions' = IF all THEN positions - 1 ELSE positions
  /\ deals' = IF mem = None THEN deals ELSE Append(deals, d)
  /\ UNCHANGED <<mem, globals, disk, today, late, entries, base,
                 streak, crashed>>

LateFill ==
  /\ late > 0
  /\ late' = late - 1 /\ positions' = positions + 1
  /\ UNCHANGED <<mem, globals, disk, today, equity, deals, entries, base, streak,
                 crashed>>

NewDay ==
  /\ today < LastDay
  /\ today' = today + 1
  /\ entries' = 0 /\ base' = None /\ crashed' = FALSE
  /\ UNCHANGED <<mem, globals, disk, equity, positions, late, deals, streak>>

Next ==
  \/ OnInit \/ OnInitFails \/ OnDeinit \/ CloseTerminal \/ CrashTerminal
  \/ Roll \/ CountDown \/ Order \/ OnTradeTransaction
  \/ \E d \in {"loss", "gain"}, all \in BOOLEAN : Deal(d, all)
  \/ LateFill \/ NewDay

Spec == Init /\ [][Next]_vars
------------------------------------------------------------------------------
(* Once an order has left on a day, no order leaves when DailyLossLimit is *)
(* lost since that day began, whatever restarts and crashes in between:    *)
(* each attempt saves day_start_equity, so a crash cannot move it.  Only a *)
(* failed OnInit can.                                                      *)
DailyLossHolds == [][Order => base' - equity < LossLimit]_vars

(* On a day without a crash of the terminal at most MaxTradesPerDay orders *)
(* are counted, over any restarts of the advisor that succeed.             *)
DailyLimit == ~crashed => entries <= MaxTradesPerDay

(* On such a day no order leaves after ConsecutiveHalt losses in a row     *)
(* were booked, until a gain is booked or the day is rolled; the cooldown  *)
(* alone, in bars, never lifts it.                                         *)
HaltHolds == [][Order /\ ~crashed => streak' < ConsecutiveHalt]_vars
==============================================================================
