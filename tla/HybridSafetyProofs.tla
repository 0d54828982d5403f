-------------------------- MODULE HybridSafetyProofs --------------------------
(***************************************************************************)
(* The limits of the hybrid advisor for every limit, any number of days,   *)
(* and any order of ticks, deals, restarts, failed starts and crashes.     *)
(*                                                                         *)
(* Each property rests on what a restart would find: the terminal's        *)
(* variables while the advisor runs agree with it on the day (MirrorInv),  *)
(* an order leaves the day's beginning on disk as well (BaseInv), and what *)
(* the advisor has, or would load, counts no fewer trades and losses than  *)
(* there were (LimitInv, StreakInv).                                       *)
(***************************************************************************)
EXTENDS HybridSafety, TLAPS

Sane(s) ==
  s # None => s.day_stamp <= today /\ s.halt_bars_left <= HaltCooldownBars

MirrorInv ==
  mem # None =>
    /\ globals # None
    /\ globals.day_stamp = mem.day_stamp
    /\ globals.day_start_equity = mem.day_start_equity

Saved(s) == s # None /\ s.day_stamp = today /\ s.day_start_equity = base

BaseInv ==
  base # None =>
    /\ Saved(globals) /\ Saved(disk)
    /\ mem # None => Saved(mem)

(* What the advisor goes by, or will when it starts.                       *)
Held == IF mem = None THEN globals ELSE mem

TradesOf(s) == IF s # None /\ s.day_stamp = today THEN s.trades_today ELSE 0
LossesOf(s) == IF s # None THEN s.consec_losses ELSE 0

LimitInv ==
  ~crashed => entries <= MaxTradesPerDay /\ entries <= TradesOf(Held)

StreakInv == streak <= LossesOf(Held)

IInv ==
  /\ TypeOK
  /\ Sane(globals) /\ Sane(disk)
  /\ MirrorInv /\ BaseInv /\ LimitInv /\ StreakInv

LEMMA InitIInv == Init => IInv
<1> SUFFICES ASSUME Init PROVE IInv
  OBVIOUS
<1>1. 0 \in Money /\ 0 \in 0..LastDay /\ 0 \in 0..MaxLate
  BY HybridAssumption DEF Money
<1>2. TypeOK
  <2>1. deals \in Seq({"loss", "gain"})
    BY DEF Init
  <2>2. positions \in Nat /\ entries \in Nat /\ streak \in Nat
    BY DEF Init
  <2> QED
    BY <1>1, <2>1, <2>2 DEF Init, TypeOK
<1> QED
  BY <1>1, <1>2, HybridAssumption
     DEF Init, IInv, Sane, MirrorInv, BaseInv, LimitInv, StreakInv, Held, TradesOf,
         LossesOf

(* What rolling the day makes of a state.                                  *)
LEMMA RolledShape ==
  ASSUME TypeOK
  PROVE  /\ Fresh \in Safety
         /\ \A s \in Safety :
              /\ Rolled(s) \in Safety /\ Rolled(s) # None
              /\ Rolled(s).day_stamp = today
              /\ MustRoll(s) => Rolled(s) = Fresh
              /\ ~MustRoll(s) => Rolled(s) = s
<1>1. /\ Fresh \in Safety /\ Fresh.day_stamp = today
  BY HybridAssumption DEF TypeOK, Fresh, Safety
<1> QED
  BY <1>1, NoneAssumption DEF Rolled, MustRoll

LEMMA LoadedShape ==
  ASSUME TypeOK
  PROVE  /\ Loaded \in Safety /\ Loaded # None
         /\ globals = None => Loaded = Fresh /\ ~MustRoll(Loaded)
         /\ globals # None => Loaded = globals
BY RolledShape, NoneAssumption DEF TypeOK, Loaded, MustRoll, Fresh

------------------------------------------------------------------------------
(* Starting and stopping.                                                  *)

LEMMA OnInitKeepsIInv == IInv /\ OnInit => IInv'
<1> SUFFICES ASSUME IInv, OnInit PROVE IInv'
  OBVIOUS
<1>1. /\ mem' \in Safety /\ mem' # None /\ mem'.day_stamp = today
      /\ mem = None /\ globals' = mem'
      /\ UNCHANGED <<disk, today, equity, positions, late, deals, entries, base, crashed>>
  BY RolledShape, LoadedShape DEF IInv, OnInit
<1>2. CASE globals = None
  <2>1. mem' = Fresh /\ streak' = streak
    BY <1>2, LoadedShape, RolledShape DEF IInv, OnInit
  <2>2. base = None /\ streak <= 0 /\ (~crashed => entries <= 0)
    BY <1>1, <1>2 DEF IInv, BaseInv, Saved, LimitInv, StreakInv, Held, TradesOf, LossesOf
  <2>3. TypeOK' /\ Sane(globals)' /\ Sane(disk)'
    BY <1>1, <2>1, HybridAssumption DEF IInv, TypeOK, Sane, Fresh
  <2> QED
    BY <1>1, <2>1, <2>2, <2>3, HybridAssumption
       DEF IInv, MirrorInv, BaseInv, LimitInv, StreakInv, Held, TradesOf, LossesOf,
           Fresh, TypeOK
<1>3. CASE globals # None /\ MustRoll(globals)
  <2>1. mem' = Fresh /\ streak' = 0
    BY <1>3, LoadedShape, RolledShape DEF IInv, OnInit
  <2>2. base = None /\ (~crashed => entries <= 0)
    BY <1>1, <1>3 DEF IInv, BaseInv, Saved, LimitInv, Held, TradesOf, MustRoll
  <2>3. TypeOK' /\ Sane(globals)' /\ Sane(disk)'
    BY <1>1, <2>1, HybridAssumption DEF IInv, TypeOK, Sane, Fresh
  <2> QED
    BY <1>1, <2>1, <2>2, <2>3, HybridAssumption
       DEF IInv, MirrorInv, BaseInv, LimitInv, StreakInv, Held, TradesOf, LossesOf,
           Fresh, TypeOK
<1>4. CASE globals # None /\ ~MustRoll(globals)
  <2>1. mem' = globals /\ globals' = globals /\ streak' = streak
    BY <1>1, <1>4, LoadedShape, RolledShape DEF IInv, OnInit
  <2>2. TypeOK' /\ Sane(globals)' /\ Sane(disk)'
    BY <1>1, <2>1 DEF IInv, TypeOK, Sane
  <2> QED
    BY <1>1, <2>1, <2>2
       DEF IInv, MirrorInv, BaseInv, Saved, LimitInv, StreakInv, Held, TradesOf, LossesOf
<1> QED
  BY <1>2, <1>3, <1>4

LEMMA StartStopKeepsIInv ==
  IInv /\ (OnInitFails \/ OnDeinit \/ CloseTerminal \/ CrashTerminal) => IInv'
<1> SUFFICES ASSUME IInv PROVE (OnInitFails \/ OnDeinit \/ CloseTerminal \/ CrashTerminal) => IInv'
  OBVIOUS
<1>1. ASSUME OnInitFails PROVE IInv'
  <2>1. /\ globals' \in Safety /\ globals'.day_stamp = -1
        /\ globals'.halt_bars_left = 0 /\ globals'.consec_losses = 0
    BY <1>1, HybridAssumption DEF OnInitFails, Safety, Money
  <2>2. TypeOK' /\ Sane(globals)' /\ Sane(disk)'
    BY <1>1, <2>1, HybridAssumption DEF OnInitFails, IInv, TypeOK, Sane
  <2> QED
    BY <1>1, <2>1, <2>2, HybridAssumption
       DEF OnInitFails, IInv, MirrorInv, BaseInv, LimitInv, StreakInv, Held, TradesOf,
           LossesOf, TypeOK
<1>2. ASSUME OnDeinit PROVE IInv'
  <2>1. TypeOK' /\ Sane(globals)' /\ Sane(disk)'
    BY <1>2 DEF OnDeinit, IInv, TypeOK, Sane
  <2> QED
    BY <1>2, <2>1 DEF OnDeinit, IInv, MirrorInv, BaseInv, Saved, LimitInv, StreakInv,
                      Held, TradesOf, LossesOf
<1>3. ASSUME CloseTerminal PROVE IInv'
  BY <1>3 DEF CloseTerminal, IInv, TypeOK, Sane, MirrorInv, BaseInv, Saved, LimitInv,
              StreakInv, Held, TradesOf, LossesOf
<1>4. ASSUME CrashTerminal PROVE IInv'
  <2>1. TypeOK' /\ Sane(globals)' /\ Sane(disk)'
    BY <1>4, HybridAssumption DEF CrashTerminal, IInv, TypeOK, Sane
  <2>2. globals' # None => globals'.consec_losses \in Nat
    BY <2>1 DEF TypeOK, Safety
  <2> QED
    BY <1>4, <2>1, <2>2 DEF CrashTerminal, IInv, MirrorInv, BaseInv, Saved, LimitInv,
                      StreakInv, Held, LossesOf
<1> QED
  BY <1>1, <1>2, <1>3, <1>4

------------------------------------------------------------------------------
(* Ticks.                                                                  *)

(* What holds of the advisor's state once the day has been rolled.         *)
LEMMA RolledTick ==
  ASSUME IInv, mem # None
  PROVE  LET s == Rolled(mem) IN
         /\ s \in Safety /\ s # None /\ s.day_stamp = today
         /\ s.halt_bars_left <= HaltCooldownBars
         /\ base # None => base = s.day_start_equity /\ ~MustRoll(mem)
         /\ ~crashed => entries <= s.trades_today
         /\ (IF MustRoll(mem) THEN 0 ELSE streak) <= s.consec_losses
         /\ (IF MustRoll(mem) THEN 0 ELSE streak) \in Nat
<1>1. mem \in Safety
  BY DEF IInv, TypeOK
<1>2. CASE MustRoll(mem)
  <2>1. Rolled(mem) = Fresh /\ base = None /\ (~crashed => entries <= 0)
    BY <1>1, <1>2, RolledShape
       DEF IInv, BaseInv, Saved, LimitInv, Held, TradesOf, MustRoll
  <2> QED
    BY <1>1, <1>2, <2>1, RolledShape, HybridAssumption DEF IInv, Fresh
<1>3. CASE ~MustRoll(mem)
  BY <1>1, <1>3, RolledShape
     DEF IInv, TypeOK, BaseInv, Saved, LimitInv, StreakInv, Held, TradesOf, LossesOf,
         MustRoll
<1> QED
  BY <1>2, <1>3

LEMMA TickKeepsIInv == IInv /\ (Roll \/ CountDown) => IInv'
<1> SUFFICES ASSUME IInv, Roll \/ CountDown PROVE IInv'
  OBVIOUS
<1> DEFINE s == Rolled(mem)
           left == IF MustRoll(mem) THEN 0 ELSE streak
<1>1. mem # None /\ mem \in Safety
  BY DEF Roll, CountDown, Passes, IInv, TypeOK
<1>2. /\ s \in Safety /\ s # None /\ s.day_stamp = today
      /\ s.halt_bars_left <= HaltCooldownBars
      /\ base # None => base = s.day_start_equity
      /\ ~crashed => entries <= s.trades_today
      /\ left <= s.consec_losses /\ left \in Nat
  BY <1>1, RolledTick
<1>3. /\ mem' \in Safety /\ mem' # None /\ globals' = mem'
      /\ mem'.day_stamp = today /\ mem'.day_start_equity = s.day_start_equity
      /\ mem'.trades_today = s.trades_today /\ mem'.consec_losses = s.consec_losses
      /\ mem'.halt_bars_left <= HaltCooldownBars
      /\ streak' = left
      /\ UNCHANGED <<disk, today, equity, positions, late, deals, entries, base, crashed>>
  <2>1. CASE Roll
    BY <1>1, <1>2, <2>1, RolledShape DEF Roll, IInv
  <2>2. CASE CountDown
    <3>1. mem' = [s EXCEPT !.halt_bars_left = @ - 1] /\ s.halt_bars_left > 0
      BY <2>2 DEF CountDown
    <3>2. mem' \in Safety
      BY <1>2, <3>1 DEF Safety
    <3>3. mem' # None
      BY <3>2, NoneAssumption
    <3> QED
      BY <1>2, <2>2, <3>1, <3>2, <3>3, HybridAssumption DEF CountDown, Safety
  <2> QED
    BY <2>1, <2>2
<1>4. TypeOK' /\ Sane(globals)' /\ Sane(disk)'
  BY <1>2, <1>3, HybridAssumption DEF IInv, TypeOK, Sane
<1> QED
  BY <1>2, <1>3, <1>4 DEF IInv, MirrorInv, BaseInv, Saved, LimitInv, StreakInv, Held,
                          TradesOf, LossesOf

(* An order saves the day's beginning and counts itself, or nothing.       *)
LEMMA OrderKeepsIInv == IInv /\ Order => IInv'
<1> SUFFICES ASSUME IInv, NEW counted \in BOOLEAN, NEW fills \in {"now", "later", "never"},
                    Enter(counted, fills)
             PROVE  IInv'
  BY DEF Order
<1> DEFINE s == Rolled(mem)
           kept == IF MustRoll(mem) THEN s ELSE globals
           left == IF MustRoll(mem) THEN 0 ELSE streak
<1>1. mem # None /\ mem \in Safety /\ s.trades_today < MaxTradesPerDay
  BY DEF Enter, Passes, IInv, TypeOK
<1>2. /\ s \in Safety /\ s # None /\ s.day_stamp = today
      /\ s.halt_bars_left <= HaltCooldownBars
      /\ base # None => base = s.day_start_equity
      /\ ~crashed => entries <= s.trades_today
      /\ left <= s.consec_losses /\ left \in Nat
  BY <1>1, RolledTick
<1>3. /\ kept \in Safety /\ kept # None /\ kept.day_stamp = today
      /\ kept.day_start_equity = s.day_start_equity
      /\ kept.halt_bars_left <= HaltCooldownBars
  <2>1. CASE MustRoll(mem)
    BY <1>2, <2>1
  <2>2. CASE ~MustRoll(mem)
    BY <1>1, <1>2, <2>2, RolledShape DEF IInv, TypeOK, Sane, MirrorInv, MustRoll
  <2> QED
    BY <2>1, <2>2
<1>4. /\ globals' = s \/ globals' = kept
      /\ disk' = kept
      /\ mem' = IF counted THEN [s EXCEPT !.trades_today = @ + 1] ELSE s
      /\ base' = IF base = None THEN s.day_start_equity ELSE base
      /\ streak' = left
      /\ entries' = IF counted /\ ~crashed THEN entries + 1 ELSE entries
      /\ UNCHANGED <<today, equity, deals, crashed>>
  BY DEF Enter, Flushed
<1>5. /\ mem' \in Safety /\ mem' # None /\ mem'.day_stamp = today
      /\ mem'.day_start_equity = s.day_start_equity
      /\ mem'.consec_losses = s.consec_losses
      /\ mem'.halt_bars_left = s.halt_bars_left
      /\ mem'.trades_today = IF counted THEN s.trades_today + 1 ELSE s.trades_today
  <2>1. mem' \in Safety
    BY <1>2, <1>4 DEF Safety
  <2> QED
    BY <2>1, <1>2, <1>4, NoneAssumption DEF Safety
<1>6. positions' \in Nat /\ late' \in 0..MaxLate
  BY HybridAssumption DEF Enter, IInv, TypeOK
<1>7. base' = s.day_start_equity /\ base' \in Money
  BY <1>2, <1>4 DEF Safety
<1>8. entries' \in Nat
  BY <1>4 DEF IInv, TypeOK
<1>9. TypeOK' /\ Sane(globals)' /\ Sane(disk)'
  BY <1>2, <1>3, <1>4, <1>5, <1>6, <1>7, <1>8 DEF IInv, TypeOK, Sane
<1>10. MirrorInv' /\ BaseInv'
  BY <1>2, <1>3, <1>4, <1>5, <1>7 DEF MirrorInv, BaseInv, Saved
<1>11. s.trades_today \in Nat /\ MaxTradesPerDay \in Nat /\ entries \in Nat
  BY <1>2, HybridAssumption DEF Safety, IInv, TypeOK
<1>12. LimitInv'
  BY <1>1, <1>2, <1>4, <1>5, <1>11 DEF LimitInv, Held, TradesOf, IInv
<1>13. StreakInv'
  BY <1>2, <1>4, <1>5 DEF StreakInv, Held, LossesOf
<1> QED
  BY <1>9, <1>10, <1>12, <1>13 DEF IInv

------------------------------------------------------------------------------
(* Deals and days.                                                         *)

LEMMA BookingKeepsIInv == IInv /\ OnTradeTransaction => IInv'
<1> SUFFICES ASSUME IInv, OnTradeTransaction PROVE IInv'
  OBVIOUS
<1> DEFINE d == Head(deals)
<1>1. /\ mem # None /\ mem \in Safety /\ d \in {"loss", "gain"}
      /\ deals' \in Seq({"loss", "gain"})
      /\ mem' = Booked(mem, d) /\ globals' = mem'
      /\ streak' = IF crashed \/ d = "gain" THEN 0 ELSE streak + 1
      /\ UNCHANGED <<disk, today, equity, positions, late, entries, base, crashed>>
  BY DEF OnTradeTransaction, IInv, TypeOK
<1>2. /\ mem' \in Safety
      /\ mem'.day_stamp = mem.day_stamp
      /\ mem'.day_start_equity = mem.day_start_equity
      /\ mem'.trades_today = mem.trades_today
      /\ mem'.halt_bars_left <= HaltCooldownBars
      /\ mem'.consec_losses = IF d = "gain" THEN 0 ELSE mem.consec_losses + 1
  <2>1. mem.halt_bars_left <= HaltCooldownBars
    BY <1>1 DEF IInv, TypeOK
  <2>2. CASE d = "gain"
    <3>1. mem' = [mem EXCEPT !.consec_losses = 0]
      BY <1>1, <2>2 DEF Booked
    <3> QED
      BY <1>1, <2>1, <2>2, <3>1 DEF Safety
  <2>3. CASE d # "gain"
    <3>1. PICK left \in {HaltCooldownBars, mem.halt_bars_left} :
            mem' = [mem EXCEPT !.consec_losses = mem.consec_losses + 1,
                               !.halt_bars_left = left]
      BY <1>1, <2>3 DEF Booked
    <3>2. left \in Nat /\ left <= HaltCooldownBars
      <4>1. mem.halt_bars_left \in Nat /\ HaltCooldownBars \in Nat
        BY <1>1, HybridAssumption DEF Safety
      <4> QED
        BY <2>1, <3>1, <4>1
    <3>3. /\ mem.consec_losses + 1 \in Nat
          /\ mem' = [[mem EXCEPT !.consec_losses = mem.consec_losses + 1]
                       EXCEPT !.halt_bars_left = left]
      BY <1>1, <3>1 DEF Safety
    <3> QED
      BY <1>1, <2>3, <3>2, <3>3 DEF Safety
  <2> QED
    BY <2>2, <2>3
<1>3. mem' # None
  BY <1>2, NoneAssumption
<1>4. TypeOK' /\ Sane(globals)' /\ Sane(disk)'
  BY <1>1, <1>2, <1>3 DEF IInv, TypeOK, Sane
<1>5. MirrorInv' /\ BaseInv'
  BY <1>1, <1>2, <1>3 DEF IInv, MirrorInv, BaseInv, Saved
<1>6. LimitInv'
  BY <1>1, <1>2, <1>3 DEF IInv, LimitInv, Held, TradesOf
<1>7. StreakInv'
  BY <1>1, <1>2, <1>3 DEF IInv, TypeOK, StreakInv, Held, LossesOf, Safety
<1> QED
  BY <1>4, <1>5, <1>6, <1>7 DEF IInv

LEMMA BrokerKeepsIInv ==
  IInv /\ ((\E d \in {"loss", "gain"}, all \in BOOLEAN : Deal(d, all))
             \/ LateFill \/ NewDay) => IInv'
<1>1. ASSUME IInv, NEW d \in {"loss", "gain"}, NEW all \in BOOLEAN, Deal(d, all)
      PROVE  IInv'
  <2>1. positions' \in Nat /\ deals' \in Seq({"loss", "gain"}) /\ equity' \in Money
    BY <1>1 DEF Deal, IInv, TypeOK
  <2> QED
    BY <1>1, <2>1 DEF Deal, IInv, TypeOK, Sane, MirrorInv, BaseInv, Saved, LimitInv,
                      StreakInv, Held, TradesOf, LossesOf
<1>2. ASSUME IInv, LateFill PROVE IInv'
  <2>1. positions' \in Nat /\ late' \in 0..MaxLate
    BY <1>2, HybridAssumption DEF LateFill, IInv, TypeOK
  <2> QED
    BY <1>2, <2>1 DEF LateFill, IInv, TypeOK, Sane, MirrorInv, BaseInv, Saved, LimitInv,
                      StreakInv, Held, TradesOf, LossesOf
<1>3. ASSUME IInv, NewDay PROVE IInv'
  <2>1. today' \in 0..LastDay /\ today' = today + 1
    BY <1>3, HybridAssumption DEF NewDay, IInv, TypeOK
  <2>2. \A s \in Safety : s.day_stamp <= today => s.day_stamp <= today'
    <3>1. \A s \in Safety : s.day_stamp \in Int
      BY HybridAssumption DEF Safety
    <3>2. today \in Int
      BY <1>3 DEF IInv, TypeOK
    <3> QED
      BY <2>1, <3>1, <3>2
  <2>3. TypeOK' /\ Sane(globals)' /\ Sane(disk)'
    BY <1>3, <2>1, <2>2, HybridAssumption DEF NewDay, IInv, TypeOK, Sane
  <2>4. Held' = Held /\ TradesOf(Held)' \in Nat
    BY <1>3, <2>3 DEF NewDay, Held, TradesOf, TypeOK, Safety
  <2> QED
    BY <1>3, <2>3, <2>4, HybridAssumption
       DEF NewDay, IInv, MirrorInv, BaseInv, LimitInv, StreakInv, LossesOf
<1> QED
  BY <1>1, <1>2, <1>3

LEMMA NextIInv == IInv /\ [Next]_vars => IInv'
<1> SUFFICES ASSUME IInv, [Next]_vars PROVE IInv'
  OBVIOUS
<1>1. CASE Next
  BY <1>1, OnInitKeepsIInv, StartStopKeepsIInv, TickKeepsIInv, OrderKeepsIInv,
     BookingKeepsIInv, BrokerKeepsIInv DEF Next
<1>2. CASE UNCHANGED vars
  BY <1>2 DEF vars, IInv, TypeOK, Sane, MirrorInv, BaseInv, Saved, LimitInv, StreakInv,
              Held, TradesOf, LossesOf
<1> QED
  BY <1>1, <1>2

(* Together they hold in every state.                                      *)
THEOREM SafetyStateInvariant == Spec => []IInv
BY InitIInv, NextIInv, PTL DEF Spec

------------------------------------------------------------------------------
(* The variables, what is saved of them and the halt keep their types and  *)
(* bounds: a halt is never longer than one cooldown.                       *)
THEOREM HybridTypeCorrect == Spec => []TypeOK
<1>1. IInv => TypeOK
  BY DEF IInv
<1> QED
  BY <1>1, SafetyStateInvariant, PTL

(* SendBuy and SendSell: no more than MaxTradesPerDay orders are counted   *)
(* on a day on which the terminal did not crash.                           *)
THEOREM DailyLimitKept == Spec => []DailyLimit
<1>1. IInv => DailyLimit
  BY DEF IInv, LimitInv, DailyLimit
<1> QED
  BY <1>1, SafetyStateInvariant, PTL

(* DailyLossOk: no order leaves when the limit is lost since the day on    *)
(* which an order has left began, over restarts and crashes.               *)
THEOREM DailyLossKept == Spec => DailyLossHolds
<1>1. IInv /\ [Next]_vars => [Order => base' - equity < LossLimit]_vars
  <2> SUFFICES ASSUME IInv, Order PROVE base' - equity < LossLimit
    OBVIOUS
  <2>1. /\ mem # None /\ Rolled(mem).day_start_equity - equity < LossLimit
        /\ base' = IF base = None THEN Rolled(mem).day_start_equity ELSE base
    BY DEF Order, Enter, Passes, DailyLossOk
  <2>2. base # None => base = Rolled(mem).day_start_equity
    BY <2>1, RolledTick
  <2> QED
    BY <2>1, <2>2
<1> QED
  BY <1>1, SafetyStateInvariant, PTL DEF Spec, DailyLossHolds

(* OnTick and OnTradeTransaction: no order leaves after ConsecutiveHalt    *)
(* losses in a row that were booked.                                       *)
THEOREM HaltKept == Spec => HaltHolds
<1>1. IInv /\ [Next]_vars => [Order /\ ~crashed => streak' < ConsecutiveHalt]_vars
  <2> SUFFICES ASSUME IInv, Order PROVE streak' < ConsecutiveHalt
    OBVIOUS
  <2>1. /\ mem # None /\ Rolled(mem).consec_losses < ConsecutiveHalt
        /\ streak' = IF MustRoll(mem) THEN 0 ELSE streak
    BY DEF Order, Enter, Passes
  <2>2. /\ streak' <= Rolled(mem).consec_losses /\ streak' \in Nat
        /\ Rolled(mem).consec_losses \in Nat
    BY <2>1, RolledTick DEF Safety
  <2> QED
    BY <2>1, <2>2, HybridAssumption
<1> QED
  BY <1>1, SafetyStateInvariant, PTL DEF Spec, HaltHolds
==============================================================================
