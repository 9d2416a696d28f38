--------------------------- MODULE JournalLadder_proofs ---------------------------
(***************************************************************************)
(* Proofs about the take-profit ladder and the signal journal, as the run  *)
(* JournalLadder puts them together: of any number of levels, for every    *)
(* recipe, position, number of faults and allocation of an update.         *)
(*                                                                         *)
(* The ladder's invariant IInv says, of every level, what its plan, its    *)
(* ledger row and its order at the venue have to do with each other        *)
(* (LevelFits); at which level a handler works and what it has read        *)
(* (StageFits, ExitFits); that an order that left the plan alive was       *)
(* dropped by an update (StraysFit); and that what the levels want was     *)
(* last cut down to the position that was recorded with it (WantFits).     *)
(* The journal's is that of SignalJournal_proofs, of each of its two       *)
(* instances.                                                              *)
(***************************************************************************)
EXTENDS MCJournalLadder, WellFoundedInduction, TLAPS

Statuses == {"PLANNED", "BELOW_MINIMUM", "REJECTED", "NEW", "CANCELED", "FILLED"}
RowStatus == {"none", "PLANNED", "SUBMITTING", "UNKNOWN", "KNOWN", "REJECTED", "REJECTED_RETRY",
              "ABANDONED"}
OnBook == {"flying", "live"}
Stages == {"idle", "position", "refresh", "scale", "level", "withdraw", "after", "place", "answer",
           "stamp", "finish", "cover", "withdrawOne", "size", "order", "send", "query", "cancel",
           "cancelled", "allocate"}
PlanType == [qty : Nat, want : Nat, fill : Nat, prior : Nat, repl : Nat, sync : Nat, done : BOOLEAN,
             by : BOOLEAN, oid : BOOLEAN, cid : BOOLEAN, st : Statuses]
OrderType == [at : {"none", "flying", "live", "filled", "over", "refused", "banded", "lost"},
              qty : Nat, exec : Nat]
ExitType == [lv : Levels \cup {0}, st : {"none", "intent", "planned", "flying", "over"}, qty : Nat,
             exec : Nat, prior : Nat, tries : Nat]
RunType == [op : {"none", "pass", "settle", "update", "exit", "undo"}, pc : Stages,
            l : Levels \cup {0}, q : 0 .. StartQty]
StrayType == [lv : Levels, why : {"replan", "rejected", "abandoned", "update"}, qty : Nat]

LadderTyped ==
    /\ pos \in 0 .. StartQty /\ synced \in 0 .. StartQty /\ upd \in {"", "CANCEL", "INSTALL"}
    /\ plan \in [Levels -> PlanType] /\ row \in [Levels -> RowStatus]
    /\ ord \in [Levels -> OrderType] /\ exit \in ExitType /\ run \in RunType
    /\ held \subseteq Levels /\ asks \subseteq Asks
    /\ old \in [Levels -> Nat] /\ stray \subseteq StrayType

(* A level, what the ledger records of its identity, and its order.        *)
LevelFits(t, r, b) ==
    /\ t.cid <=> r # "none"
    /\ t.oid => r = "KNOWN"
    /\ t.oid \/ t.fill = 0
    /\ t.fill <= b.exec /\ b.exec <= b.qty
    /\ b.at \in OnBook => b.exec < b.qty
    /\ r \in {"none", "PLANNED"} <=> b.at = "none"
    /\ r = "PLANNED" => t.qty > 0
    /\ r = "KNOWN" => b.at \in {"live", "filled", "over"}
    /\ r = "REJECTED" => b.at = "refused"
    /\ r = "REJECTED_RETRY" => b.at = "banded"
    /\ r = "ABANDONED" => b.at \in {"refused", "banded", "lost"}
    /\ b.at \notin {"live", "filled", "over"} => b.exec = 0
    /\ t.done => b.at \notin OnBook
    /\ t.st = "REJECTED" => r = "REJECTED"

LevelsFit == \A l \in Levels : LevelFits(plan[l], row[l], ord[l])

(* The level that a handler works at, and the position it has read.        *)
Placing == {"withdraw", "after", "place", "answer"}
Scaled  == Placing \cup {"level", "stamp"}
StageFits ==
    /\ ~At("idle") => run.l \in Levels
    /\ run.pc \in Placing => run.l \in Open(plan)
    /\ run.pc \in Scaled => synced = run.q
    /\ run.pc \in Scaled \cup {"refresh", "scale", "finish"} => run.q > 0
    /\ At("answer") => row[run.l] = "SUBMITTING"
    /\ At("after") => ord[run.l].at = "over"

(* The market exit of a level, and the stages of its handler.              *)
Sent == {"planned", "flying", "over"}
ExitFits ==
    /\ exit.st # "none" => exit.lv \in Levels
    /\ exit.st \in Sent => plan[exit.lv].by /\ ord[exit.lv].at \notin OnBook
    /\ run.pc \in {"cover", "withdrawOne", "size", "order"} => exit.st = "intent"
    /\ run.pc \in {"size", "order"} => ord[exit.lv].at \notin OnBook
    /\ At("withdrawOne") => plan[exit.lv].oid
    /\ At("order") => plan[exit.lv].by
    /\ At("send") => exit.st = "planned"
    /\ At("query") => exit.st \in Sent
    /\ run.op = "settle" /\ ~At("idle") => exit.st = "over"

StraysFit == \A s \in stray : s.why = "update"
PriorFits == \A l \in Levels : Dropped(l) \/ plan[l].prior = old[l]
WantFits  == synced > 0 => Wanted(plan) <= synced

IInv == LadderTyped /\ LevelsFit /\ StageFits /\ ExitFits /\ StraysFit /\ PriorFits /\ WantFits
-----------------------------------------------------------------------------
(* Sums over the levels.  The library's theorems of induction take an      *)
(* operator as a parameter; what is used of them here is that < is         *)
(* well-founded on Nat, which gives induction for sets.                    *)

Less == {ss \in Nat \X Nat : ss[1] < ss[2]}

LEMMA LessIsWellFounded == IsWellFoundedOn(Less, Nat)
<1>1. Less \cap (Nat \X Nat) \subseteq OpToRel(<, Nat)
  BY Zenon DEF Less, OpToRel
<1> QED BY <1>1, NatLessThanWellFounded, IsWellFoundedOnSubrelation

LEMMA Induction ==
    ASSUME NEW T \in SUBSET Nat, 0 \in T, \A n \in T : n + 1 \in T PROVE Nat \subseteq T
<1> SUFFICES ASSUME Nat \ T # {} PROVE FALSE
  OBVIOUS
<1>1. PICK x \in Nat \ T : \A y \in Nat \ T : <<y, x>> \notin Less
  BY LessIsWellFounded, WFMin
<1>2. x # 0 /\ x - 1 \in Nat
  BY <1>1
<1>3. <<x - 1, x>> \in Less
  BY <1>2 DEF Less
<1>4. x - 1 \in T
  BY <1>1, <1>2, <1>3
<1>5. x - 1 + 1 = x
  BY <1>1
<1> QED BY <1>4, <1>5, <1>1

LEMMA LastNat == Last \in Nat
BY LadderAssumption DEF LadderAssumption, Last

\* The running sums of f, as Sum defines them, and up to a level n.
Running(g, f) == g = [l \in 0 .. Last |-> IF l = 0 THEN 0 ELSE g[l - 1] + f[l]]
AddsUp(g, f, n) == g[0] = 0 /\ \A k \in 1 .. n : g[k] = g[k - 1] + f[k]

LEMMA SumsExist ==
    ASSUME NEW f \in [Levels -> Int]
    PROVE  \E g \in [0 .. Last -> Int] : AddsUp(g, f, Last)
<1> DEFINE T == {n \in Nat : n <= Last => \E g \in [0 .. n -> Int] : AddsUp(g, f, n)}
<1>1. 0 \in T
  <2>1. AddsUp([k \in 0 .. 0 |-> 0], f, 0) /\ [k \in 0 .. 0 |-> 0] \in [0 .. 0 -> Int]
    BY DEF AddsUp
  <2> QED BY <2>1
<1>2. ASSUME NEW n \in T PROVE n + 1 \in T
  <2> SUFFICES ASSUME n + 1 <= Last
               PROVE  \E g \in [0 .. n + 1 -> Int] : AddsUp(g, f, n + 1)
    OBVIOUS
  <2>1. PICK g \in [0 .. n -> Int] : AddsUp(g, f, n)
    BY LastNat
  <2>2. n + 1 \in Levels /\ f[n + 1] \in Int /\ n \in 0 .. n
    BY LastNat DEF Levels
  <2> DEFINE h == [k \in 0 .. n + 1 |-> IF k = n + 1 THEN g[n] + f[n + 1] ELSE g[k]]
  <2>3. h \in [0 .. n + 1 -> Int]
    BY <2>2
  <2>4. h[0] = 0
    BY <2>1 DEF AddsUp
  <2>5. ASSUME NEW k \in 1 .. n + 1 PROVE h[k] = h[k - 1] + f[k]
    <3>1. CASE k = n + 1
      BY <3>1
    <3>2. CASE k # n + 1
      <4>1. k \in 1 .. n /\ k - 1 \in 0 .. n + 1 /\ k \in 0 .. n + 1 /\ k - 1 # n + 1
        BY <3>2
      <4>2. g[k] = g[k - 1] + f[k]
        BY <4>1, <2>1 DEF AddsUp
      <4> QED BY <4>1, <4>2, <3>2
    <3> QED BY <3>1, <3>2
  <2> HIDE DEF h
  <2> QED BY <2>3, <2>4, <2>5 DEF AddsUp
<1> HIDE DEF T
<1>3. Nat \subseteq T
  BY <1>1, <1>2, Induction DEF T
<1> QED BY <1>3, LastNat DEF T

LEMMA RunningSums ==
    ASSUME NEW f \in [Levels -> Int]
    PROVE  \E g \in [0 .. Last -> Int] : AddsUp(g, f, Last) /\ Sum(f) = g[Last]
<1> DEFINE h == CHOOSE g : Running(g, f)
<1>1. Sum(f) = h[Last]
  BY DEF Sum, Running
<1>2. PICK g \in [0 .. Last -> Int] : AddsUp(g, f, Last)
  BY SumsExist
<1>3. Running(g, f)
  <2>1. \A l \in 0 .. Last : g[l] = IF l = 0 THEN 0 ELSE g[l - 1] + f[l]
    BY <1>2, LastNat DEF AddsUp
  <2> QED BY <1>2, <2>1 DEF Running
<1>4. Running(h, f)
  BY <1>3
<1> HIDE DEF h
<1>5. h[0] = 0 /\ \A k \in 1 .. Last : h[k] = h[k - 1] + f[k]
  BY <1>4, LastNat DEF Running
<1>6. h \in [0 .. Last -> Int]
  <2> DEFINE T == {n \in Nat : n <= Last => h[n] \in Int}
  <2>1. 0 \in T
    BY <1>5
  <2>2. ASSUME NEW n \in T PROVE n + 1 \in T
    BY <1>5, LastNat DEF Levels
  <2> HIDE DEF T
  <2>3. Nat \subseteq T
    BY <2>1, <2>2, Induction DEF T
  <2>4. \A n \in 0 .. Last : h[n] \in Int
    BY <2>3, LastNat DEF T
  <2>5. h = [l \in 0 .. Last |-> h[l]]
    BY <1>4 DEF Running
  <2> QED BY <2>4, <2>5
<1> QED BY <1>1, <1>5, <1>6 DEF AddsUp

LEMMA SumInt == ASSUME NEW f \in [Levels -> Int] PROVE Sum(f) \in Int
BY RunningSums, LastNat

(* Sums keep an inequality, with factors, that holds level by level.       *)
LEMMA SumScales ==
    ASSUME NEW f \in [Levels -> Int], NEW g \in [Levels -> Int], NEW a \in Nat, NEW b \in Nat,
           \A l \in Levels : a * f[l] <= b * g[l]
    PROVE  a * Sum(f) <= b * Sum(g)
<1>1. PICK u \in [0 .. Last -> Int] : AddsUp(u, f, Last) /\ Sum(f) = u[Last]
  BY RunningSums
<1>2. PICK v \in [0 .. Last -> Int] : AddsUp(v, g, Last) /\ Sum(g) = v[Last]
  BY RunningSums
<1> DEFINE T == {n \in Nat : n <= Last => a * u[n] <= b * v[n]}
<1>3. 0 \in T
  BY <1>1, <1>2 DEF AddsUp
<1>4. ASSUME NEW n \in T PROVE n + 1 \in T
  <2> SUFFICES ASSUME n + 1 <= Last PROVE a * u[n + 1] <= b * v[n + 1]
    OBVIOUS
  <2>1. u[n + 1] = u[n] + f[n + 1] /\ v[n + 1] = v[n] + g[n + 1]
    BY <1>1, <1>2, LastNat DEF AddsUp
  <2>2. u[n] \in Int /\ v[n] \in Int /\ f[n + 1] \in Int /\ g[n + 1] \in Int /\ n + 1 \in Levels
    BY LastNat DEF Levels
  <2>3. a * u[n] <= b * v[n] /\ a * f[n + 1] <= b * g[n + 1]
    BY <2>2, LastNat
  <2>4. /\ a * (u[n] + f[n + 1]) = a * u[n] + a * f[n + 1]
        /\ b * (v[n] + g[n + 1]) = b * v[n] + b * g[n + 1]
    BY <2>2
  <2>5. /\ a * u[n] \in Int /\ a * f[n + 1] \in Int /\ b * v[n] \in Int /\ b * g[n + 1] \in Int
    BY <2>2
  <2> QED BY <2>1, <2>3, <2>4, <2>5
<1> HIDE DEF T
<1>5. Nat \subseteq T
  BY <1>3, <1>4, Induction DEF T
<1> QED BY <1>1, <1>2, <1>5, LastNat DEF T

LEMMA SumNat == ASSUME NEW f \in [Levels -> Nat] PROVE Sum(f) \in Nat
<1> DEFINE zero == [l \in Levels |-> 0]
<1>1. 0 * Sum(zero) <= 1 * Sum(f)
  <2>1. zero \in [Levels -> Int] /\ f \in [Levels -> Int]
    OBVIOUS
  <2>2. \A l \in Levels : 0 * zero[l] <= 1 * f[l]
    OBVIOUS
  <2> HIDE DEF zero
  <2> QED BY <2>1, <2>2, SumScales
<1>2. Sum(f) \in Int /\ Sum(zero) \in Int
  BY SumInt
<1> QED BY <1>1, <1>2

LEMMA SumMono ==
    ASSUME NEW f \in [Levels -> Nat], NEW g \in [Levels -> Nat], \A l \in Levels : f[l] <= g[l]
    PROVE  Sum(f) <= Sum(g)
<1>1. 1 * Sum(f) <= 1 * Sum(g)
  BY SumScales
<1> QED BY <1>1, SumInt

(* A sum without one of its levels.                                        *)
LEMMA SumSplit ==
    ASSUME NEW f \in [Levels -> Int], NEW j \in Levels
    PROVE  Sum(f) = Sum([l \in Levels |-> IF l = j THEN 0 ELSE f[l]]) + f[j]
<1> DEFINE g == [l \in Levels |-> IF l = j THEN 0 ELSE f[l]]
<1>g. g \in [Levels -> Int] /\ g[j] = 0 /\ \A l \in Levels : l # j => g[l] = f[l]
  OBVIOUS
<1>j. f[j] \in Int /\ j \in Nat /\ j > 0
  <2>1. j \in 1 .. Last
    BY DEF Levels
  <2> QED BY <2>1, LastNat
<1> HIDE DEF g
<1>1. PICK u \in [0 .. Last -> Int] : AddsUp(u, f, Last) /\ Sum(f) = u[Last]
  BY RunningSums
<1>2. PICK v \in [0 .. Last -> Int] : AddsUp(v, g, Last) /\ Sum(g) = v[Last]
  BY <1>g, RunningSums
<1> DEFINE T == {n \in Nat : n <= Last => u[n] = v[n] + (IF j <= n THEN f[j] ELSE 0)}
<1>3. 0 \in T
  BY <1>1, <1>2, <1>j DEF AddsUp
<1>4. ASSUME NEW n \in T PROVE n + 1 \in T
  <2> SUFFICES ASSUME n + 1 <= Last
               PROVE  u[n + 1] = v[n + 1] + (IF j <= n + 1 THEN f[j] ELSE 0)
    OBVIOUS
  <2>1. u[n + 1] = u[n] + f[n + 1] /\ v[n + 1] = v[n] + g[n + 1]
    BY <1>1, <1>2, LastNat DEF AddsUp
  <2>0. n \in Nat /\ n \in 0 .. Last /\ n + 1 \in Levels
    BY LastNat DEF Levels
  <2>2. u[n] \in Int /\ v[n] \in Int /\ f[n + 1] \in Int /\ g[n + 1] \in Int
    BY <1>g, <2>0
  <2>3. u[n] = v[n] + (IF j <= n THEN f[j] ELSE 0)
    BY <2>0, LastNat
  <2>4. CASE j = n + 1
    BY <1>g, <1>j, <2>0, <2>1, <2>2, <2>3, <2>4
  <2>5. CASE j # n + 1
    <3>1. g[n + 1] = f[n + 1] /\ (j <= n <=> j <= n + 1)
      BY <1>g, <1>j, <2>0, <2>5
    <3> QED BY <1>j, <2>0, <2>1, <2>2, <2>3, <3>1
  <2> QED BY <2>4, <2>5
<1> HIDE DEF T
<1>5. Nat \subseteq T
  BY <1>3, <1>4, Induction DEF T
<1>6. j <= Last
  BY LastNat DEF Levels
<1> QED BY <1>1, <1>2, <1>5, <1>6, LastNat DEF T, g

LEMMA DivBounds ==
    ASSUME NEW a \in Nat, NEW b \in Nat, b > 0
    PROVE  a \div b \in Nat /\ b * (a \div b) <= a
OBVIOUS

LEMMA LevelsFacts ==
    /\ Last \in Nat \ {0} /\ 1 \in Levels /\ Last \in Levels
    /\ Recipe \in [Levels -> Nat \ {0}] /\ Ratios \in [Levels -> Nat]
    /\ StartQty \in Nat /\ Planned \in 0 .. StartQty /\ Offered \in 1 .. 100
    /\ MarketMin \in Nat /\ MaxResubmits \in Nat
<1>1. Recipe \in [Levels -> Nat \ {0}] /\ Ratios \in [Levels -> Nat] /\ Last \in Nat
  BY LadderAssumption DEF LadderAssumption, Levels, Last
<1>2. Planned \in Nat
  BY <1>1, SumNat DEF Planned
<1>3. Last # 0
  <2> SUFFICES ASSUME Last = 0 PROVE FALSE
    OBVIOUS
  <2>1. Sum(Ratios) = 0
    BY <1>1, RunningSums DEF AddsUp
  <2> QED BY <2>1, LadderAssumption DEF LadderAssumption, Offered
<1> QED BY <1>1, <1>2, <1>3, LadderAssumption DEF LadderAssumption, Levels, Last

-----------------------------------------------------------------------------
(* One level of the ladder                                                 *)

LEMMA Basics ==
    ASSUME LadderTyped, NEW l \in Levels
    PROVE  plan[l] \in PlanType /\ row[l] \in RowStatus /\ ord[l] \in OrderType /\ old[l] \in Nat
BY DEF LadderTyped

LEMMA RefreshedFits ==
    ASSUME NEW t \in PlanType, NEW r \in RowStatus, NEW b \in OrderType, LevelFits(t, r, b),
           NEW t2, t2 = Refreshed(t, b)
    PROVE  /\ t2 \in PlanType /\ LevelFits(t2, r, b)
           /\ t2.want <= t.want /\ t2.prior = t.prior /\ t2.qty = t.qty
           /\ t2.by = t.by /\ t2.oid = t.oid /\ t2.cid = t.cid
           /\ t.done => t2 = t
           /\ ~t2.done => ~t.done /\ (t2.oid /\ t2.st # "NEW" => b.at \notin OnBook)
           /\ ~t2.oid => t2 = t
           /\ t2.oid /\ ~t.done => t2.fill = b.exec
<1>1. CASE ~t.oid \/ t.done
  BY <1>1 DEF Refreshed, LevelFits, PlanType, OnBook
<1>2. CASE t.oid /\ ~t.done
  <2> DEFINE w == IF b.at = "filled" THEN 0 ELSE Most(0, t.want - (b.exec - t.fill))
             s == CASE b.at = "filled" -> "FILLED" [] b.at = "over" -> "CANCELED" [] OTHER -> "NEW"
  <2>1. /\ t.want \in Nat /\ t.fill \in Nat /\ b.exec \in Nat /\ t.fill <= b.exec
        /\ b.at \in {"live", "filled", "over"} /\ r = "KNOWN"
    BY <1>2 DEF LevelFits, PlanType, OrderType
  <2>2. w \in Nat /\ w <= t.want
    BY <2>1 DEF Most
  <2>3. s \in Statuses /\ s # "REJECTED" /\ (s # "NEW" => b.at # "live")
    BY <2>1 DEF Statuses
  <2>4. t2 = [t EXCEPT !.want = w, !.fill = b.exec, !.done = b.at = "filled", !.st = s]
    BY <1>2 DEF Refreshed
  <2> HIDE DEF w, s
  <2>5. /\ t2.want = w /\ t2.fill = b.exec /\ t2.done = (b.at = "filled") /\ t2.st = s
        /\ t2.qty = t.qty /\ t2.prior = t.prior /\ t2.repl = t.repl /\ t2.sync = t.sync
        /\ t2.by = t.by /\ t2.oid = t.oid /\ t2.cid = t.cid /\ t2 \in PlanType
    BY <2>1, <2>2, <2>3, <2>4 DEF PlanType
  <2>7. /\ t.cid <=> r # "none"
        /\ b.exec <= b.qty /\ (b.at \in OnBook => b.exec < b.qty)
        /\ r \in {"none", "PLANNED"} <=> b.at = "none"
    BY DEF LevelFits
  <2>8. t2.cid <=> r # "none"
    BY <2>5, <2>7
  <2>9. t2.oid => r = "KNOWN"
    BY <2>1
  <2>10. t2.oid \/ t2.fill = 0
    BY <1>2, <2>5
  <2>11. t2.done => b.at \notin OnBook
    BY <2>5 DEF OnBook
  <2>6. LevelFits(t2, r, b)
    BY <2>1, <2>3, <2>5, <2>7, <2>8, <2>9, <2>10, <2>11 DEF LevelFits
  <2> QED BY <1>2, <2>1, <2>2, <2>3, <2>5, <2>6 DEF OnBook
<1> QED BY <1>1, <1>2

LEMMA PlanRefreshed ==
    ASSUME LadderTyped, LevelsFit, NEW p, p = refreshTPProgress
    PROVE  /\ p \in [Levels -> PlanType]
           /\ \A l \in Levels :
                /\ LevelFits(p[l], row[l], ord[l])
                /\ p[l].want <= plan[l].want /\ p[l].prior = plan[l].prior
                /\ p[l].by = plan[l].by /\ (plan[l].done => p[l].done)
                /\ p[l].oid = plan[l].oid /\ p[l].cid = plan[l].cid
                /\ ~p[l].done /\ p[l].oid /\ p[l].st # "NEW" => ord[l].at \notin OnBook
                /\ ~p[l].oid => p[l] = plan[l]
                /\ p[l].oid /\ ~p[l].done => p[l].fill = ord[l].exec
<1>1. ASSUME NEW l \in Levels
      PROVE  /\ p[l] \in PlanType
             /\ LevelFits(p[l], row[l], ord[l])
             /\ p[l].want <= plan[l].want /\ p[l].prior = plan[l].prior
             /\ p[l].by = plan[l].by /\ (plan[l].done => p[l].done)
             /\ p[l].oid = plan[l].oid /\ p[l].cid = plan[l].cid
             /\ ~p[l].done /\ p[l].oid /\ p[l].st # "NEW" => ord[l].at \notin OnBook
             /\ ~p[l].oid => p[l] = plan[l]
             /\ p[l].oid /\ ~p[l].done => p[l].fill = ord[l].exec
  <2>1. p[l] = Refreshed(plan[l], ord[l])
    BY DEF refreshTPProgress
  <2>2. LevelFits(plan[l], row[l], ord[l])
    BY DEF LevelsFit
  <2> QED BY <2>1, <2>2, Basics, RefreshedFits
<1>2. p = [l \in Levels |-> Refreshed(plan[l], ord[l])]
  BY DEF refreshTPProgress
<1>3. p \in [Levels -> PlanType]
  BY <1>1, <1>2
<1> QED BY <1>1, <1>3

(* The identity of a level is given up.                                    *)
LEMMA Replanned ==
    ASSUME NEW t \in PlanType, NEW q \in Nat, NEW t2,
           t2 \in {replanTP(t), [replanTP(t) EXCEPT !.qty = q]}
    PROVE  /\ t2 \in PlanType /\ LevelFits(t2, "none", NoOrder)
           /\ t2.want = t.want /\ t2.prior = t.prior + t.fill /\ t2.by = t.by /\ t2.done = t.done
           /\ ~t2.cid /\ ~t2.oid /\ t2.fill = 0 /\ t2.st = "PLANNED"
<1>1. /\ t2 \in PlanType
      /\ t2.want = t.want /\ t2.prior = t.prior + t.fill /\ t2.by = t.by /\ t2.done = t.done
      /\ t2.cid = FALSE /\ t2.oid = FALSE /\ t2.fill = 0 /\ t2.st = "PLANNED"
  <2> DEFINE u == replanTP(t)
  <2>1. t.prior + t.fill \in Nat /\ "PLANNED" \in Statuses
    BY DEF PlanType, Statuses
  <2>2. /\ u \in PlanType
        /\ u.want = t.want /\ u.prior = t.prior + t.fill /\ u.by = t.by /\ u.done = t.done
        /\ u.cid = FALSE /\ u.oid = FALSE /\ u.fill = 0 /\ u.st = "PLANNED"
    BY <2>1 DEF replanTP, PlanType
  <2>3. CASE t2 = replanTP(t)
    BY <2>2, <2>3
  <2>4. CASE t2 = [u EXCEPT !.qty = q]
    <3> HIDE DEF u
    <3> QED BY <2>2, <2>4 DEF PlanType
  <2> QED BY <2>3, <2>4
<1>n. NoOrder.at = "none" /\ NoOrder.exec = 0 /\ NoOrder.qty = 0
  BY DEF NoOrder
<1>2. LevelFits(t2, "none", NoOrder)
  <2>1. t2.cid <=> "none" # "none"
    BY <1>1
  <2>2. t2.oid => "none" = "KNOWN"
    BY <1>1
  <2>3. t2.oid \/ t2.fill = 0
    BY <1>1
  <2>4. t2.fill <= NoOrder.exec /\ NoOrder.exec <= NoOrder.qty
    BY <1>1, <1>n
  <2>5. t2.done => NoOrder.at \notin OnBook
    BY <1>n DEF OnBook
  <2>6. NoOrder.at \notin OnBook
    BY <1>n DEF OnBook
  <2> QED BY <1>1, <1>n, <2>1, <2>2, <2>3, <2>4, <2>5, <2>6 DEF LevelFits
<1> QED BY <1>1, <1>2

LEMMA Forgets ==
    ASSUME LadderTyped, LevelsFit, NEW S \in SUBSET Levels,
           NEW why \in {"replan", "rejected", "abandoned", "update"}, Forget(S, why)
    PROVE  /\ row' \in [Levels -> RowStatus] /\ ord' \in [Levels -> OrderType]
           /\ old' \in [Levels -> Nat] /\ stray' \subseteq StrayType /\ stray \subseteq stray'
           /\ \A l \in S : row'[l] = "none" /\ ord'[l] = NoOrder /\ old'[l] = old[l] + ord[l].exec
           /\ \A l \in Levels \ S : row'[l] = row[l] /\ ord'[l] = ord[l] /\ old'[l] = old[l]
           /\ \A l \in S : ord[l].at \in OnBook \/ Grown(l) => \E s \in stray' : s.lv = l
           /\ \A s \in stray' \ stray : /\ s.why = why /\ s.lv \in S
                                        /\ ord[s.lv].at \in OnBook \/ Grown(s.lv)
<1>1. /\ row' = [l \in Levels |-> IF l \in S THEN "none" ELSE row[l]]
      /\ ord' = [l \in Levels |-> IF l \in S THEN NoOrder ELSE ord[l]]
      /\ old' = [l \in Levels |-> IF l \in S THEN old[l] + ord[l].exec ELSE old[l]]
      /\ stray' = stray \cup {[lv |-> l, why |-> why, qty |-> ord[l].qty - ord[l].exec] :
                               l \in {k \in S : ord[k].at \in {"flying", "live"} \/ Grown(k)}}
  BY DEF Forget
<1>2. \A l \in Levels : /\ row[l] \in RowStatus /\ ord[l] \in OrderType /\ old[l] \in Nat
                        /\ ord[l].exec \in Nat /\ ord[l].qty \in Nat /\ ord[l].exec <= ord[l].qty
  BY Basics DEF OrderType, LevelsFit, LevelFits
<1>3. "none" \in RowStatus /\ NoOrder \in OrderType
  BY DEF RowStatus, NoOrder, OrderType
<1>4. row' \in [Levels -> RowStatus] /\ ord' \in [Levels -> OrderType] /\ old' \in [Levels -> Nat]
  BY <1>1, <1>2, <1>3
<1>5. ASSUME NEW s \in stray' \ stray
      PROVE  /\ s \in StrayType /\ s.why = why /\ s.lv \in S
             /\ ord[s.lv].at \in OnBook \/ Grown(s.lv)
  <2>1. PICK l \in S : /\ ord[l].at \in {"flying", "live"} \/ Grown(l)
                       /\ s = [lv |-> l, why |-> why, qty |-> ord[l].qty - ord[l].exec]
    BY <1>1
  <2>2. ord[l].qty - ord[l].exec \in Nat
    BY <1>2
  <2> QED BY <2>1, <2>2 DEF StrayType, OnBook
<1>6. ASSUME NEW l \in S, ord[l].at \in OnBook \/ Grown(l) PROVE \E s \in stray' : s.lv = l
  <2>1. [lv |-> l, why |-> why, qty |-> ord[l].qty - ord[l].exec] \in stray'
    BY <1>1, <1>6 DEF OnBook
  <2> QED BY <2>1
<1>7. stray \subseteq stray' /\ stray \subseteq StrayType
  BY <1>1 DEF LadderTyped
<1>8. stray' \subseteq StrayType
  BY <1>5, <1>7
<1>9. /\ \A l \in S : row'[l] = "none" /\ ord'[l] = NoOrder /\ old'[l] = old[l] + ord[l].exec
      /\ \A l \in Levels \ S : row'[l] = row[l] /\ ord'[l] = ord[l] /\ old'[l] = old[l]
  BY <1>1
<1> QED BY <1>4, <1>5, <1>6, <1>7, <1>8, <1>9

(* The wants of a plan are numbers, and become less with every level.      *)
Wants(p) == [l \in Levels |-> IF l \in Open(p) THEN p[l].want ELSE 0]

LEMMA WantedShrinks ==
    ASSUME NEW p \in [Levels -> PlanType], NEW p2 \in [Levels -> PlanType],
           \A l \in Levels : /\ p2[l].want <= p[l].want
                             /\ (p[l].done => p2[l].done) /\ (p[l].by => p2[l].by)
    PROVE  Wanted(p2) \in Nat /\ Wanted(p) \in Nat /\ Wanted(p2) <= Wanted(p)
<1>1. \A l \in Levels : /\ p[l].want \in Nat /\ p2[l].want \in Nat
                        /\ l \in Open(p2) => l \in Open(p)
  BY DEF PlanType, Open
<1>2. Wants(p) \in [Levels -> Nat] /\ Wants(p2) \in [Levels -> Nat]
  BY <1>1 DEF Wants
<1>3. \A l \in Levels : Wants(p2)[l] <= Wants(p)[l]
  BY <1>1 DEF Wants
<1>4. Sum(Wants(p2)) <= Sum(Wants(p)) /\ Sum(Wants(p)) \in Nat /\ Sum(Wants(p2)) \in Nat
  BY <1>2, <1>3, SumMono, SumNat
<1> QED BY <1>4 DEF Wanted, Wants

LEMMA NumbersTyped ==
    LadderTyped => pos \in Nat /\ pos <= StartQty /\ synced \in Nat /\ synced <= StartQty /\ StartQty \in Nat
<1>1. StartQty \in Nat
  BY LevelsFacts
<1>2. LadderTyped => pos \in 0 .. StartQty /\ synced \in 0 .. StartQty
  BY DEF LadderTyped
<1> QED BY <1>1, <1>2

-----------------------------------------------------------------------------
(* Frames: what a step that leaves variables alone keeps.                  *)

LEMMA LevelsKept == LevelsFit /\ UNCHANGED <<plan, row, ord>> => LevelsFit'
BY DEF LevelsFit, LevelFits

LEMMA OneLevel ==
    ASSUME LadderTyped, LevelsFit, NEW j \in Levels,
           \A l \in Levels \ {j} : plan'[l] = plan[l] /\ row'[l] = row[l] /\ ord'[l] = ord[l],
           LevelFits(plan'[j], row'[j], ord'[j])
    PROVE  LevelsFit'
<1> SUFFICES ASSUME NEW l \in Levels PROVE LevelFits(plan'[l], row'[l], ord'[l])
  BY DEF LevelsFit
<1>1. CASE l = j
  BY <1>1
<1>2. CASE l # j
  BY <1>2 DEF LevelsFit
<1> QED BY <1>1, <1>2

LEMMA WantKept == WantFits /\ UNCHANGED <<plan, synced>> => WantFits'
BY DEF WantFits, Wanted, Open

LEMMA WantLess ==
    ASSUME LadderTyped, WantFits, plan' \in [Levels -> PlanType], synced' = synced,
           \A l \in Levels : /\ plan'[l].want <= plan[l].want
                             /\ (plan[l].done => plan'[l].done) /\ (plan[l].by => plan'[l].by)
    PROVE  WantFits'
<1>1. Wanted(plan') <= Wanted(plan) /\ Wanted(plan) \in Nat /\ Wanted(plan') \in Nat
  BY WantedShrinks DEF LadderTyped
<1>2. synced \in Nat
  BY NumbersTyped
<1> QED BY <1>1, <1>2 DEF WantFits

LEMMA PriorKept ==
    ASSUME PriorFits, stray' = stray, old' = old, \A l \in Levels : plan'[l].prior = plan[l].prior
    PROVE  PriorFits'
BY DEF PriorFits, Dropped

(* A refresh of the plan is harmless.                                      *)
LEMMA RefreshKeeps ==
    ASSUME LadderTyped, LevelsFit, plan' = refreshTPProgress
    PROVE  /\ plan' \in [Levels -> PlanType]
           /\ UNCHANGED <<row, ord>> => LevelsFit'
           /\ WantFits /\ synced' = synced => WantFits'
           /\ PriorFits /\ UNCHANGED <<stray, old>> => PriorFits'
<1> DEFINE p == refreshTPProgress
<1>1. /\ p \in [Levels -> PlanType]
      /\ \A l \in Levels :
                /\ LevelFits(p[l], row[l], ord[l])
                /\ p[l].want <= plan[l].want /\ p[l].prior = plan[l].prior
                /\ p[l].by = plan[l].by /\ (plan[l].done => p[l].done)
  BY PlanRefreshed
<1> HIDE DEF p
<1>2. plan' = p
  BY DEF p
<1>3. UNCHANGED <<row, ord>> => LevelsFit'
  BY <1>1, <1>2 DEF LevelsFit
<1>4. WantFits /\ synced' = synced => WantFits'
  BY <1>1, <1>2, WantLess
<1>5. PriorFits /\ UNCHANGED <<stray, old>> => PriorFits'
  BY <1>1, <1>2, PriorKept
<1> QED BY <1>1, <1>2, <1>3, <1>4, <1>5

-----------------------------------------------------------------------------
(* Types                                                                   *)

(* What is left of a level that is refreshed, of what is held.             *)
LEMMA SizeTyped ==
    ASSUME IInv, exit.st = "intent"
    PROVE  /\ exit.lv \in Levels
           /\ Rest(refreshTPProgress[exit.lv]) \in Nat
           /\ Least(Rest(refreshTPProgress[exit.lv]), pos) \in 0 .. pos
<1>1. exit.lv \in Levels /\ pos \in Nat
  BY NumbersTyped DEF IInv, ExitFits
<1> DEFINE p == refreshTPProgress
<1>2. p[exit.lv] \in PlanType
  BY <1>1, PlanRefreshed DEF IInv
<1> HIDE DEF p
<1>3. Rest(p[exit.lv]) \in Nat
  BY <1>2 DEF Rest, rem, Least, Most, PlanType
<1>4. Least(Rest(p[exit.lv]), pos) \in 0 .. pos
  BY <1>1, <1>3 DEF Least
<1> QED BY <1>1, <1>3, <1>4 DEF p

LEMMA RunStep == IInv /\ [Next]_vars => run' \in RunType
<1> SUFFICES ASSUME IInv, [Next]_vars PROVE run' \in RunType
  OBVIOUS
<1>r. run \in RunType /\ 1 \in Levels /\ 0 \in 0 .. StartQty /\ pos \in 0 .. StartQty
  <2>1. 1 \in Levels /\ 0 \in 0 .. StartQty
    BY LevelsFacts
  <2> QED BY <2>1 DEF IInv, LadderTyped
<1>n. NoRun \in RunType
  BY <1>r DEF NoRun, RunType, Stages
<1>1. CASE StartPass
  <2>1. \E w \in {"pass", "update", "exit"}, pc \in {"cancel", "position", "cover", "query"} :
           run' = [op |-> w, pc |-> pc, l |-> 1, q |-> 0]
    BY <1>1 DEF StartPass, Begin
  <2> QED BY <2>1, <1>r DEF RunType, Stages
<1>2. CASE ReadPosition
  BY <1>2, <1>r, <1>n DEF ReadPosition, Leave, RunType, Stages
<1>3. CASE Refresh
  BY <1>3, <1>r DEF Refresh, Goto, RunType, Stages
<1>4. CASE Rescale
  BY <1>4, <1>r DEF Rescale, Goto, RunType, Stages
<1>5. CASE LevelStands
  BY <1>5, <1>r DEF LevelStands, NextLevel, RunType, Stages
<1>6. CASE FillChanged
  BY <1>6, <1>r, <1>n DEF FillChanged, Leave, RunType, Stages
<1>7. CASE ReplaceOrder
  BY <1>7, <1>r DEF ReplaceOrder, Goto, RunType, Stages
<1>8. CASE WithdrawOrder
  BY <1>8, <1>r, <1>n DEF WithdrawOrder, Goto, Leave, RunType, Stages
<1>9. CASE RetireOrder
  BY <1>9, <1>r DEF RetireOrder, Goto, RunType, Stages
<1>10. CASE BelowMinimum
  BY <1>10, <1>r DEF BelowMinimum, NextLevel, RunType, Stages
<1>11. CASE HeldBack
  BY <1>11, <1>r DEF HeldBack, NextLevel, RunType, Stages
<1>12. CASE PlanOrder
  BY <1>12, <1>r DEF PlanOrder, Goto, RunType, Stages
<1>13. CASE Submit
  BY <1>13, <1>r DEF Submit, Goto, RunType, Stages
<1>14. CASE Answered
  BY <1>14, <1>r DEF Answered, Goto, RunType, Stages
<1>15. CASE Unanswered
  BY <1>15, <1>r DEF Unanswered, Goto, NextLevel, RunType, Stages
<1>16. CASE RowConfirmed
  BY <1>16, <1>r DEF RowConfirmed, NextLevel, RunType, Stages
<1>17. CASE RowRejectedRetry
  BY <1>17, <1>r DEF RowRejectedRetry, NextLevel, RunType, Stages
<1>18. CASE RowRejected
  BY <1>18, <1>r DEF RowRejected, NextLevel, RunType, Stages
<1>19. CASE RowAbandoned
  BY <1>19, <1>r DEF RowAbandoned, Goto, RunType, Stages
<1>20. CASE RowFound
  BY <1>20, <1>r DEF RowFound, Goto, RunType, Stages
<1>21. CASE RowNotFound
  BY <1>21, <1>r DEF RowNotFound, NextLevel, RunType, Stages
<1>22. CASE RowAged
  BY <1>22, <1>r DEF RowAged, Goto, RunType, Stages
<1>23. CASE Stamp
  BY <1>23, <1>r DEF Stamp, Goto, RunType, Stages
<1>24. CASE Finish
  <2>1. run' \in {NoRun, [run EXCEPT !.op = "exit", !.pc = "send"], [run EXCEPT !.op = "undo", !.pc = "position"]}
    BY <1>24, Zenon DEF Finish, Leave
  <2> QED BY <2>1, <1>r, <1>n DEF RunType, Stages
<1>25. ASSUME NEW l \in Levels, BeginReduce(l) PROVE run' \in RunType
  <2>1. run' = run \/ run' = [op |-> "exit", pc |-> "cover", l |-> 1, q |-> 0]
    BY <1>25 DEF BeginReduce, Begin
  <2> QED BY <2>1, <1>r DEF RunType, Stages
<1>26. CASE Cover
  BY <1>26, <1>r, <1>n DEF Cover, Goto, Leave, RunType, Stages
<1>27. CASE WithdrawOne
  BY <1>27, <1>r DEF WithdrawOne, Goto, RunType, Stages
<1>28. CASE Size
  <2> DEFINE q == Least(Rest(refreshTPProgress[exit.lv]), pos)
  <2>1. \/ run' = NoRun \/ run' = [run EXCEPT !.op = "undo", !.pc = "position"]
        \/ run' = [run EXCEPT !.pc = "order", !.q = q]
    BY <1>28 DEF Size, Leave
  <2>2. q \in 0 .. StartQty
    BY <1>28, SizeTyped, NumbersTyped DEF Size, IInv, ExitFits, At
  <2> HIDE DEF q
  <2>3. q \in 0 .. StartQty => [run EXCEPT !.pc = "order", !.q = q] \in RunType
    BY <1>r DEF RunType, Stages
  <2> QED BY <2>1, <2>2, <2>3, <1>r, <1>n DEF RunType, Stages
<1>29. CASE OrderExit
  BY <1>29, <1>r DEF OrderExit, Goto, RunType, Stages
<1>30. CASE SendExit
  BY <1>30, <1>r DEF SendExit, Goto, RunType, Stages
<1>31. CASE QueryExit
  BY <1>31, <1>r DEF QueryExit, Goto, RunType, Stages
<1>32. CASE BeginUpdate
  BY <1>32, <1>r DEF BeginUpdate, Begin, RunType, Stages
<1>33. CASE SkipLevel
  BY <1>33, <1>r DEF SkipLevel, NextCancel, RunType, Stages
<1>34. CASE CancelLevel
  BY <1>34, <1>r, <1>n DEF CancelLevel, Goto, Leave, NextCancel, RunType, Stages
<1>35. CASE Cancelled
  BY <1>35, <1>r, <1>n DEF Cancelled, Leave, NextCancel, RunType, Stages
<1>36. CASE Allocate
  <2>1. run' = NoRun \/ run' = [run EXCEPT !.pc = "position"]
    BY <1>36 DEF Allocate, Goto, Leave
  <2> QED BY <2>1, <1>r, <1>n DEF RunType, Stages
<1>37. ASSUME NEW l \in Levels, Arrive(l) PROVE run' \in RunType
  BY <1>37, <1>r DEF Arrive
<1>38. ASSUME NEW l \in Levels, Fill(l) PROVE run' \in RunType
  BY <1>38, <1>r DEF Fill
<1>39. ASSUME NEW l \in Levels, OwnerCancels(l) PROVE run' \in RunType
  BY <1>39, <1>r DEF OwnerCancels
<1>40. ASSUME NEW l \in Levels, PriceLeaves(l) PROVE run' \in RunType
  BY <1>40, <1>r DEF PriceLeaves
<1>41. ASSUME NEW l \in Levels, RetryDue(l) PROVE run' \in RunType
  BY <1>41, <1>r DEF RetryDue
<1>42. ASSUME NEW s \in stray, StrayFills(s) PROVE run' \in RunType
  BY <1>42, <1>r DEF StrayFills
<1>43. CASE OwnerReduces
  BY <1>43, <1>r DEF OwnerReduces
<1>44. CASE ExitRuns
  BY <1>44, <1>r DEF ExitRuns
<1>45. CASE HandlerStops
  BY <1>45, <1>n DEF HandlerStops, Leave
<1>46. CASE UNCHANGED vars
  BY <1>46, <1>r DEF vars
<1> QED BY <1>1, <1>2, <1>3, <1>4, <1>5, <1>6, <1>7, <1>8, <1>9, <1>10, <1>11, <1>12, <1>13,
           <1>14, <1>15, <1>16, <1>17, <1>18, <1>19, <1>20, <1>21, <1>22, <1>23, <1>24, <1>25,
           <1>26, <1>27, <1>28, <1>29, <1>30, <1>31, <1>32, <1>33, <1>34, <1>35, <1>36, <1>37,
           <1>38, <1>39, <1>40, <1>41, <1>42, <1>43, <1>44, <1>45,
           <1>46 DEF Next, Pass, ExecuteTPReduction, updateTakeProfits,
           Environment

-----------------------------------------------------------------------------
(* The plan, the ledger and the orders                                     *)

BookInv ==
    /\ plan \in [Levels -> PlanType] /\ row \in [Levels -> RowStatus]
    /\ ord \in [Levels -> OrderType] /\ old \in [Levels -> Nat] /\ stray \subseteq StrayType
    /\ LevelsFit /\ StraysFit /\ PriorFits /\ WantFits

LEMMA BookKept == IInv /\ UNCHANGED <<plan, row, ord, old, stray, synced>> => BookInv'
<1> SUFFICES ASSUME IInv, UNCHANGED <<plan, row, ord, old, stray, synced>> PROVE BookInv'
  OBVIOUS
<1>1. LevelsFit' /\ WantFits' /\ PriorFits'
  BY LevelsKept, WantKept, PriorKept DEF IInv
<1>2. StraysFit'
  BY DEF IInv, StraysFit
<1> QED BY <1>1, <1>2 DEF IInv, LadderTyped, BookInv

LEMMA BookRefreshed ==
    IInv /\ plan' = refreshTPProgress /\ UNCHANGED <<row, ord, old, stray, synced>> => BookInv'
<1> SUFFICES ASSUME IInv, plan' = refreshTPProgress, UNCHANGED <<row, ord, old, stray, synced>>
             PROVE  BookInv'
  OBVIOUS
<1>1. LevelsFit' /\ WantFits' /\ PriorFits' /\ plan' \in [Levels -> PlanType]
  BY RefreshKeeps DEF IInv
<1>2. StraysFit'
  BY DEF IInv, StraysFit
<1> QED BY <1>1, <1>2 DEF IInv, LadderTyped, BookInv

(* The level that a handler works at.                                      *)
LEMMA AtLevel ==
    ASSUME IInv, ~At("idle")
    PROVE  /\ run.l \in Levels /\ tp = plan[run.l] /\ o = ord[run.l]
           /\ plan[run.l] \in PlanType /\ row[run.l] \in RowStatus /\ ord[run.l] \in OrderType
           /\ LevelFits(plan[run.l], row[run.l], ord[run.l])
<1>1. run.l \in Levels
  BY DEF IInv, StageFits
<1> QED BY <1>1, Basics DEF IInv, LevelsFit, tp, o

LEMMA LevelChanges ==
    ASSUME IInv, NEW j \in Levels,
           plan' \in [Levels -> PlanType], row' \in [Levels -> RowStatus],
           ord' \in [Levels -> OrderType], UNCHANGED <<old, stray, synced>>,
           \A l \in Levels \ {j} : plan'[l] = plan[l] /\ row'[l] = row[l] /\ ord'[l] = ord[l],
           LevelFits(plan'[j], row'[j], ord'[j]),
           plan'[j].want <= plan[j].want, plan'[j].prior = plan[j].prior,
           (plan[j].done => plan'[j].done) /\ (plan[j].by => plan'[j].by)
    PROVE  BookInv'
<1>1. LevelsFit'
  BY OneLevel DEF IInv
<1>2. \A l \in Levels : plan[l].want \in Nat
  BY Basics DEF IInv, PlanType
<1>3. \A l \in Levels : /\ plan'[l].want <= plan[l].want /\ plan'[l].prior = plan[l].prior
                        /\ (plan[l].done => plan'[l].done) /\ (plan[l].by => plan'[l].by)
  BY <1>2
<1>4. WantFits' /\ PriorFits'
  BY <1>3, WantLess, PriorKept DEF IInv
<1>5. StraysFit'
  BY DEF IInv, StraysFit
<1> QED BY <1>1, <1>4, <1>5 DEF IInv, LadderTyped, BookInv

(* A level gives up an identity that ended and whose fills the plan has.   *)
LEMMA LevelReplanned ==
    ASSUME IInv, NEW j \in Levels, NEW q \in Nat,
           NEW why \in {"replan", "rejected", "abandoned", "update"},
           plan' \in {[plan EXCEPT ![j] = replanTP(plan[j])],
                      [plan EXCEPT ![j] = [replanTP(plan[j]) EXCEPT !.qty = q]]},
           Forget({j}, why), ord[j].at \notin OnBook, ~Grown(j), synced' = synced
    PROVE  BookInv'
<1>0. LadderTyped /\ LevelsFit /\ StraysFit /\ PriorFits /\ WantFits
  BY DEF IInv
<1>1. PICK t2 \in {replanTP(plan[j]), [replanTP(plan[j]) EXCEPT !.qty = q]} :
        plan' = [plan EXCEPT ![j] = t2]
  OBVIOUS
<1>2. /\ t2 \in PlanType /\ LevelFits(t2, "none", NoOrder)
      /\ t2.want = plan[j].want /\ t2.prior = plan[j].prior + plan[j].fill
      /\ t2.by = plan[j].by /\ t2.done = plan[j].done
  BY <1>0, <1>1, Basics, Replanned
<1> HIDE DEF IInv
<1>3. /\ plan' \in [Levels -> PlanType] /\ plan'[j] = t2
      /\ \A l \in Levels \ {j} : plan'[l] = plan[l]
  BY <1>0, <1>1, <1>2 DEF LadderTyped
<1>4. /\ row' \in [Levels -> RowStatus] /\ ord' \in [Levels -> OrderType]
      /\ old' \in [Levels -> Nat] /\ stray' \subseteq StrayType /\ stray \subseteq stray'
      /\ row'[j] = "none" /\ ord'[j] = NoOrder /\ old'[j] = old[j] + ord[j].exec
      /\ \A l \in Levels \ {j} : row'[l] = row[l] /\ ord'[l] = ord[l] /\ old'[l] = old[l]
      /\ \A s \in stray' \ stray : s.lv \in {j} /\ (ord[s.lv].at \in OnBook \/ Grown(s.lv))
  BY <1>0, Forgets
<1>5. stray' = stray
  BY <1>4
<1>6. LevelsFit'
  BY <1>0, <1>2, <1>3, <1>4, OneLevel
<1>7. WantFits'
  <2>1. \A l \in Levels : plan[l].want \in Nat
    BY <1>0, Basics DEF PlanType
  <2>2. \A l \in Levels : /\ plan'[l].want <= plan[l].want
                          /\ (plan[l].done => plan'[l].done) /\ (plan[l].by => plan'[l].by)
    BY <2>1, <1>2, <1>3
  <2> QED BY <2>2, <1>0, <1>3, WantLess
<1>8. PriorFits'
  <2> SUFFICES ASSUME NEW l \in Levels, ~Dropped(l) PROVE plan'[l].prior = old'[l]
    BY <1>5 DEF PriorFits, Dropped
  <2>1. plan[l].prior = old[l]
    BY <1>0 DEF PriorFits
  <2>2. CASE l = j
    <3>1. plan[j].fill <= ord[j].exec /\ plan[j].fill \in Nat /\ ord[j].exec \in Nat
      BY <1>0, Basics DEF LevelsFit, LevelFits, PlanType, OrderType
    <3>2. plan[j].fill = ord[j].exec
      BY <3>1 DEF Grown
    <3> QED BY <2>1, <2>2, <3>2, <1>2, <1>3, <1>4
  <2>3. CASE l # j
    BY <2>1, <2>3, <1>3, <1>4
  <2> QED BY <2>2, <2>3
<1>9. StraysFit'
  BY <1>0, <1>5 DEF StraysFit
<1> QED BY <1>3, <1>4, <1>6, <1>7, <1>8, <1>9 DEF BookInv

(* Only some fields of a level tie it to its order.                        *)
LEMMA SameFit ==
    ASSUME NEW t, NEW t2, NEW r, NEW b, LevelFits(t, r, b),
           t2.cid = t.cid, t2.oid = t.oid, t2.fill = t.fill, t2.qty = t.qty, t2.done = t.done,
           t2.st = t.st
    PROVE  LevelFits(t2, r, b)
BY DEF LevelFits

LEMMA StampedFits ==
    ASSUME NEW p \in [Levels -> PlanType]
    PROVE  /\ Stamped(p) \in [Levels -> PlanType]
           /\ \A l \in Levels :
                /\ Stamped(p)[l].cid = p[l].cid /\ Stamped(p)[l].oid = p[l].oid
                /\ Stamped(p)[l].fill = p[l].fill /\ Stamped(p)[l].qty = p[l].qty
                /\ Stamped(p)[l].done = p[l].done /\ Stamped(p)[l].st = p[l].st
                /\ Stamped(p)[l].want = p[l].want /\ Stamped(p)[l].by = p[l].by
                /\ Stamped(p)[l].prior = p[l].prior
<1>1. ASSUME NEW l \in Levels
      PROVE  /\ Stamped(p)[l] = [p[l] EXCEPT !.sync = tpCumulativeFill(p[l])]
             /\ p[l] \in PlanType /\ tpCumulativeFill(p[l]) \in Nat
  BY DEF Stamped, PlanType, tpCumulativeFill
<1>2. ASSUME NEW l \in Levels
      PROVE  /\ Stamped(p)[l] \in PlanType
             /\ Stamped(p)[l].cid = p[l].cid /\ Stamped(p)[l].oid = p[l].oid
             /\ Stamped(p)[l].fill = p[l].fill /\ Stamped(p)[l].qty = p[l].qty
             /\ Stamped(p)[l].done = p[l].done /\ Stamped(p)[l].st = p[l].st
             /\ Stamped(p)[l].want = p[l].want /\ Stamped(p)[l].by = p[l].by
             /\ Stamped(p)[l].prior = p[l].prior
  <2> DEFINE c == tpCumulativeFill(p[l])
  <2>1. Stamped(p)[l] = [p[l] EXCEPT !.sync = c] /\ p[l] \in PlanType /\ c \in Nat
    BY <1>1
  <2> HIDE DEF c
  <2> QED BY <2>1 DEF PlanType
<1>3. Stamped(p) \in [Levels -> PlanType]
  <2>1. Stamped(p) = [l \in Levels |-> [p[l] EXCEPT !.sync = tpCumulativeFill(p[l])]]
    BY DEF Stamped
  <2> QED BY <2>1, <1>1, <1>2
<1> QED BY <1>2, <1>3

LEMMA Cancels ==
    ASSUME NEW a \in Int, NEW b \in Int, NEW c \in Int, c > 0, c * a <= b * c PROVE a <= b
OBVIOUS

LEMMA TotalTyped ==
    ASSUME NEW p \in [Levels -> PlanType]
    PROVE  /\ \A l \in Levels : rem(p[l]) \in Nat
           /\ [l \in Levels |-> IF l \in Open(p) THEN rem(p[l]) ELSE 0] \in [Levels -> Nat]
           /\ Total(p) \in Nat /\ Since(p) \in Nat
<1>1. \A l \in Levels : rem(p[l]) \in Nat
  BY DEF PlanType, rem, Most
<1>2. [l \in Levels |-> IF l \in Open(p) THEN rem(p[l]) ELSE 0] \in [Levels -> Nat]
  BY <1>1
<1>3. \A l \in Levels : Most(0, tpCumulativeFill(p[l]) - p[l].sync) \in Nat
  BY DEF PlanType, tpCumulativeFill, Most
<1>4. Since(p) \in Nat
  BY <1>3, SumNat DEF Since
<1> QED BY <1>1, <1>2, <1>4, SumNat DEF Total

(* What tpRescale leaves of a level is its share at most.                  *)
LEMMA RescaledFits ==
    ASSUME LadderTyped, NEW l \in Levels, NEW q \in Nat, Total(plan) > 0
    PROVE  /\ tpRescale(plan, l, q) \in Nat
           /\ Total(plan) * tpRescale(plan, l, q) <= q * rem(plan[l])
<1> DEFINE T == Total(plan)
           base == synced - Since(plan)
           a == rem(plan[l]) * q
<1>1. T \in Nat /\ T > 0 /\ rem(plan[l]) \in Nat /\ base \in Int /\ a \in Nat
  <2>1. T \in Nat /\ rem(plan[l]) \in Nat /\ Since(plan) \in Nat /\ synced \in Nat
    BY TotalTyped, NumbersTyped DEF LadderTyped
  <2> QED BY <2>1
<1>2. a \div T \in Nat /\ T * (a \div T) <= a
  BY <1>1, DivBounds
<1>3. base > 0 => a \div base \in Nat
  BY <1>1, DivBounds
<1>4. /\ tpRescale(plan, l, q) = IF synced > 0 /\ base > 0 THEN Least(a \div base, a \div T)
                                 ELSE Least(rem(plan[l]), a \div T)
  BY DEF tpRescale
<1> HIDE DEF T, base, a
<1>5. tpRescale(plan, l, q) \in Nat /\ tpRescale(plan, l, q) <= a \div T
  BY <1>1, <1>2, <1>3, <1>4 DEF Least
<1>6. T * tpRescale(plan, l, q) <= T * (a \div T)
  BY <1>1, <1>2, <1>5
<1>7. T * tpRescale(plan, l, q) <= a
  <2>1. T * tpRescale(plan, l, q) \in Int /\ T * (a \div T) \in Int
    BY <1>1, <1>2, <1>5
  <2> QED BY <2>1, <1>1, <1>2, <1>6
<1>8. a = q * rem(plan[l])
  BY <1>1 DEF a
<1> QED BY <1>5, <1>7, <1>8 DEF T

LEMMA BookRescale == IInv /\ Rescale => BookInv'
<1> SUFFICES ASSUME IInv, Rescale PROVE BookInv'
  OBVIOUS
<1>0. /\ LadderTyped /\ LevelsFit /\ StraysFit /\ PriorFits /\ WantFits
      /\ plan \in [Levels -> PlanType]
  BY DEF IInv, LadderTyped
<1>1. CASE Total(plan) = 0 \/ synced = run.q
  BY <1>1, BookKept DEF Rescale, Book
<1>2. CASE Total(plan) # 0 /\ synced # run.q
  <2> DEFINE q == run.q
             W == [l \in Levels |-> tpRescale(plan, l, q)]
             p2 == [l \in Levels |-> IF l \in Open(plan) THEN [plan[l] EXCEPT !.want = W[l]]
                                     ELSE plan[l]]
             g == [l \in Levels |-> IF l \in Open(plan) THEN rem(plan[l]) ELSE 0]
  <2>1. plan' = Stamped(p2) /\ synced' = q /\ UNCHANGED <<row, ord, old, stray>>
    BY <1>2 DEF Rescale, Book
  <2>2. q \in Nat
    <3>1. q \in 0 .. StartQty
      BY <1>0 DEF LadderTyped, RunType
    <3> QED BY <3>1, LevelsFacts
  <2>3. Total(plan) \in Nat /\ Total(plan) > 0 /\ g \in [Levels -> Nat] /\ Total(plan) = Sum(g)
    BY <1>0, <1>2, TotalTyped DEF Total
  <2>4. \A l \in Levels : W[l] \in Nat /\ Total(plan) * W[l] <= q * rem(plan[l])
    BY <1>0, <2>2, <2>3, RescaledFits
  <2> HIDE DEF q, W
  <2>5. ASSUME NEW l \in Levels
        PROVE  /\ p2[l] \in PlanType
               /\ p2[l].cid = plan[l].cid /\ p2[l].oid = plan[l].oid /\ p2[l].fill = plan[l].fill
               /\ p2[l].qty = plan[l].qty /\ p2[l].done = plan[l].done /\ p2[l].st = plan[l].st
               /\ p2[l].by = plan[l].by /\ p2[l].prior = plan[l].prior
               /\ l \in Open(plan) => p2[l].want = W[l]
    <3>1. plan[l] \in PlanType /\ W[l] \in Nat
      BY <1>0, <2>4
    <3>2. p2[l] = IF l \in Open(plan) THEN [plan[l] EXCEPT !.want = W[l]] ELSE plan[l]
      OBVIOUS
    <3> HIDE DEF p2
    <3> QED BY <3>1, <3>2 DEF PlanType
  <2>6. p2 \in [Levels -> PlanType]
    BY <2>5
  <2> HIDE DEF p2
  <2>7. /\ plan' \in [Levels -> PlanType]
        /\ \A l \in Levels :
             /\ plan'[l].cid = plan[l].cid /\ plan'[l].oid = plan[l].oid
             /\ plan'[l].fill = plan[l].fill /\ plan'[l].qty = plan[l].qty
             /\ plan'[l].done = plan[l].done /\ plan'[l].st = plan[l].st
             /\ plan'[l].by = plan[l].by /\ plan'[l].prior = plan[l].prior
             /\ plan'[l].want = p2[l].want
    BY <2>1, <2>5, <2>6, StampedFits
  <2>8. LevelsFit'
    <3> SUFFICES ASSUME NEW l \in Levels PROVE LevelFits(plan'[l], row[l], ord[l])
      BY <2>1 DEF LevelsFit
    <3>1. LevelFits(plan[l], row[l], ord[l])
      BY <1>0 DEF LevelsFit
    <3> QED BY <3>1, <2>7, SameFit
  <2>9. WantFits'
    <3>1. Open(plan') = Open(plan)
      BY <2>7 DEF Open
    <3>2. \A l \in Levels : l \in Open(plan) => plan'[l].want = W[l]
      BY <2>5, <2>7
    <3> DEFINE w == Wants(plan')
    <3>3. w \in [Levels -> Nat]
      BY <2>4, <3>1, <3>2 DEF Wants
    <3>4. \A l \in Levels : Total(plan) * w[l] <= q * g[l]
      BY <2>2, <2>3, <2>4, <3>1, <3>2 DEF Wants
    <3> HIDE DEF g, w
    <3>9. w \in [Levels -> Int] /\ g \in [Levels -> Int]
      BY <2>3, <3>3
    <3>5. Total(plan) * Sum(w) <= q * Sum(g)
      BY <2>2, <2>3, <3>9, <3>4, SumScales
    <3>6. Sum(w) \in Nat
      BY <3>3, SumNat
    <3>7. Sum(w) <= q
      BY <2>2, <2>3, <3>5, <3>6, Cancels
    <3>8. Wanted(plan') = Sum(w)
      BY DEF Wanted, Wants, w
    <3> QED BY <2>1, <3>7, <3>8 DEF WantFits
  <2>10. PriorFits'
    BY <1>0, <2>1, <2>7, PriorKept
  <2>11. StraysFit'
    BY <1>0, <2>1 DEF StraysFit
  <2> QED BY <1>0, <2>1, <2>7, <2>8, <2>9, <2>10, <2>11 DEF BookInv, LadderTyped
<1> QED BY <1>1, <1>2

LEMMA BookStamp == IInv /\ Stamp => BookInv'
<1> SUFFICES ASSUME IInv, Stamp PROVE BookInv'
  OBVIOUS
<1>0. /\ LadderTyped /\ LevelsFit /\ StraysFit /\ PriorFits /\ WantFits
      /\ plan \in [Levels -> PlanType]
  BY DEF IInv, LadderTyped
<1>1. plan' = Stamped(plan) /\ synced' = synced /\ UNCHANGED <<row, ord, old, stray>>
  BY DEF Stamp, Book, IInv, StageFits, At, Scaled
<1>2. /\ plan' \in [Levels -> PlanType]
      /\ \A l \in Levels :
           /\ plan'[l].cid = plan[l].cid /\ plan'[l].oid = plan[l].oid
           /\ plan'[l].fill = plan[l].fill /\ plan'[l].qty = plan[l].qty
           /\ plan'[l].done = plan[l].done /\ plan'[l].st = plan[l].st
           /\ plan'[l].by = plan[l].by /\ plan'[l].prior = plan[l].prior
           /\ plan'[l].want = plan[l].want
  BY <1>0, <1>1, StampedFits
<1>3. LevelsFit'
  <2> SUFFICES ASSUME NEW l \in Levels PROVE LevelFits(plan'[l], row[l], ord[l])
    BY <1>1 DEF LevelsFit
  <2>1. LevelFits(plan[l], row[l], ord[l])
    BY <1>0 DEF LevelsFit
  <2> QED BY <2>1, <1>2, SameFit
<1>4. \A l \in Levels : plan[l].want \in Nat
  BY <1>0, Basics DEF PlanType
<1>5. \A l \in Levels : /\ plan'[l].want <= plan[l].want
                        /\ (plan[l].done => plan'[l].done) /\ (plan[l].by => plan'[l].by)
  BY <1>2, <1>4
<1>6. WantFits'
  BY <1>0, <1>1, <1>2, <1>5, WantLess
<1>7. PriorFits'
  BY <1>0, <1>1, <1>2, PriorKept
<1>8. StraysFit'
  BY <1>0, <1>1 DEF StraysFit
<1> QED BY <1>0, <1>1, <1>2, <1>3, <1>6, <1>7, <1>8 DEF BookInv, LadderTyped

-----------------------------------------------------------------------------
(* What an update gives the levels.                                        *)

LEMMA SharesFit ==
    ASSUME NEW p \in [Levels -> PlanType], pos \in Nat, Weights(p) # 0
    PROVE  /\ \A l \in Levels : Allotted(p, l) \in Nat
           /\ Sum([l \in Levels |-> Allotted(p, l)]) <= pos
<1> DEFINE S  == Sum([k \in Levels |-> Sold(p[k])])
           wt == [l \in Levels |-> Weight(p, l)]
           sh == [l \in Levels |-> Share(p, l)]
           W  == Weights(p)
           X  == pos * Offered
<1>0. Offered \in Nat /\ Offered <= 100 /\ Last \in Levels /\ \A l \in Levels : Ratios[l] \in Nat
  BY LevelsFacts
<1>1. \A l \in Levels : Sold(p[l]) \in Nat
  BY DEF Sold, PlanType
<1>2. S \in Nat
  <2> DEFINE f == [k \in Levels |-> Sold(p[k])]
  <2>1. f \in [Levels -> Nat]
    BY <1>1
  <2> QED BY <2>1, SumNat
<1>3. \A l \in Levels : Weight(p, l) \in Nat
  <2> SUFFICES ASSUME NEW l \in Levels PROVE Weight(p, l) \in Nat
    OBVIOUS
  <2>1. Weight(p, l) = IF p[l].done THEN 0 ELSE Most(0, (pos + S) * Ratios[l] - 100 * Sold(p[l]))
    BY DEF Weight
  <2>2. (pos + S) * Ratios[l] \in Nat /\ 100 * Sold(p[l]) \in Nat
    BY <1>0, <1>1, <1>2
  <2> QED BY <2>1, <2>2 DEF Most
<1>4. wt \in [Levels -> Nat] /\ W = Sum(wt) /\ W \in Nat /\ W > 0
  <2>1. wt \in [Levels -> Nat] /\ W = Sum(wt)
    BY <1>3 DEF Weights
  <2> QED BY <2>1, SumNat
<1>5. X \in Nat /\ X <= 100 * pos
  BY <1>0
<1>6. \A l \in Levels : /\ sh[l] \in Nat /\ (100 * W) * sh[l] <= X * wt[l]
  <2> SUFFICES ASSUME NEW l \in Levels
               PROVE  Share(p, l) \in Nat /\ (100 * W) * Share(p, l) <= X * Weight(p, l)
    OBVIOUS
  <2> DEFINE a == pos * Weight(p, l) * Offered
  <2>1. Weight(p, l) \in Nat
    BY <1>3
  <2>2. a \in Nat /\ a = X * Weight(p, l)
    BY <2>1, <1>0
  <2>3. 100 * W \in Nat /\ 100 * W > 0
    BY <1>4
  <2>4. Share(p, l) = a \div (100 * W)
    BY DEF Share
  <2> HIDE DEF a, W, X
  <2>5. a \div (100 * W) \in Nat /\ (100 * W) * (a \div (100 * W)) <= a
    BY <2>2, <2>3, DivBounds
  <2> QED BY <2>2, <2>4, <2>5
<1> HIDE DEF S, wt, W, X
<1>7. sh \in [Levels -> Nat] /\ Sum(sh) \in Nat
  <2>1. sh \in [Levels -> Nat]
    BY <1>6
  <2> QED BY <2>1, SumNat
<1>8. Sum(sh) <= X \div 100
  <2>1. sh \in [Levels -> Int] /\ wt \in [Levels -> Int] /\ 100 * W \in Nat
    BY <1>4, <1>7
  <2> HIDE DEF sh
  <2>2. (100 * W) * Sum(sh) <= X * W
    BY <1>4, <1>5, <1>6, <2>1, SumScales
  <2>3. W * (100 * Sum(sh)) <= X * W
    <3>1. (100 * W) * Sum(sh) = W * (100 * Sum(sh))
      BY <1>4, <1>7
    <3> QED BY <2>2, <3>1
  <2>4. 100 * Sum(sh) <= X
    <3>1. 100 * Sum(sh) \in Int
      BY <1>7
    <3> QED BY <1>4, <1>5, <2>3, <3>1, Cancels
  <2> QED BY <1>5, <1>7, <2>4
<1> DEFINE rest == [k \in Levels |-> IF k = Last THEN 0 ELSE sh[k]]
           al == [l \in Levels |-> Allotted(p, l)]
<1>9. rest \in [Levels -> Nat] /\ Sum(rest) \in Nat /\ Sum(sh) = Sum(rest) + sh[Last]
  <2>1. rest \in [Levels -> Nat] /\ sh \in [Levels -> Int]
    BY <1>7
  <2>2. Sum(sh) = Sum(rest) + sh[Last]
    <3> HIDE DEF sh
    <3> QED BY <1>0, <2>1, SumSplit
  <2> HIDE DEF rest
  <2> QED BY <2>1, <2>2, SumNat
<1>10. /\ al[Last] = X \div 100 - Sum(rest)
       /\ \A l \in Levels : l # Last => al[l] = sh[l]
  <2>1. rest = [k \in Levels |-> IF k = Last THEN 0 ELSE Share(p, k)]
    OBVIOUS
  <2> QED BY <1>0, <2>1 DEF Allotted, X
<1>11. sh[Last] \in Nat /\ X \div 100 \in Nat /\ X \div 100 <= pos
  BY <1>0, <1>5, <1>7
<1>12. \A l \in Levels : al[l] \in Nat
  <2>1. al[Last] \in Nat
    <3> HIDE DEF al, rest, sh
    <3> QED BY <1>8, <1>7, <1>9, <1>10, <1>11
  <2> QED BY <2>1, <1>7, <1>10
<1>13. rest = [l \in Levels |-> IF l = Last THEN 0 ELSE al[l]]
  BY <1>10
<1> HIDE DEF rest, sh
<1>14. Sum(al) = Sum(rest) + al[Last]
  <2>1. al \in [Levels -> Int]
    BY <1>12
  <2> HIDE DEF al
  <2> QED BY <1>0, <1>13, <2>1, SumSplit
<1>15. Sum(al) <= pos
  <2> HIDE DEF al
  <2>1. Sum(al) = X \div 100
    BY <1>9, <1>10, <1>11, <1>14
  <2> QED BY <1>11, <2>1
<1> QED BY <1>12, <1>15

\* A level that is replanned with the lots that the update gives it.
Given(t, q) == [replanTP(t) EXCEPT !.qty = q, !.want = q]

LEMMA GivenFits ==
    ASSUME NEW t \in PlanType, NEW q \in Nat
    PROVE  /\ Given(t, q) \in PlanType /\ LevelFits(Given(t, q), "none", NoOrder)
           /\ Given(t, q).want = q /\ Given(t, q).prior = t.prior + t.fill
           /\ Given(t, q).done = t.done /\ Given(t, q).by = t.by
<1> DEFINE u == [replanTP(t) EXCEPT !.qty = q]
           t2 == Given(t, q)
<1>1. /\ u \in PlanType /\ LevelFits(u, "none", NoOrder)
      /\ u.prior = t.prior + t.fill /\ u.by = t.by /\ u.done = t.done
  BY Replanned
<1>2. t2 = [u EXCEPT !.want = q]
  BY DEF replanTP, Given
<1> HIDE DEF u, t2
<1>3. /\ t2 \in PlanType /\ t2.cid = u.cid /\ t2.oid = u.oid /\ t2.fill = u.fill
      /\ t2.qty = u.qty /\ t2.done = u.done /\ t2.st = u.st /\ t2.want = q
      /\ t2.prior = u.prior /\ t2.by = u.by
  BY <1>1, <1>2 DEF PlanType
<1>4. LevelFits(t2, "none", NoOrder)
  BY <1>1, <1>3, SameFit
<1> QED BY <1>1, <1>3, <1>4 DEF t2

LEMMA BookAllocate == IInv /\ Allocate => BookInv'
<1> SUFFICES ASSUME IInv, Allocate PROVE BookInv'
  OBVIOUS
<1>0. /\ LadderTyped /\ LevelsFit /\ StraysFit /\ PriorFits /\ WantFits
      /\ plan \in [Levels -> PlanType]
  BY DEF IInv, LadderTyped
<1> DEFINE p == refreshTPProgress
           kept == {l \in Levels : p[l].done}
           A == [l \in Levels |-> Allotted(p, l)]
           p2 == [l \in Levels |-> IF l \in kept THEN p[l]
                           ELSE Given(p[l], A[l])]
<1>1. CASE pos = 0 \/ Weights(p) = 0
  <2>n. pos = 0 \/ pos > 0
    BY <1>0, NumbersTyped
  <2>1. plan' = refreshTPProgress /\ UNCHANGED <<synced, Book>>
    <3> HIDE DEF p
    <3>1. CASE pos = 0
      BY <3>1 DEF Allocate, p
    <3>2. CASE pos > 0 /\ Weights(p) = 0
      BY <3>2, <2>n DEF Allocate, p
    <3> QED BY <1>1, <2>n, <3>1, <3>2
  <2> QED BY <2>1, BookRefreshed DEF Book
<1>2. CASE pos # 0 /\ Weights(p) # 0
  <2>n. pos \in Nat
    BY <1>0, NumbersTyped
  <2>1. plan' = Stamped(p2) /\ synced' = pos /\ Forget(Levels \ kept, "update")
    BY <1>2, <2>n DEF Allocate, Given
  <2>2. /\ p \in [Levels -> PlanType]
        /\ \A l \in Levels :
                /\ LevelFits(p[l], row[l], ord[l])
                /\ p[l].prior = plan[l].prior
                /\ ~p[l].oid => p[l] = plan[l]
                /\ p[l].oid /\ ~p[l].done => p[l].fill = ord[l].exec
    BY <1>0, PlanRefreshed
  <2>3. A \in [Levels -> Nat] /\ Sum(A) <= pos
    <3> HIDE DEF p
    <3>1. \A l \in Levels : Allotted(p, l) \in Nat
      BY <1>2, <2>n, <2>2, SharesFit
    <3>2. Sum([l \in Levels |-> Allotted(p, l)]) <= pos
      BY <1>2, <2>n, <2>2, SharesFit
    <3> QED BY <3>1, <3>2
  <2> HIDE DEF p, A
  <2>4. /\ row' \in [Levels -> RowStatus] /\ ord' \in [Levels -> OrderType]
        /\ old' \in [Levels -> Nat] /\ stray' \subseteq StrayType /\ stray \subseteq stray'
        /\ \A l \in Levels \ kept : row'[l] = "none" /\ ord'[l] = NoOrder
                                    /\ old'[l] = old[l] + ord[l].exec
        /\ \A l \in kept : row'[l] = row[l] /\ ord'[l] = ord[l] /\ old'[l] = old[l]
        /\ \A l \in Levels \ kept : ord[l].at \in OnBook \/ Grown(l) => \E s \in stray' : s.lv = l
        /\ \A s \in stray' \ stray : s.why = "update"
    <3> DEFINE S == Levels \ kept
    <3>1. S \in SUBSET Levels /\ Levels \ S = kept
      OBVIOUS
    <3> HIDE DEF S, kept
    <3>2. Forget(S, "update")
      BY <2>1 DEF S
    <3>3. /\ row' \in [Levels -> RowStatus] /\ ord' \in [Levels -> OrderType]
          /\ old' \in [Levels -> Nat] /\ stray' \subseteq StrayType /\ stray \subseteq stray'
          /\ \A l \in S : row'[l] = "none" /\ ord'[l] = NoOrder /\ old'[l] = old[l] + ord[l].exec
          /\ \A l \in Levels \ S : row'[l] = row[l] /\ ord'[l] = ord[l] /\ old'[l] = old[l]
          /\ \A l \in S : ord[l].at \in OnBook \/ Grown(l) => \E s \in stray' : s.lv = l
          /\ \A s \in stray' \ stray : s.why = "update"
      BY <1>0, <3>1, <3>2, Forgets
    <3> QED BY <3>1, <3>3 DEF S
  <2>5. ASSUME NEW l \in Levels
        PROVE  /\ p2[l] \in PlanType
               /\ l \in kept => p2[l] = p[l]
               /\ l \notin kept => /\ LevelFits(p2[l], "none", NoOrder)
                                   /\ p2[l].want = A[l] /\ p2[l].done = FALSE
                                   /\ p2[l].prior = p[l].prior + p[l].fill
    <3>1. p[l] \in PlanType /\ A[l] \in Nat
      BY <2>2, <2>3
    <3>2. CASE l \in kept
      BY <3>1, <3>2
    <3>3. CASE l \notin kept
      <4>1. p2[l] = Given(p[l], A[l])
        BY <3>3
      <4>2. p[l].done = FALSE
        BY <3>1, <3>3 DEF PlanType
      <4> HIDE DEF p2, kept
      <4>3. /\ p2[l] \in PlanType /\ LevelFits(p2[l], "none", NoOrder)
            /\ p2[l].want = A[l] /\ p2[l].prior = p[l].prior + p[l].fill
            /\ p2[l].done = p[l].done
        BY <3>1, <4>1, GivenFits
      <4> QED BY <3>3, <4>2, <4>3
    <3> QED BY <3>2, <3>3
  <2>6. p2 \in [Levels -> PlanType]
    BY <2>5
  <2>k. \A l \in Levels : l \in kept <=> p[l].done
    OBVIOUS
  <2> HIDE DEF p2, kept
  <2>7. /\ plan' \in [Levels -> PlanType]
        /\ \A l \in Levels :
             /\ plan'[l].cid = p2[l].cid /\ plan'[l].oid = p2[l].oid
             /\ plan'[l].fill = p2[l].fill /\ plan'[l].qty = p2[l].qty
             /\ plan'[l].done = p2[l].done /\ plan'[l].st = p2[l].st
             /\ plan'[l].prior = p2[l].prior /\ plan'[l].want = p2[l].want
    BY <2>1, <2>6, StampedFits
  <2>8. LevelsFit'
    <3> SUFFICES ASSUME NEW l \in Levels PROVE LevelFits(plan'[l], row'[l], ord'[l])
      BY DEF LevelsFit
    <3>1. LevelFits(p2[l], row'[l], ord'[l])
      BY <2>2, <2>4, <2>5
    <3> QED BY <3>1, <2>7, SameFit
  <2>9. WantFits'
    <3> DEFINE w == Wants(plan')
    <3>1. \A l \in Levels : l \in Open(plan') => plan'[l].want = A[l]
      BY <2>2, <2>5, <2>7, <2>k DEF Open
    <3>2. w \in [Levels -> Nat] /\ \A l \in Levels : w[l] <= A[l]
      BY <2>3, <3>1 DEF Wants
    <3> HIDE DEF w
    <3>3. Sum(w) <= Sum(A) /\ Sum(w) \in Nat /\ Sum(A) \in Nat
      BY <2>3, <3>2, SumMono, SumNat
    <3>4. Wanted(plan') = Sum(w)
      BY DEF Wanted, Wants, w
    <3> QED BY <2>n, <2>1, <2>3, <3>3, <3>4 DEF WantFits
  <2>10. PriorFits'
    <3> SUFFICES ASSUME NEW l \in Levels, ~(\E s \in stray' : s.lv = l)
                 PROVE  plan'[l].prior = old'[l]
      BY DEF PriorFits, Dropped
    <3>1. plan[l].prior = old[l]
      BY <1>0, <2>4 DEF PriorFits, Dropped
    <3>5. p[l].prior = plan[l].prior /\ plan'[l].prior = p2[l].prior
      BY <2>2, <2>7
    <3>2. CASE l \in kept
      <4>1. p2[l] = p[l] /\ old'[l] = old[l]
        BY <2>4, <2>5, <3>2
      <4> QED BY <3>1, <3>5, <4>1
    <3>3. CASE l \notin kept
      <4>1. plan[l].fill <= ord[l].exec /\ plan[l].fill \in Nat /\ ord[l].exec \in Nat
        BY <1>0, Basics DEF LevelsFit, LevelFits, PlanType, OrderType
      <4>2. plan[l].fill = ord[l].exec
        BY <2>4, <3>3, <4>1 DEF Grown
      <4>3. p[l].fill = ord[l].exec
        BY <2>2, <2>k, <3>3, <4>2
      <4>4. p2[l].prior = p[l].prior + p[l].fill /\ old'[l] = old[l] + ord[l].exec
        BY <2>4, <2>5, <3>3
      <4> QED BY <3>1, <3>5, <4>3, <4>4
    <3> QED BY <3>2, <3>3
  <2>11. StraysFit'
    BY <1>0, <2>4 DEF StraysFit
  <2> QED BY <2>4, <2>7, <2>8, <2>9, <2>10, <2>11 DEF BookInv
<1> QED BY <1>1, <1>2

-----------------------------------------------------------------------------
(* The steps of a level                                                    *)

OrderStates == {"none", "flying", "live", "filled", "over", "refused", "banded", "lost"}

(* An order ends or arrives; the plan and the ledger do not know of it.    *)
LEMMA OrderMoves ==
    ASSUME IInv, NEW j \in Levels, NEW at \in OrderStates, SetOrder(j, at),
           UNCHANGED <<plan, row, old, stray, synced>>,
           \/ ord[j].at = "live" /\ at = "over"
           \/ ord[j].at = "flying" /\ at \in {"live", "refused", "banded", "lost"}
    PROVE  BookInv'
<1>0. ord \in [Levels -> OrderType] /\ plan \in [Levels -> PlanType] /\ row \in [Levels -> RowStatus]
  BY DEF IInv, LadderTyped
<1> DEFINE b == ord[j]
           b2 == [b EXCEPT !.at = at]
<1>1. b \in OrderType /\ plan[j] \in PlanType /\ LevelFits(plan[j], row[j], b)
  BY <1>0 DEF IInv, LevelsFit
<1>2. b2 \in OrderType /\ b2.at = at /\ b2.qty = b.qty /\ b2.exec = b.exec
  BY <1>1 DEF OrderType, OrderStates
<1>3. ord' \in [Levels -> OrderType] /\ ord'[j] = b2 /\ \A l \in Levels \ {j} : ord'[l] = ord[l]
  <2>1. ord' = [ord EXCEPT ![j] = b2]
    BY DEF SetOrder
  <2> HIDE DEF b2
  <2> QED BY <1>0, <1>2, <2>1
<1>4. b.at \in OnBook /\ (b.at = "live" => row[j] \notin {"none", "PLANNED"})
  BY <1>1 DEF OnBook, LevelFits
<1> HIDE DEF b, b2
<1>5. LevelFits(plan[j], row[j], b2)
  BY <1>1, <1>2, <1>4 DEF LevelFits, OnBook, b
<1>6. plan[j].want \in Nat
  BY <1>1 DEF PlanType
<1> QED BY <1>0, <1>3, <1>5, <1>6, LevelChanges

LEMMA BookFill == ASSUME IInv, NEW l \in Levels, Fill(l) PROVE BookInv'
<1>0. ord \in [Levels -> OrderType] /\ plan \in [Levels -> PlanType] /\ row \in [Levels -> RowStatus]
  BY DEF IInv, LadderTyped
<1> DEFINE b == ord[l]
           a2 == IF b.exec + 1 = b.qty THEN "filled" ELSE "live"
           b2 == [b EXCEPT !.exec = b.exec + 1, !.at = a2]
<1>1. b \in OrderType /\ plan[l] \in PlanType /\ LevelFits(plan[l], row[l], b) /\ b.at = "live"
  BY <1>0 DEF IInv, LevelsFit, Fill
<1>2. b2 \in OrderType /\ b2.at = a2 /\ b2.qty = b.qty /\ b2.exec = b.exec + 1
  <2>1. a2 \in {"live", "filled"} /\ b.exec + 1 \in Nat
    BY <1>1 DEF OrderType
  <2> HIDE DEF a2, b
  <2> QED BY <1>1, <2>1 DEF OrderType
<1>3. ord' \in [Levels -> OrderType] /\ ord'[l] = b2 /\ \A k \in Levels \ {l} : ord'[k] = ord[k]
  <2>1. ord' = [ord EXCEPT ![l] = b2]
    BY DEF Fill
  <2> HIDE DEF b2
  <2> QED BY <1>0, <1>2, <2>1
<1>4. /\ b.exec \in Nat /\ b.qty \in Nat /\ plan[l].fill \in Nat /\ b.exec < b.qty
      /\ plan[l].fill <= b.exec /\ row[l] \notin {"none", "PLANNED"}
  BY <1>1 DEF OrderType, PlanType, LevelFits, OnBook
<1>5. /\ a2 \in {"live", "filled"} /\ (a2 = "live" => b.exec + 1 < b.qty) /\ b.exec + 1 <= b.qty
      /\ plan[l].fill <= b.exec + 1
  BY <1>4
<1> HIDE DEF b, b2, a2
<1>6. LevelFits(plan[l], row[l], b2)
  <2>1. ~plan[l].done /\ row[l] \notin {"REJECTED", "REJECTED_RETRY", "ABANDONED"}
    BY <1>1 DEF LevelFits, OnBook
  <2>2. b2.exec <= b2.qty /\ plan[l].fill <= b2.exec /\ (b2.at \in OnBook => b2.exec < b2.qty)
    BY <1>2, <1>5 DEF OnBook
  <2>3. b2.at \in {"live", "filled"}
    BY <1>2, <1>5
  <2> QED BY <1>1, <1>4, <2>1, <2>2, <2>3 DEF LevelFits
<1>7. plan[l].want \in Nat /\ UNCHANGED <<plan, row, old, stray, synced>>
  BY <1>1 DEF PlanType, Fill, Ctx
<1> QED BY <1>0, <1>3, <1>6, <1>7, LevelChanges

(* The ledger learns the fate of the order of the level.                   *)
LEMMA RowMoves ==
    ASSUME IInv, ~At("idle"), NEW st \in RowStatus, SetRow(st),
           UNCHANGED <<plan, ord, old, stray, synced>>, LevelFits(plan[run.l], st, ord[run.l])
    PROVE  BookInv'
<1>0. ord \in [Levels -> OrderType] /\ plan \in [Levels -> PlanType] /\ row \in [Levels -> RowStatus]
  BY DEF IInv, LadderTyped
<1>1. run.l \in Levels /\ plan[run.l].want \in Nat
  BY <1>0, AtLevel DEF PlanType
<1>2. /\ row' \in [Levels -> RowStatus] /\ row'[run.l] = st
      /\ \A l \in Levels \ {run.l} : row'[l] = row[l]
  BY <1>0, <1>1 DEF SetRow
<1> QED BY <1>0, <1>1, <1>2, LevelChanges

(* The plan learns it: all but the level's lots of want may change.        *)
LEMMA TPMoves ==
    ASSUME IInv, ~At("idle"), NEW t \in PlanType, SaveTP(t),
           UNCHANGED <<row, ord, old, stray, synced>>, LevelFits(t, row[run.l], ord[run.l]),
           t.want = plan[run.l].want, t.prior = plan[run.l].prior, t.by = plan[run.l].by,
           plan[run.l].done => t.done
    PROVE  BookInv'
<1>0. ord \in [Levels -> OrderType] /\ plan \in [Levels -> PlanType] /\ row \in [Levels -> RowStatus]
  BY DEF IInv, LadderTyped
<1>1. run.l \in Levels /\ plan[run.l].want \in Nat
  BY <1>0, AtLevel DEF PlanType
<1>2. /\ plan' \in [Levels -> PlanType] /\ plan'[run.l] = t
      /\ \A l \in Levels \ {run.l} : plan'[l] = plan[l]
  BY <1>0, <1>1 DEF SaveTP
<1> QED BY <1>0, <1>1, <1>2, LevelChanges

\* The handler is about to place the order of its level, which is open.
LEMMA Places ==
    ASSUME IInv, AtPlace
    PROVE  ~At("idle") /\ run.l \in Open(plan) /\ ~plan[run.l].done
<1>1. ~At("idle")
  BY DEF AtPlace, At
<1>2. run.l \in Open(plan)
  BY DEF AtPlace, At, IInv, StageFits, Placing
<1> QED BY <1>1, <1>2 DEF Open

LEMMA BookBelowMinimum == IInv /\ BelowMinimum => BookInv'
<1> SUFFICES ASSUME IInv, BelowMinimum PROVE BookInv'
  OBVIOUS
<1> DEFINE t == plan[run.l]
           t2 == [t EXCEPT !.st = "BELOW_MINIMUM"]
<1>1. /\ ~At("idle") /\ tp = t /\ t \in PlanType
      /\ LevelFits(t, row[run.l], ord[run.l])
  BY Places, AtLevel DEF BelowMinimum
<1>2. SaveTP(t2) /\ UNCHANGED <<row, ord, old, stray, synced>>
  BY <1>1 DEF BelowMinimum, Book, Ctx
<1>3. /\ t2 \in PlanType /\ t2.cid = t.cid /\ t2.oid = t.oid /\ t2.fill = t.fill /\ t2.qty = t.qty
      /\ t2.done = t.done /\ t2.want = t.want /\ t2.prior = t.prior /\ t2.by = t.by
      /\ t2.st = "BELOW_MINIMUM"
  BY <1>1 DEF PlanType, Statuses
<1> HIDE DEF t2
<1>4. LevelFits(t2, row[run.l], ord[run.l])
  BY <1>1, <1>3 DEF LevelFits
<1> QED BY <1>1, <1>2, <1>3, <1>4, TPMoves

LEMMA BookRowRejected == IInv /\ RowRejected => BookInv'
<1> SUFFICES ASSUME IInv, RowRejected PROVE BookInv'
  OBVIOUS
<1> DEFINE t == plan[run.l]
           t2 == [t EXCEPT !.st = "REJECTED"]
<1>1. /\ ~At("idle") /\ tp = t /\ t \in PlanType /\ row[run.l] = "REJECTED"
      /\ LevelFits(t, row[run.l], ord[run.l])
  BY Places, AtLevel DEF RowRejected, Settles
<1>2. SaveTP(t2) /\ UNCHANGED <<row, ord, old, stray, synced>>
  BY <1>1 DEF RowRejected, Book, Ctx
<1>3. /\ t2 \in PlanType /\ t2.cid = t.cid /\ t2.oid = t.oid /\ t2.fill = t.fill /\ t2.qty = t.qty
      /\ t2.done = t.done /\ t2.want = t.want /\ t2.prior = t.prior /\ t2.by = t.by
      /\ t2.st = "REJECTED"
  BY <1>1 DEF PlanType, Statuses
<1> HIDE DEF t2
<1>4. LevelFits(t2, row[run.l], ord[run.l])
  BY <1>1, <1>3 DEF LevelFits
<1> QED BY <1>1, <1>2, <1>3, <1>4, TPMoves

LEMMA BookRowConfirmed == IInv /\ RowConfirmed => BookInv'
<1> SUFFICES ASSUME IInv, RowConfirmed PROVE BookInv'
  OBVIOUS
<1> DEFINE t == plan[run.l]
           b == ord[run.l]
<1>1. /\ ~At("idle") /\ tp = t /\ o = b /\ t \in PlanType /\ b \in OrderType /\ ~t.done
      /\ row[run.l] = "KNOWN" /\ LevelFits(t, row[run.l], b)
  BY Places, AtLevel DEF RowConfirmed, Settles
<1>2. PICK e \in 0 .. b.exec, st \in {"FILLED", "NEW", "CANCELED"} :
        /\ SaveTP([t EXCEPT !.oid = TRUE, !.fill = e, !.done = e = b.qty, !.st = st])
        /\ UNCHANGED <<row, ord, old, stray, synced>>
  <2>1. PICK e \in 0 .. b.exec :
          \E st \in IF e = b.qty THEN {"FILLED"}
                    ELSE IF b.at = "over" /\ e = b.exec THEN {"NEW", "CANCELED"} ELSE {"NEW"} :
             SaveTP([t EXCEPT !.oid = TRUE, !.fill = e, !.done = e = b.qty, !.st = st])
    BY <1>1 DEF RowConfirmed
  <2>2. UNCHANGED <<row, ord, old, stray, synced>>
    BY DEF RowConfirmed, Book, Ctx
  <2> QED BY <2>1, <2>2
<1> DEFINE d == (e = b.qty)
           t2 == [t EXCEPT !.oid = TRUE, !.fill = e, !.done = d, !.st = st]
<1>3. /\ b.exec \in Nat /\ b.qty \in Nat /\ e \in Nat /\ e <= b.exec /\ b.exec <= b.qty
      /\ (b.at = "live" => b.exec < b.qty) /\ b.at \in {"live", "filled", "over"} /\ d \in BOOLEAN
  BY <1>1 DEF OrderType, LevelFits, OnBook
<1>4. d => b.at \notin OnBook
  BY <1>3 DEF OnBook
<1> HIDE DEF d
<1>5. /\ t2 \in PlanType /\ t2.cid = t.cid /\ t2.oid = TRUE /\ t2.fill = e /\ t2.qty = t.qty
      /\ t2.done = d /\ t2.want = t.want /\ t2.prior = t.prior /\ t2.by = t.by /\ t2.st = st
  BY <1>1, <1>3 DEF PlanType, Statuses
<1>6. SaveTP(t2)
  BY <1>2 DEF d
<1> HIDE DEF t2, t, b
<1>7. LevelFits(t2, row[run.l], b)
  BY <1>1, <1>3, <1>4, <1>5 DEF LevelFits
<1> QED BY <1>1, <1>2, <1>5, <1>6, <1>7, TPMoves DEF t, b

LEMMA BookPlanOrder == IInv /\ PlanOrder => BookInv'
<1> SUFFICES ASSUME IInv, PlanOrder PROVE BookInv'
  OBVIOUS
<1> DEFINE t == plan[run.l]
           b == ord[run.l]
           t2 == [t EXCEPT !.cid = TRUE, !.qty = t.want]
<1>0. ord \in [Levels -> OrderType] /\ plan \in [Levels -> PlanType] /\ row \in [Levels -> RowStatus]
  BY DEF IInv, LadderTyped
<1>1. /\ ~At("idle") /\ run.l \in Levels /\ tp = t /\ t \in PlanType /\ b \in OrderType /\ ~t.done
      /\ ~t.cid /\ t.want > 0 /\ LevelFits(t, row[run.l], b)
  BY Places, AtLevel DEF PlanOrder
<1>2. /\ SaveTP(t2) /\ SetRow("PLANNED") /\ UNCHANGED <<ord, old, stray, synced>>
  BY <1>1 DEF PlanOrder, Ctx
<1>3. /\ t2 \in PlanType /\ t2.cid = TRUE /\ t2.oid = t.oid /\ t2.fill = t.fill /\ t2.qty = t.want
      /\ t2.done = t.done /\ t2.want = t.want /\ t2.prior = t.prior /\ t2.by = t.by /\ t2.st = t.st
      /\ t.want \in Nat
  BY <1>1 DEF PlanType
<1>4. row[run.l] = "none" /\ b.at = "none" /\ ~t.oid /\ t.st # "REJECTED" /\ b.exec = 0 /\ t.fill = 0
  BY <1>1 DEF LevelFits
<1> HIDE DEF t2
<1>5. LevelFits(t2, "PLANNED", b)
  <2>1. b.at \notin OnBook
    BY <1>4 DEF OnBook
  <2> QED BY <1>1, <1>3, <1>4, <2>1 DEF LevelFits
<1>6. /\ plan' \in [Levels -> PlanType] /\ plan'[run.l] = t2 /\ row' \in [Levels -> RowStatus]
      /\ row'[run.l] = "PLANNED"
      /\ \A l \in Levels \ {run.l} : plan'[l] = plan[l] /\ row'[l] = row[l]
  BY <1>0, <1>1, <1>2, <1>3 DEF SaveTP, SetRow, RowStatus
<1> QED BY <1>0, <1>1, <1>2, <1>3, <1>5, <1>6, LevelChanges

LEMMA BookSubmit == IInv /\ Submit => BookInv'
<1> SUFFICES ASSUME IInv, Submit PROVE BookInv'
  OBVIOUS
<1> DEFINE t == plan[run.l]
           b2 == [at |-> "flying", qty |-> t.qty, exec |-> 0]
<1>0. ord \in [Levels -> OrderType] /\ plan \in [Levels -> PlanType] /\ row \in [Levels -> RowStatus]
  BY DEF IInv, LadderTyped
<1>1. /\ ~At("idle") /\ run.l \in Levels /\ tp = t /\ t \in PlanType /\ ~t.done
      /\ row[run.l] = "PLANNED" /\ LevelFits(t, row[run.l], ord[run.l])
  BY Places, AtLevel DEF Submit, Settles
<1>2. /\ SetRow("SUBMITTING") /\ ord' = [ord EXCEPT ![run.l] = b2]
      /\ UNCHANGED <<plan, old, stray, synced>>
  BY <1>1 DEF Submit, Ctx
<1>3. t.qty \in Nat /\ t.want \in Nat /\ t.qty > 0 /\ t.fill = 0 /\ ~t.oid /\ t.cid /\ t.st # "REJECTED"
  BY <1>1 DEF PlanType, LevelFits
<1>4. b2 \in OrderType /\ b2.at = "flying" /\ b2.qty = t.qty /\ b2.exec = 0
  BY <1>3 DEF OrderType
<1> HIDE DEF b2
<1>5. LevelFits(t, "SUBMITTING", b2)
  BY <1>1, <1>3, <1>4 DEF LevelFits
<1>6. /\ ord' \in [Levels -> OrderType] /\ ord'[run.l] = b2 /\ row' \in [Levels -> RowStatus]
      /\ row'[run.l] = "SUBMITTING"
      /\ \A l \in Levels \ {run.l} : ord'[l] = ord[l] /\ row'[l] = row[l]
  BY <1>0, <1>1, <1>2, <1>4 DEF SetRow, RowStatus
<1> QED BY <1>0, <1>1, <1>2, <1>3, <1>5, <1>6, LevelChanges

\* The statuses that a row may have, given where its order is.
LEMMA RowFits ==
    ASSUME NEW t \in PlanType, NEW b \in OrderType, NEW r \in {"SUBMITTING", "UNKNOWN"},
           LevelFits(t, r, b)
    PROVE  /\ LevelFits(t, "UNKNOWN", b)
           /\ b.at \in {"live", "filled", "over"} => LevelFits(t, "KNOWN", b)
           /\ b.at = "refused" => LevelFits(t, "REJECTED", b)
           /\ b.at = "banded" => LevelFits(t, "REJECTED_RETRY", b)
           /\ b.at \in {"refused", "banded", "lost"} => LevelFits(t, "ABANDONED", b)
           /\ b.at # "none"
<1>1. t.cid /\ ~t.oid /\ t.st # "REJECTED" /\ b.at # "none"
  BY DEF LevelFits
<1> QED BY <1>1 DEF LevelFits

LEMMA BookAnswered == IInv /\ Answered => BookInv'
<1> SUFFICES ASSUME IInv, Answered PROVE BookInv'
  OBVIOUS
<1> DEFINE st == CASE o.at = "refused" -> "REJECTED" [] o.at = "banded" -> "REJECTED_RETRY"
                   [] OTHER -> "KNOWN"
<1>0. ~At("idle")
  BY DEF Answered, At
<1>1. /\ o = ord[run.l] /\ plan[run.l] \in PlanType /\ ord[run.l] \in OrderType
      /\ row[run.l] = "SUBMITTING" /\ LevelFits(plan[run.l], row[run.l], ord[run.l])
  BY <1>0, AtLevel DEF Answered, IInv, StageFits
<1>2. SetRow(st) /\ UNCHANGED <<plan, ord, old, stray, synced>>
  BY DEF Answered, Ctx
<1>3. ord[run.l].at \in {"refused", "banded", "live", "filled", "over"}
  BY <1>1, RowFits DEF Answered, OrderType
<1>4. LevelFits(plan[run.l], st, ord[run.l]) /\ st \in RowStatus
  BY <1>1, <1>3, RowFits DEF RowStatus
<1> HIDE DEF st
<1> QED BY <1>0, <1>2, <1>4, RowMoves

LEMMA BookUnanswered == IInv /\ Unanswered => BookInv'
<1> SUFFICES ASSUME IInv, Unanswered PROVE BookInv'
  OBVIOUS
<1>0. ~At("idle")
  BY DEF Unanswered, At
<1>1. /\ plan[run.l] \in PlanType /\ ord[run.l] \in OrderType
      /\ row[run.l] = "SUBMITTING" /\ LevelFits(plan[run.l], row[run.l], ord[run.l])
  BY <1>0, AtLevel DEF Unanswered, IInv, StageFits
<1>2. /\ (SetRow("KNOWN") /\ Landed(run.l)) \/ SetRow("UNKNOWN")
      /\ UNCHANGED <<plan, ord, old, stray, synced>>
  BY DEF Unanswered, Ctx
<1>3. LevelFits(plan[run.l], "UNKNOWN", ord[run.l]) /\ "UNKNOWN" \in RowStatus
  BY <1>1, RowFits DEF RowStatus
<1>4. Landed(run.l) => LevelFits(plan[run.l], "KNOWN", ord[run.l]) /\ "KNOWN" \in RowStatus
  BY <1>1, RowFits DEF RowStatus, Landed
<1> QED BY <1>0, <1>2, <1>3, <1>4, RowMoves

LEMMA BookRowFound == IInv /\ (RowFound \/ RowAged) => BookInv'
<1> SUFFICES ASSUME IInv, RowFound \/ RowAged PROVE BookInv'
  OBVIOUS
<1>1. /\ ~At("idle") /\ o = ord[run.l] /\ plan[run.l] \in PlanType /\ ord[run.l] \in OrderType
      /\ row[run.l] \in {"SUBMITTING", "UNKNOWN"}
      /\ LevelFits(plan[run.l], row[run.l], ord[run.l])
  BY Places, AtLevel DEF RowFound, RowAged, Settles
<1>2. UNCHANGED <<plan, ord, old, stray, synced>>
  BY DEF RowFound, RowAged, Ctx
<1>3. CASE RowFound
  <2>1. SetRow("KNOWN") /\ LevelFits(plan[run.l], "KNOWN", ord[run.l]) /\ "KNOWN" \in RowStatus
    BY <1>1, <1>3, RowFits DEF RowFound, Landed, RowStatus
  <2> QED BY <1>1, <1>2, <2>1, RowMoves
<1>4. CASE RowAged
  <2>1. ord[run.l].at \in {"refused", "banded", "lost"}
    BY <1>1, <1>4, RowFits DEF RowAged, Landed, OrderType
  <2>2. /\ SetRow("ABANDONED") /\ LevelFits(plan[run.l], "ABANDONED", ord[run.l])
        /\ "ABANDONED" \in RowStatus
    BY <1>1, <1>4, <2>1, RowFits DEF RowAged, RowStatus
  <2> QED BY <1>1, <1>2, <2>2, RowMoves
<1> QED BY <1>3, <1>4

LEMMA BookRetired == IInv /\ (RetireOrder \/ RowRejectedRetry \/ RowAbandoned) => BookInv'
<1> SUFFICES ASSUME IInv, RetireOrder \/ RowRejectedRetry \/ RowAbandoned PROVE BookInv'
  OBVIOUS
<1>1. ~At("idle")
  BY Places DEF RetireOrder, RowRejectedRetry, RowAbandoned, Settles, At
<1>2. /\ run.l \in Levels /\ tp = plan[run.l] /\ o = ord[run.l] /\ plan[run.l] \in PlanType
      /\ ord[run.l] \in OrderType /\ LevelFits(plan[run.l], row[run.l], ord[run.l])
  BY <1>1, AtLevel
<1>3. plan[run.l].want \in Nat /\ plan[run.l].fill \in Nat /\ ord[run.l].exec \in Nat
  BY <1>2 DEF PlanType, OrderType
<1>4. CASE RetireOrder
  <2>1. ord[run.l].at = "over" /\ ~Grown(run.l)
    BY <1>2, <1>4 DEF RetireOrder, IInv, StageFits
  <2>2. /\ plan' = [plan EXCEPT ![run.l] = [replanTP(plan[run.l]) EXCEPT !.qty = plan[run.l].want]]
        /\ Forget({run.l}, "replan") /\ synced' = synced
    BY <1>2, <1>4 DEF RetireOrder, SaveTP, Ctx
  <2>3. ord[run.l].at \notin OnBook
    BY <2>1 DEF OnBook
  <2> QED BY <1>2, <1>3, <2>1, <2>2, <2>3, LevelReplanned
<1>5. ASSUME NEW why \in {"rejected", "abandoned"}, row[run.l] \in {"REJECTED_RETRY", "ABANDONED"},
             plan' = [plan EXCEPT ![run.l] = replanTP(plan[run.l])], Forget({run.l}, why),
             synced' = synced
      PROVE  BookInv'
  <2>1. ord[run.l].at \in {"refused", "banded", "lost"} /\ ord[run.l].exec = 0
    BY <1>2, <1>5 DEF LevelFits
  <2>2. ord[run.l].at \notin OnBook /\ ~Grown(run.l)
    BY <1>3, <2>1 DEF OnBook, Grown
  <2> QED BY <1>2, <1>3, <1>5, <2>2, LevelReplanned
<1>6. CASE RowRejectedRetry
  <2>1. /\ row[run.l] \in {"REJECTED_RETRY", "ABANDONED"} /\ synced' = synced
        /\ plan' = [plan EXCEPT ![run.l] = replanTP(plan[run.l])] /\ Forget({run.l}, "rejected")
    BY <1>2, <1>6 DEF RowRejectedRetry, Settles, SaveTP, Ctx
  <2> QED BY <1>5, <2>1
<1>7. CASE RowAbandoned
  <2>1. /\ row[run.l] \in {"REJECTED_RETRY", "ABANDONED"} /\ synced' = synced
        /\ plan' = [plan EXCEPT ![run.l] = replanTP(plan[run.l])] /\ Forget({run.l}, "abandoned")
    BY <1>2, <1>7 DEF RowAbandoned, Settles, SaveTP, Ctx
  <2> QED BY <1>5, <2>1
<1> QED BY <1>4, <1>6, <1>7

\* Orders that are withdrawn, by the handlers, the owner or the venue.
LEMMA BookWithdrawn ==
    IInv /\ (WithdrawOrder \/ WithdrawOne \/ CancelLevel) => BookInv'
<1> SUFFICES ASSUME IInv, WithdrawOrder \/ WithdrawOne \/ CancelLevel PROVE BookInv'
  OBVIOUS
<1>1. PICK j \in Levels : (ord[j].at = "live" /\ SetOrder(j, "over")) \/ UNCHANGED ord
  <2>1. CASE WithdrawOrder \/ CancelLevel
    <3>1. run.l \in Levels /\ o = ord[run.l]
      BY <2>1, AtLevel DEF WithdrawOrder, CancelLevel, Cancelling, At
    <3> QED BY <2>1, <3>1 DEF WithdrawOrder, CancelLevel
  <2>2. CASE WithdrawOne
    <3>1. exit.lv \in Levels
      BY <2>2 DEF WithdrawOne, IInv, ExitFits, At
    <3> QED BY <2>2, <3>1 DEF WithdrawOne
  <2> QED BY <2>1, <2>2
<1>2. UNCHANGED <<plan, row, old, stray, synced>>
  BY DEF WithdrawOrder, WithdrawOne, CancelLevel, Ctx
<1>3. CASE UNCHANGED ord
  BY <1>2, <1>3, BookKept
<1>4. CASE ord[j].at = "live" /\ SetOrder(j, "over")
  BY <1>2, <1>4, OrderMoves DEF OrderStates
<1> QED BY <1>1, <1>3, <1>4

LEMMA BookMoves ==
    ASSUME IInv, NEW l \in Levels, Arrive(l) \/ OwnerCancels(l) PROVE BookInv'
<1>1. UNCHANGED <<plan, row, old, stray, synced>>
  BY DEF Arrive, OwnerCancels, Ctx
<1>2. \E at \in OrderStates :
         /\ SetOrder(l, at)
         /\ \/ ord[l].at = "live" /\ at = "over"
            \/ ord[l].at = "flying" /\ at \in {"live", "refused", "banded", "lost"}
  BY DEF Arrive, OwnerCancels, OrderStates
<1> QED BY <1>1, <1>2, OrderMoves

(* A plan whose levels are only marked.                                    *)
LEMMA BookSize == IInv /\ Size => BookInv'
<1> SUFFICES ASSUME IInv, Size PROVE BookInv'
  OBVIOUS
<1> DEFINE p == refreshTPProgress
<1>1. exit.lv \in Levels /\ UNCHANGED <<row, ord, old, stray, synced>>
  BY DEF Size, Book, IInv, ExitFits, At
<1>2. plan' = p \/ plan' = [p EXCEPT ![exit.lv].by = TRUE]
  BY DEF Size
<1>3. CASE plan' = p
  BY <1>1, <1>3, BookRefreshed
<1>4. CASE plan' = [p EXCEPT ![exit.lv].by = TRUE]
  <2> DEFINE t == p[exit.lv]
             t2 == [t EXCEPT !.by = TRUE]
  <2>1. /\ p \in [Levels -> PlanType]
        /\ \A l \in Levels :
                /\ LevelFits(p[l], row[l], ord[l])
                /\ p[l].want <= plan[l].want /\ p[l].prior = plan[l].prior
                /\ p[l].by = plan[l].by /\ (plan[l].done => p[l].done)
    BY PlanRefreshed DEF IInv
  <2> HIDE DEF p
  <2>2. /\ t2 \in PlanType /\ t2.cid = t.cid /\ t2.oid = t.oid /\ t2.fill = t.fill /\ t2.qty = t.qty
        /\ t2.done = t.done /\ t2.st = t.st /\ t2.by = TRUE /\ t2.want = t.want /\ t2.prior = t.prior
    BY <1>1, <2>1 DEF PlanType
  <2>3. plan' = [p EXCEPT ![exit.lv] = t2]
    BY <1>4
  <2> HIDE DEF t2
  <2>4. /\ plan' \in [Levels -> PlanType] /\ plan'[exit.lv] = t2
        /\ \A l \in Levels \ {exit.lv} : plan'[l] = p[l]
    BY <1>1, <2>1, <2>2, <2>3
  <2>5. \A l \in Levels : /\ LevelFits(plan'[l], row[l], ord[l])
                          /\ plan'[l].want <= plan[l].want /\ plan'[l].prior = plan[l].prior
                          /\ (plan[l].done => plan'[l].done) /\ (plan[l].by => plan'[l].by)
    <3> SUFFICES ASSUME NEW l \in Levels
                 PROVE  /\ LevelFits(plan'[l], row[l], ord[l])
                        /\ plan'[l].want <= plan[l].want /\ plan'[l].prior = plan[l].prior
                        /\ (plan[l].done => plan'[l].done) /\ (plan[l].by => plan'[l].by)
      OBVIOUS
    <3>1. CASE l # exit.lv
      BY <2>1, <2>4, <3>1
    <3>2. CASE l = exit.lv
      <4>1. LevelFits(t, row[l], ord[l])
        BY <2>1, <3>2
      <4>2. LevelFits(t2, row[l], ord[l])
        BY <2>2, <4>1, SameFit
      <4> QED BY <2>1, <2>2, <2>4, <3>2, <4>2
    <3> QED BY <3>1, <3>2
  <2>6. LevelsFit'
    BY <1>1, <2>5 DEF LevelsFit
  <2>7. WantFits' /\ PriorFits' /\ StraysFit'
    BY <1>1, <2>4, <2>5, WantLess, PriorKept DEF IInv, StraysFit
  <2> QED BY <1>1, <2>4, <2>6, <2>7 DEF BookInv, IInv, LadderTyped
<1> QED BY <1>2, <1>3, <1>4

LEMMA BookQueryExit == IInv /\ QueryExit => BookInv'
<1> SUFFICES ASSUME IInv, QueryExit PROVE BookInv'
  OBVIOUS
<1> DEFINE j == exit.lv
           t == plan[j]
           sold == exit.prior + exit.exec
           d == (t.done \/ t.fill + sold >= t.qty)
           t2 == [t EXCEPT !.repl = sold, !.done = d]
<1>0. ord \in [Levels -> OrderType] /\ plan \in [Levels -> PlanType] /\ row \in [Levels -> RowStatus]
  BY DEF IInv, LadderTyped
<1>1. /\ j \in Levels /\ t \in PlanType /\ LevelFits(t, row[j], ord[j])
      /\ ord[j].at \notin OnBook /\ exit \in ExitType
  BY <1>0 DEF QueryExit, At, IInv, ExitFits, LevelsFit, LadderTyped, Sent
<1>2. UNCHANGED <<row, ord, old, stray, synced>>
  BY DEF QueryExit, Book, Ctx
<1>3. plan' = plan \/ plan' = [plan EXCEPT ![j] = t2]
  BY Zenon DEF QueryExit
<1>4. CASE plan' = plan
  BY <1>2, <1>4, BookKept
<1>5. CASE plan' = [plan EXCEPT ![j] = t2]
  <2>1. sold \in Nat /\ d \in BOOLEAN /\ t.done \in BOOLEAN /\ (t.done => d)
    BY <1>1 DEF ExitType, PlanType
  <2> HIDE DEF sold, d, j, t
  <2>2. /\ t2 \in PlanType /\ t2.cid = t.cid /\ t2.oid = t.oid /\ t2.fill = t.fill /\ t2.qty = t.qty
        /\ (t.done => t2.done) /\ t2.st = t.st /\ t2.by = t.by /\ t2.want = t.want
        /\ t2.prior = t.prior
    BY <1>1, <2>1 DEF PlanType
  <2> HIDE DEF t2
  <2>3. /\ plan' \in [Levels -> PlanType] /\ plan'[j] = t2
        /\ \A l \in Levels \ {j} : plan'[l] = plan[l]
    BY <1>0, <1>1, <1>5, <2>2
  <2>4. LevelFits(t2, row[j], ord[j])
    BY <1>1, <2>2 DEF LevelFits
  <2>5. plan[j] = t /\ t.want \in Nat
    BY <1>1 DEF t, PlanType
  <2> QED BY <1>0, <1>1, <1>2, <2>2, <2>3, <2>4, <2>5, LevelChanges
<1> QED BY <1>3, <1>4, <1>5

LEMMA BookStrayFills == ASSUME IInv, NEW s \in stray, StrayFills(s) PROVE BookInv'
<1> DEFINE s2 == [s EXCEPT !.qty = @ - 1]
<1>1. /\ stray' = (stray \ {s}) \cup {s2} /\ UNCHANGED <<plan, row, ord, old, synced>>
      /\ s.qty > 0 /\ stray \subseteq StrayType
  BY DEF StrayFills, Ctx, IInv, LadderTyped
<1>2. s2 \in StrayType /\ s2.why = s.why /\ s2.lv = s.lv
  BY <1>1 DEF StrayType
<1> HIDE DEF s2
<1>3. stray' \subseteq StrayType
  BY <1>1, <1>2
<1>4. StraysFit'
  BY <1>1, <1>2 DEF IInv, StraysFit
<1>5. \A l \in Levels : Dropped(l) => Dropped(l)'
  BY <1>1, <1>2 DEF Dropped
<1>6. PriorFits'
  BY <1>1, <1>5 DEF IInv, PriorFits
<1>7. LevelsFit' /\ WantFits'
  BY <1>1, LevelsKept, WantKept DEF IInv
<1> QED BY <1>1, <1>3, <1>4, <1>6, <1>7 DEF BookInv, IInv, LadderTyped

LEMMA BookStep == IInv /\ [Next]_vars => BookInv'
<1> SUFFICES ASSUME IInv, [Next]_vars PROVE BookInv'
  OBVIOUS
<1>1. CASE StartPass
  BY <1>1, BookKept DEF StartPass, Book, Ctx
<1>2. CASE ReadPosition
  BY <1>2, BookKept DEF ReadPosition, Book, Ctx
<1>3. CASE Refresh
  BY <1>3, BookRefreshed DEF Refresh, Book, Ctx
<1>4. CASE Rescale
  BY <1>4, BookRescale
<1>5. CASE LevelStands
  BY <1>5, BookKept DEF LevelStands, Book, Ctx
<1>6. CASE FillChanged
  BY <1>6, BookRefreshed DEF FillChanged, Book, Ctx
<1>7. CASE ReplaceOrder
  BY <1>7, BookKept DEF ReplaceOrder, Book, Ctx
<1>8. CASE WithdrawOrder
  BY <1>8, BookWithdrawn
<1>9. CASE RetireOrder
  BY <1>9, BookRetired
<1>10. CASE BelowMinimum
  BY <1>10, BookBelowMinimum
<1>11. CASE HeldBack
  BY <1>11, BookKept DEF HeldBack, Book, Ctx
<1>12. CASE PlanOrder
  BY <1>12, BookPlanOrder
<1>13. CASE Submit
  BY <1>13, BookSubmit
<1>14. CASE Answered
  BY <1>14, BookAnswered
<1>15. CASE Unanswered
  BY <1>15, BookUnanswered
<1>16. CASE RowConfirmed
  BY <1>16, BookRowConfirmed
<1>17. CASE RowRejectedRetry
  BY <1>17, BookRetired
<1>18. CASE RowRejected
  BY <1>18, BookRowRejected
<1>19. CASE RowAbandoned
  BY <1>19, BookRetired
<1>20. CASE RowFound
  BY <1>20, BookRowFound
<1>21. CASE RowNotFound
  BY <1>21, BookKept DEF RowNotFound, Book, Ctx
<1>22. CASE RowAged
  BY <1>22, BookRowFound
<1>23. CASE Stamp
  BY <1>23, BookStamp
<1>24. CASE Finish
  BY <1>24, BookKept DEF Finish, Book, Ctx
<1>25. ASSUME NEW l \in Levels, BeginReduce(l) PROVE BookInv'
  BY <1>25, BookRefreshed DEF BeginReduce, Book, Ctx
<1>26. CASE Cover
  BY <1>26, BookRefreshed DEF Cover, Book, Ctx
<1>27. CASE WithdrawOne
  BY <1>27, BookWithdrawn
<1>28. CASE Size
  BY <1>28, BookSize
<1>29. CASE OrderExit
  BY <1>29, BookKept DEF OrderExit, Book, Ctx
<1>30. CASE SendExit
  BY <1>30, BookKept DEF SendExit, Book, Ctx
<1>31. CASE QueryExit
  BY <1>31, BookQueryExit
<1>32. CASE BeginUpdate
  BY <1>32, BookKept DEF BeginUpdate, Book, Ctx
<1>33. CASE SkipLevel
  BY <1>33, BookKept DEF SkipLevel, Book, Ctx
<1>34. CASE CancelLevel
  BY <1>34, BookWithdrawn
<1>35. CASE Cancelled
  BY <1>35, BookRefreshed, BookKept DEF Cancelled, Book, Ctx
<1>36. CASE Allocate
  BY <1>36, BookAllocate
<1>37. ASSUME NEW l \in Levels, Arrive(l) PROVE BookInv'
  BY <1>37, BookMoves
<1>38. ASSUME NEW l \in Levels, Fill(l) PROVE BookInv'
  BY <1>38, BookFill
<1>39. ASSUME NEW l \in Levels, OwnerCancels(l) PROVE BookInv'
  BY <1>39, BookMoves
<1>40. ASSUME NEW l \in Levels, PriceLeaves(l) PROVE BookInv'
  BY <1>40, BookKept DEF PriceLeaves, Book, Ctx
<1>41. ASSUME NEW l \in Levels, RetryDue(l) PROVE BookInv'
  BY <1>41, BookKept DEF RetryDue, Book, Ctx
<1>42. ASSUME NEW s \in stray, StrayFills(s) PROVE BookInv'
  BY <1>42, BookStrayFills
<1>43. CASE OwnerReduces
  BY <1>43, BookKept DEF OwnerReduces, Book, Ctx
<1>44. CASE ExitRuns
  BY <1>44, BookKept DEF ExitRuns, Book, Ctx
<1>45. CASE HandlerStops
  BY <1>45, BookKept DEF HandlerStops, Book, Ctx
<1>46. CASE UNCHANGED vars
  BY <1>46, BookKept DEF vars, Book, Ctx
<1> QED BY <1>1, <1>2, <1>3, <1>4, <1>5, <1>6, <1>7, <1>8, <1>9, <1>10, <1>11, <1>12, <1>13,
           <1>14, <1>15, <1>16, <1>17, <1>18, <1>19, <1>20, <1>21, <1>22, <1>23, <1>24, <1>25,
           <1>26, <1>27, <1>28, <1>29, <1>30, <1>31, <1>32, <1>33, <1>34, <1>35, <1>36, <1>37,
           <1>38, <1>39, <1>40, <1>41, <1>42, <1>43, <1>44, <1>45,
           <1>46 DEF Next, Pass, ExecuteTPReduction, updateTakeProfits,
           Environment

-----------------------------------------------------------------------------
(* The other types                                                         *)

RestTyped ==
    /\ pos \in 0 .. StartQty /\ synced \in 0 .. StartQty /\ upd \in {"", "CANCEL", "INSTALL"}
    /\ held \subseteq Levels /\ asks \subseteq Asks

LEMMA RestStep == IInv /\ [Next]_vars => RestTyped'
<1> SUFFICES ASSUME IInv, [Next]_vars PROVE RestTyped'
  OBVIOUS
<1>0. /\ pos \in 0 .. StartQty /\ synced \in 0 .. StartQty /\ upd \in {"", "CANCEL", "INSTALL"}
      /\ held \subseteq Levels /\ asks \subseteq Asks /\ run.q \in 0 .. StartQty /\ StartQty \in Nat
      /\ exit \in ExitType
  BY LevelsFacts DEF IInv, LadderTyped, RunType
<1>n. pos \in Nat /\ pos <= StartQty /\ StartQty \in Nat
  BY NumbersTyped DEF IInv
<1>1. CASE StartPass
  BY <1>1, <1>0 DEF StartPass, Ctx, Book, RestTyped
<1>2. CASE ReadPosition
  BY <1>2, <1>0 DEF ReadPosition, Ctx, Book, RestTyped
<1>3. CASE Refresh
  BY <1>3, <1>0 DEF Refresh, Ctx, Book, RestTyped
<1>4. CASE Rescale
  BY <1>4, <1>0 DEF Rescale, Ctx, Book, RestTyped
<1>5. CASE LevelStands
  BY <1>5, <1>0 DEF LevelStands, Ctx, Book, RestTyped
<1>6. CASE FillChanged
  BY <1>6, <1>0 DEF FillChanged, Ctx, Book, RestTyped
<1>7. CASE ReplaceOrder
  BY <1>7, <1>0 DEF ReplaceOrder, Ctx, Book, RestTyped
<1>8. CASE WithdrawOrder
  BY <1>8, <1>0 DEF WithdrawOrder, Ctx, Book, RestTyped
<1>9. CASE RetireOrder
  BY <1>9, <1>0 DEF RetireOrder, Ctx, Book, RestTyped
<1>10. CASE BelowMinimum
  BY <1>10, <1>0 DEF BelowMinimum, Ctx, Book, RestTyped
<1>11. CASE HeldBack
  BY <1>11, <1>0 DEF HeldBack, Ctx, Book, RestTyped
<1>12. CASE PlanOrder
  BY <1>12, <1>0 DEF PlanOrder, Ctx, Book, RestTyped
<1>13. CASE Submit
  BY <1>13, <1>0 DEF Submit, Ctx, Book, RestTyped
<1>14. CASE Answered
  BY <1>14, <1>0 DEF Answered, Ctx, Book, RestTyped
<1>15. CASE Unanswered
  BY <1>15, <1>0 DEF Unanswered, Ctx, Book, RestTyped
<1>16. CASE RowConfirmed
  BY <1>16, <1>0 DEF RowConfirmed, Ctx, Book, RestTyped
<1>17. CASE RowRejectedRetry
  BY <1>17, <1>0, Places, AtLevel DEF RowRejectedRetry, Settles, Ctx, Book, RestTyped
<1>18. CASE RowRejected
  BY <1>18, <1>0 DEF RowRejected, Ctx, Book, RestTyped
<1>19. CASE RowAbandoned
  BY <1>19, <1>0 DEF RowAbandoned, Ctx, Book, RestTyped
<1>20. CASE RowFound
  BY <1>20, <1>0 DEF RowFound, Ctx, Book, RestTyped
<1>21. CASE RowNotFound
  BY <1>21, <1>0 DEF RowNotFound, Ctx, Book, RestTyped
<1>22. CASE RowAged
  BY <1>22, <1>0 DEF RowAged, Ctx, Book, RestTyped
<1>23. CASE Stamp
  BY <1>23, <1>0 DEF Stamp, Ctx, Book, RestTyped
<1>24. CASE Finish
  BY <1>24, <1>0 DEF Finish, Ctx, Book, RestTyped
<1>25. ASSUME NEW l \in Levels, BeginReduce(l) PROVE RestTyped'
  BY <1>25, <1>0 DEF BeginReduce, Ctx, Book, RestTyped
<1>26. CASE Cover
  BY <1>26, <1>0 DEF Cover, Ctx, Book, RestTyped
<1>27. CASE WithdrawOne
  BY <1>27, <1>0 DEF WithdrawOne, Ctx, Book, RestTyped
<1>28. CASE Size
  BY <1>28, <1>0 DEF Size, Ctx, Book, RestTyped
<1>29. CASE OrderExit
  BY <1>29, <1>0 DEF OrderExit, Ctx, Book, RestTyped
<1>30. CASE SendExit
  BY <1>30, <1>0 DEF SendExit, Ctx, Book, RestTyped
<1>31. CASE QueryExit
  BY <1>31, <1>0 DEF QueryExit, Ctx, Book, RestTyped
<1>32. CASE BeginUpdate
  BY <1>32, <1>0 DEF BeginUpdate, Ctx, Book, RestTyped
<1>33. CASE SkipLevel
  BY <1>33, <1>0 DEF SkipLevel, Ctx, Book, RestTyped
<1>34. CASE CancelLevel
  BY <1>34, <1>0 DEF CancelLevel, Ctx, Book, RestTyped
<1>35. CASE Cancelled
  BY <1>35, <1>0 DEF Cancelled, Ctx, Book, RestTyped
<1>36. CASE Allocate
  <2>1. synced' \in {synced, pos} /\ upd' \in {upd, "", "INSTALL"} /\ UNCHANGED <<pos, held, asks>>
    BY <1>36 DEF Allocate
  <2> QED BY <1>0, <2>1 DEF RestTyped
<1>37. ASSUME NEW l \in Levels, Arrive(l) PROVE RestTyped'
  BY <1>37, <1>0 DEF Arrive, Ctx, Book, RestTyped
<1>38. ASSUME NEW l \in Levels, Fill(l) PROVE RestTyped'
  <2>1. pos > 0 /\ pos' = pos - 1 /\ UNCHANGED <<synced, upd, held, asks>>
    BY <1>38 DEF Fill, Ctx, Book
  <2>2. pos' \in 0 .. StartQty
    BY <1>n, <2>1
  <2> QED BY <1>0, <2>1, <2>2 DEF RestTyped
<1>39. ASSUME NEW l \in Levels, OwnerCancels(l) PROVE RestTyped'
  BY <1>39, <1>0 DEF OwnerCancels, Ctx, Book, RestTyped
<1>40. ASSUME NEW l \in Levels, PriceLeaves(l) PROVE RestTyped'
  BY <1>40, <1>0 DEF PriceLeaves, Ctx, Book, RestTyped
<1>41. ASSUME NEW l \in Levels, RetryDue(l) PROVE RestTyped'
  BY <1>41, <1>0 DEF RetryDue, Ctx, Book, RestTyped
<1>42. ASSUME NEW s \in stray, StrayFills(s) PROVE RestTyped'
  <2>1. pos > 0 /\ pos' = pos - 1 /\ UNCHANGED <<synced, upd, held, asks>>
    BY <1>42 DEF StrayFills, Ctx, Book
  <2>2. pos' \in 0 .. StartQty
    BY <1>n, <2>1
  <2> QED BY <1>0, <2>1, <2>2 DEF RestTyped
<1>43. CASE OwnerReduces
  <2>1. pos > 0 /\ pos' = pos - 1 /\ UNCHANGED <<synced, upd, held, asks>>
    BY <1>43 DEF OwnerReduces, Ctx, Book
  <2>2. pos' \in 0 .. StartQty
    BY <1>n, <2>1
  <2> QED BY <1>0, <2>1, <2>2 DEF RestTyped
<1>44. CASE ExitRuns
  <2>1. PICK e \in 0 .. Least(exit.qty, pos) : pos' = pos - e
    BY <1>44 DEF ExitRuns
  <2>2. exit.qty \in Nat
    BY <1>0 DEF ExitType
  <2>3. e \in Nat /\ e <= pos
    BY <1>n, <2>2 DEF Least
  <2>4. pos' \in 0 .. StartQty
    BY <1>n, <2>1, <2>3
  <2> QED BY <1>44, <1>0, <2>4 DEF ExitRuns, Ctx, Book, RestTyped
<1>45. CASE HandlerStops
  BY <1>45, <1>0 DEF HandlerStops, Ctx, Book, RestTyped
<1>46. CASE UNCHANGED vars
  BY <1>46, <1>0 DEF vars, RestTyped
<1> QED BY <1>1, <1>2, <1>3, <1>4, <1>5, <1>6, <1>7, <1>8, <1>9, <1>10, <1>11, <1>12, <1>13,
           <1>14, <1>15, <1>16, <1>17, <1>18, <1>19, <1>20, <1>21, <1>22, <1>23, <1>24, <1>25,
           <1>26, <1>27, <1>28, <1>29, <1>30, <1>31, <1>32, <1>33, <1>34, <1>35, <1>36, <1>37,
           <1>38, <1>39, <1>40, <1>41, <1>42, <1>43, <1>44, <1>45,
           <1>46 DEF Next, Pass, ExecuteTPReduction, updateTakeProfits,
           Environment

LEMMA ExitStep == IInv /\ [Next]_vars => exit' \in ExitType
<1> SUFFICES ASSUME IInv, [Next]_vars PROVE exit' \in ExitType
  OBVIOUS
<1>0. /\ exit \in ExitType /\ pos \in Nat /\ run.q \in Nat /\ NoExit \in ExitType
  <2>1. exit \in ExitType /\ pos \in 0 .. StartQty /\ run.q \in 0 .. StartQty /\ StartQty \in Nat
    BY LevelsFacts DEF IInv, LadderTyped, RunType
  <2> QED BY <2>1 DEF NoExit, ExitType
<1>1. CASE StartPass
  BY <1>1, <1>0 DEF StartPass, Ctx, Book
<1>2. CASE ReadPosition
  BY <1>2, <1>0 DEF ReadPosition, Ctx, Book
<1>3. CASE Refresh
  BY <1>3, <1>0 DEF Refresh, Ctx, Book
<1>4. CASE Rescale
  BY <1>4, <1>0 DEF Rescale, Ctx, Book
<1>5. CASE LevelStands
  BY <1>5, <1>0 DEF LevelStands, Ctx, Book
<1>6. CASE FillChanged
  BY <1>6, <1>0 DEF FillChanged, Ctx, Book
<1>7. CASE ReplaceOrder
  BY <1>7, <1>0 DEF ReplaceOrder, Ctx, Book
<1>8. CASE WithdrawOrder
  BY <1>8, <1>0 DEF WithdrawOrder, Ctx, Book
<1>9. CASE RetireOrder
  BY <1>9, <1>0 DEF RetireOrder, Ctx, Book
<1>10. CASE BelowMinimum
  BY <1>10, <1>0 DEF BelowMinimum, Ctx, Book
<1>11. CASE HeldBack
  BY <1>11, <1>0 DEF HeldBack, Ctx, Book
<1>12. CASE PlanOrder
  BY <1>12, <1>0 DEF PlanOrder, Ctx, Book
<1>13. CASE Submit
  BY <1>13, <1>0 DEF Submit, Ctx, Book
<1>14. CASE Answered
  BY <1>14, <1>0 DEF Answered, Ctx, Book
<1>15. CASE Unanswered
  BY <1>15, <1>0 DEF Unanswered, Ctx, Book
<1>16. CASE RowConfirmed
  BY <1>16, <1>0 DEF RowConfirmed, Ctx, Book
<1>17. CASE RowRejectedRetry
  BY <1>17, <1>0 DEF RowRejectedRetry, Ctx, Book
<1>18. CASE RowRejected
  BY <1>18, <1>0 DEF RowRejected, Ctx, Book
<1>19. CASE RowAbandoned
  BY <1>19, <1>0 DEF RowAbandoned, Ctx, Book
<1>20. CASE RowFound
  BY <1>20, <1>0 DEF RowFound, Ctx, Book
<1>21. CASE RowNotFound
  BY <1>21, <1>0 DEF RowNotFound, Ctx, Book
<1>22. CASE RowAged
  BY <1>22, <1>0 DEF RowAged, Ctx, Book
<1>23. CASE Stamp
  BY <1>23, <1>0 DEF Stamp, Ctx, Book
<1>24. CASE Finish
  <2> DEFINE q == Least(run.q, Outstanding)
             prior == exit.prior + exit.exec
             tries == exit.tries + 1
  <2>1. \/ exit' = exit \/ exit' = NoExit
        \/ /\ Outstanding > 0
           /\ exit' = [exit EXCEPT !.st = "planned", !.qty = q, !.exec = 0, !.prior = prior, !.tries = tries]
    BY <1>24 DEF Finish
  <2>2. Outstanding > 0 => q \in Nat
    BY <1>0 DEF Least, Outstanding, ExitType
  <2>3. prior \in Nat /\ tries \in Nat
    BY <1>0 DEF ExitType
  <2> HIDE DEF q, prior, tries
  <2>4. ASSUME Outstanding > 0,
               exit' = [exit EXCEPT !.st = "planned", !.qty = q, !.exec = 0, !.prior = prior, !.tries = tries]
        PROVE  exit' \in ExitType
    <3>1. exit \in ExitType /\ q \in Nat /\ 0 \in Nat
      BY <1>0, <2>2, <2>4
    <3> QED BY <3>1, <2>3, <2>4 DEF ExitType
  <2> QED BY <1>0, <2>1, <2>4
<1>25. ASSUME NEW l \in Levels, BeginReduce(l) PROVE exit' \in ExitType
  <2>1. exit' = exit \/ exit' = [NoExit EXCEPT !.lv = l, !.st = "intent"]
    BY <1>25 DEF BeginReduce
  <2> QED BY <1>0, <2>1 DEF NoExit, ExitType
<1>26. CASE Cover
  BY <1>26, <1>0 DEF Cover, Ctx, Book
<1>27. CASE WithdrawOne
  BY <1>27, <1>0 DEF WithdrawOne, Ctx, Book
<1>28. CASE Size
  <2>1. exit' \in {exit, NoExit}
    BY <1>28 DEF Size
  <2> QED BY <1>0, <2>1
<1>29. CASE OrderExit
  BY <1>29, <1>0 DEF OrderExit, ExitType
<1>30. CASE SendExit
  BY <1>30, <1>0 DEF SendExit, ExitType
<1>31. CASE QueryExit
  BY <1>31, <1>0 DEF QueryExit, Ctx, Book
<1>32. CASE BeginUpdate
  BY <1>32, <1>0 DEF BeginUpdate, Ctx, Book
<1>33. CASE SkipLevel
  BY <1>33, <1>0 DEF SkipLevel, Ctx, Book
<1>34. CASE CancelLevel
  BY <1>34, <1>0 DEF CancelLevel, Ctx, Book
<1>35. CASE Cancelled
  BY <1>35, <1>0 DEF Cancelled, Ctx, Book
<1>36. CASE Allocate
  BY <1>36, <1>0 DEF Allocate, Ctx, Book
<1>37. ASSUME NEW l \in Levels, Arrive(l) PROVE exit' \in ExitType
  BY <1>37, <1>0 DEF Arrive, Ctx, Book
<1>38. ASSUME NEW l \in Levels, Fill(l) PROVE exit' \in ExitType
  BY <1>38, <1>0 DEF Fill, Ctx, Book
<1>39. ASSUME NEW l \in Levels, OwnerCancels(l) PROVE exit' \in ExitType
  BY <1>39, <1>0 DEF OwnerCancels, Ctx, Book
<1>40. ASSUME NEW l \in Levels, PriceLeaves(l) PROVE exit' \in ExitType
  BY <1>40, <1>0 DEF PriceLeaves, Ctx, Book
<1>41. ASSUME NEW l \in Levels, RetryDue(l) PROVE exit' \in ExitType
  BY <1>41, <1>0 DEF RetryDue, Ctx, Book
<1>42. ASSUME NEW s \in stray, StrayFills(s) PROVE exit' \in ExitType
  BY <1>42, <1>0 DEF StrayFills, Ctx, Book
<1>43. CASE OwnerReduces
  BY <1>43, <1>0 DEF OwnerReduces, Ctx, Book
<1>44. CASE ExitRuns
  <2>1. PICK e \in 0 .. Least(exit.qty, pos) : exit' = [exit EXCEPT !.st = "over", !.exec = e]
    BY <1>44 DEF ExitRuns
  <2>2. e \in Nat
    BY <1>0 DEF Least, ExitType
  <2> QED BY <1>0, <2>1, <2>2 DEF ExitType
<1>45. CASE HandlerStops
  BY <1>45, <1>0 DEF HandlerStops, Ctx, Book
<1>46. CASE UNCHANGED vars
  BY <1>46, <1>0 DEF vars
<1> QED BY <1>1, <1>2, <1>3, <1>4, <1>5, <1>6, <1>7, <1>8, <1>9, <1>10, <1>11, <1>12, <1>13,
           <1>14, <1>15, <1>16, <1>17, <1>18, <1>19, <1>20, <1>21, <1>22, <1>23, <1>24, <1>25,
           <1>26, <1>27, <1>28, <1>29, <1>30, <1>31, <1>32, <1>33, <1>34, <1>35, <1>36, <1>37,
           <1>38, <1>39, <1>40, <1>41, <1>42, <1>43, <1>44, <1>45,
           <1>46 DEF Next, Pass, ExecuteTPReduction, updateTakeProfits,
           Environment

-----------------------------------------------------------------------------
(* The stages of the handlers                                              *)

\* Where the handler is after a step.
LEMMA Moves ==
    ASSUME LadderTyped
    PROVE  /\ \A pc : Goto(pc) => /\ run'.pc = pc /\ run'.l = run.l /\ run'.q = run.q
                                  /\ run'.op = run.op
           /\ \A op, pc : Begin(op, pc) => run'.pc = pc /\ run'.l \in Levels /\ run'.op = op
           /\ Leave => run'.pc = "idle" /\ run'.op = "none"
           /\ NextLevel => /\ run'.pc \in {"level", "stamp"} /\ run'.q = run.q /\ run'.op = run.op
                           /\ run'.l \in {run.l} \cup Levels
           /\ NextCancel => /\ run'.pc \in {"cancel", "allocate"} /\ run'.q = run.q
                            /\ run'.op = run.op /\ run'.l \in {run.l} \cup Levels
<1>1. run \in RunType /\ 1 \in Levels
  BY LevelsFacts DEF LadderTyped
<1>2. \A pc : Goto(pc) => /\ run'.pc = pc /\ run'.l = run.l /\ run'.q = run.q /\ run'.op = run.op
  BY <1>1 DEF Goto, RunType
<1>3. \A op, pc : Begin(op, pc) => run'.pc = pc /\ run'.l \in Levels /\ run'.op = op
  BY <1>1 DEF Begin
<1>4. Leave => run'.pc = "idle" /\ run'.op = "none"
  BY DEF Leave, NoRun
<1>5. NextLevel => /\ run'.pc \in {"level", "stamp"} /\ run'.q = run.q /\ run'.op = run.op
                  /\ run'.l \in {run.l} \cup Levels
  BY <1>1 DEF NextLevel, RunType
<1>6. NextCancel => /\ run'.pc \in {"cancel", "allocate"} /\ run'.q = run.q
                   /\ run'.op = run.op /\ run'.l \in {run.l} \cup Levels
  BY <1>1 DEF NextCancel, RunType
<1> QED BY <1>2, <1>3, <1>4, <1>5, <1>6

\* The stages of which StageFits says only that there is a level.
Unscaled == {"position", "cancel", "cancelled", "allocate", "cover", "withdrawOne", "size", "order",
             "send", "query"}

LEMMA Quiet == run'.pc = "idle" \/ (run'.l \in Levels /\ run'.pc \in Unscaled) => StageFits'
BY DEF Unscaled, StageFits, At, Placing, Scaled

LEMMA Frame == IInv /\ UNCHANGED <<run, plan, synced, row, ord>> => StageFits'
BY DEF IInv, StageFits, At, Open

LEMMA StageStep == IInv /\ [Next]_vars => StageFits'
<1> SUFFICES ASSUME IInv, [Next]_vars PROVE StageFits'
  OBVIOUS
<1>0. /\ run \in RunType /\ 1 \in Levels /\ pos \in Nat /\ plan \in [Levels -> PlanType]
      /\ ord \in [Levels -> OrderType] /\ row \in [Levels -> RowStatus]
  BY LevelsFacts, NumbersTyped DEF IInv, LadderTyped
<1>s. StageFits
  BY DEF IInv
<1>p. AtPlace => synced = run.q /\ run.q > 0 /\ ~At("idle")
  BY <1>s DEF AtPlace, StageFits, Scaled, Placing, At
<1>m. /\ \A pc : Goto(pc) => /\ run'.pc = pc /\ run'.l = run.l /\ run'.q = run.q
                             /\ run'.op = run.op
      /\ \A op, pc : Begin(op, pc) => run'.pc = pc /\ run'.l \in Levels /\ run'.op = op
      /\ Leave => run'.pc = "idle" /\ run'.op = "none"
      /\ NextLevel => /\ run'.pc \in {"level", "stamp"} /\ run'.q = run.q /\ run'.op = run.op
                      /\ run'.l \in {run.l} \cup Levels
      /\ NextCancel => /\ run'.pc \in {"cancel", "allocate"} /\ run'.q = run.q
                       /\ run'.op = run.op /\ run'.l \in {run.l} \cup Levels
  BY Moves DEF IInv
<1>1. CASE StartPass
  <2>1. \E w \in {"pass", "update", "exit"}, pc \in {"cancel", "position", "cover", "query"} :
           run' = [op |-> w, pc |-> pc, l |-> 1, q |-> 0]
    BY <1>1 DEF StartPass, Begin
  <2>2. run'.l \in Levels /\ run'.pc \in Unscaled
    BY <1>0, <2>1 DEF Unscaled
  <2> QED BY <2>2, Quiet
<1>2. CASE ReadPosition
  <2>1. \/ run' = NoRun
        \/ pos > 0 /\ run' = [run EXCEPT !.pc = "refresh", !.q = pos]
    BY <1>2 DEF ReadPosition, Leave
  <2>2. run.l \in Levels
    BY <1>2, <1>s DEF ReadPosition, StageFits, At
  <2>3. CASE run' = NoRun
    <3>1. run'.pc = "idle"
      BY <2>3 DEF NoRun
    <3> QED BY <3>1, Quiet
  <2>4. CASE pos > 0 /\ run' = [run EXCEPT !.pc = "refresh", !.q = pos]
    <3>1. run'.pc = "refresh" /\ run'.q > 0 /\ run'.l \in Levels
      BY <1>0, <2>2, <2>4 DEF RunType
    <3> QED BY <3>1 DEF StageFits, At, Placing, Scaled
  <2> QED BY <2>1, <2>3, <2>4
<1>3. CASE Refresh
  BY <1>3, <1>m, <1>s, <1>0 DEF Refresh, StageFits, At, Placing, Scaled, Ctx, Book, Open
<1>4. CASE Rescale
  <2>1. /\ run' \in {[run EXCEPT !.pc = "finish"], [run EXCEPT !.pc = "level", !.l = 1]}
        /\ run'.pc = "level" => synced' = run.q
    BY <1>0, <1>4 DEF Rescale, Goto, RunType
  <2>2. run.l \in Levels /\ run.q > 0
    BY <1>4, <1>s DEF Rescale, StageFits, At
  <2>3. run'.pc \in {"finish", "level"} /\ run'.l \in Levels /\ run'.q = run.q
    BY <1>0, <2>1, <2>2 DEF RunType
  <2> QED BY <2>1, <2>2, <2>3 DEF StageFits, At, Placing, Scaled
<1>5. CASE LevelStands
  BY <1>5, <1>m, <1>s, <1>0 DEF LevelStands, StageFits, At, Placing, Scaled, Ctx, Book, Open
<1>6. CASE FillChanged
  BY <1>6, <1>m, <1>s, <1>0 DEF FillChanged, StageFits, At, Placing, Scaled, Ctx, Book, Open
<1>7. CASE ReplaceOrder
  BY <1>7, <1>m, <1>s, <1>0 DEF ReplaceOrder, StageFits, At, Placing, Scaled, Ctx, Book, Open
<1>8. CASE WithdrawOrder
  <2>1. o.at = "live" => ord'[run.l].at = "over"
    BY <1>8, <1>0, <1>s, AtLevel DEF WithdrawOrder, SetOrder, OrderType, At
  <2> QED BY <1>8, <1>m, <1>s, <2>1 DEF WithdrawOrder, StageFits, At, Placing, Scaled, Ctx, Book, Open
<1>9. CASE RetireOrder
  <2>1. /\ plan[run.l] \in PlanType /\ tp = plan[run.l] /\ run.l \in Levels
        /\ plan' = [plan EXCEPT ![run.l] = [replanTP(plan[run.l]) EXCEPT !.qty = plan[run.l].want]]
    BY <1>9, AtLevel DEF RetireOrder, At, SaveTP
  <2>2. plan[run.l].want \in Nat
    BY <2>1 DEF PlanType
  <2> DEFINE t2 == [replanTP(plan[run.l]) EXCEPT !.qty = plan[run.l].want]
  <2>3. t2.done = plan[run.l].done /\ t2.by = plan[run.l].by
    BY <2>1, <2>2, Replanned
  <2> HIDE DEF t2
  <2>4. plan'[run.l] = t2
    BY <1>0, <2>1 DEF t2
  <2>5. run.l \in Open(plan)
    BY <1>9 DEF RetireOrder, IInv, StageFits, At, Placing
  <2>6. run.l \in Open(plan')
    BY <2>1, <2>3, <2>4, <2>5 DEF Open
  <2> QED BY <1>9, <1>m, <1>s, <2>6 DEF RetireOrder, StageFits, At, Placing, Scaled, Ctx
<1>10. CASE BelowMinimum
  <2>1. run.l \in Open(plan) /\ run.l \in Levels /\ synced = run.q /\ run.q > 0 /\ ~At("idle")
    BY <1>10, <1>p, Places, AtLevel DEF BelowMinimum, Settles
  <2>2. synced' = synced
    BY <1>10 DEF BelowMinimum, Ctx, Book
  <2> QED BY <1>10, <1>m, <2>1, <2>2 DEF BelowMinimum, StageFits, At, Placing, Scaled, Open
<1>11. CASE HeldBack
  <2>1. run.l \in Open(plan) /\ run.l \in Levels /\ synced = run.q /\ run.q > 0 /\ ~At("idle")
    BY <1>11, <1>p, Places, AtLevel DEF HeldBack, Settles
  <2>2. synced' = synced
    BY <1>11 DEF HeldBack, Ctx, Book
  <2> QED BY <1>11, <1>m, <2>1, <2>2 DEF HeldBack, StageFits, At, Placing, Scaled, Open
<1>12. CASE PlanOrder
  <2>1. /\ plan[run.l] \in PlanType /\ tp = plan[run.l] /\ run.l \in Open(plan) /\ run.l \in Levels
        /\ plan' = [plan EXCEPT ![run.l] = [plan[run.l] EXCEPT !.cid = TRUE, !.qty = plan[run.l].want]]
    BY <1>12, Places, AtLevel DEF PlanOrder, SaveTP
  <2>2. plan'[run.l].done = plan[run.l].done /\ plan'[run.l].by = plan[run.l].by
    BY <1>0, <2>1 DEF PlanType
  <2>6. run.l \in Open(plan')
    BY <2>1, <2>2 DEF Open
  <2>7. synced = run.q /\ run.q > 0 /\ ~At("idle")
    BY <1>12, <1>p DEF PlanOrder
  <2> QED BY <1>12, <1>m, <2>1, <2>6, <2>7 DEF PlanOrder, StageFits, At, Placing, Scaled, Ctx
<1>13. CASE Submit
  <2>1. run.l \in Open(plan) /\ run.l \in Levels /\ synced = run.q /\ run.q > 0 /\ ~At("idle")
    BY <1>13, <1>p, Places, AtLevel DEF Submit, Settles
  <2>2. row'[run.l] = "SUBMITTING" /\ plan' = plan /\ synced' = synced
    BY <1>13, <1>0, <2>1 DEF Submit, SetRow, Ctx
  <2> QED BY <1>13, <1>m, <2>1, <2>2 DEF Submit, StageFits, At, Placing, Scaled, Open
<1>14. CASE Answered
  BY <1>14, <1>m, <1>s, <1>0 DEF Answered, StageFits, At, Placing, Scaled, Ctx, Book, Open
<1>15. CASE Unanswered
  BY <1>15, <1>m, <1>s, <1>0 DEF Unanswered, StageFits, At, Placing, Scaled, Ctx, Book, Open
<1>16. CASE RowConfirmed
  <2>1. run.l \in Open(plan) /\ run.l \in Levels /\ synced = run.q /\ run.q > 0 /\ ~At("idle")
    BY <1>16, <1>p, Places, AtLevel DEF RowConfirmed, Settles
  <2>2. synced' = synced
    BY <1>16 DEF RowConfirmed, Ctx, Book
  <2> QED BY <1>16, <1>m, <2>1, <2>2 DEF RowConfirmed, StageFits, At, Placing, Scaled, Open
<1>17. CASE RowRejectedRetry
  <2>1. run.l \in Open(plan) /\ run.l \in Levels /\ synced = run.q /\ run.q > 0 /\ ~At("idle")
    BY <1>17, <1>p, Places, AtLevel DEF RowRejectedRetry, Settles
  <2>2. synced' = synced
    BY <1>17 DEF RowRejectedRetry, Ctx, Book
  <2> QED BY <1>17, <1>m, <2>1, <2>2 DEF RowRejectedRetry, StageFits, At, Placing, Scaled, Open
<1>18. CASE RowRejected
  <2>1. run.l \in Open(plan) /\ run.l \in Levels /\ synced = run.q /\ run.q > 0 /\ ~At("idle")
    BY <1>18, <1>p, Places, AtLevel DEF RowRejected, Settles
  <2>2. synced' = synced
    BY <1>18 DEF RowRejected, Ctx, Book
  <2> QED BY <1>18, <1>m, <2>1, <2>2 DEF RowRejected, StageFits, At, Placing, Scaled, Open
<1>19. CASE RowAbandoned
  <2>1. /\ plan[run.l] \in PlanType /\ tp = plan[run.l] /\ run.l \in Open(plan) /\ run.l \in Levels
        /\ plan' = [plan EXCEPT ![run.l] = replanTP(plan[run.l])]
    BY <1>19, Places, AtLevel DEF RowAbandoned, Settles, SaveTP
  <2> DEFINE t2 == replanTP(plan[run.l])
  <2>3. t2.done = plan[run.l].done /\ t2.by = plan[run.l].by
    BY <2>1, Replanned
  <2> HIDE DEF t2
  <2>4. plan'[run.l] = t2
    BY <1>0, <2>1 DEF t2
  <2>6. run.l \in Open(plan')
    BY <2>1, <2>3, <2>4 DEF Open
  <2>7. synced = run.q /\ run.q > 0 /\ ~At("idle")
    BY <1>19, <1>p DEF RowAbandoned, Settles
  <2> QED BY <1>19, <1>m, <2>1, <2>6, <2>7 DEF RowAbandoned, Settles, StageFits, At, Placing, Scaled, Ctx
<1>20. CASE RowFound
  <2>1. run.l \in Open(plan) /\ run.l \in Levels /\ synced = run.q /\ run.q > 0 /\ ~At("idle")
    BY <1>20, <1>p, Places, AtLevel DEF RowFound, Settles
  <2>2. synced' = synced
    BY <1>20 DEF RowFound, Ctx, Book
  <2> QED BY <1>20, <1>m, <2>1, <2>2 DEF RowFound, StageFits, At, Placing, Scaled, Open
<1>21. CASE RowNotFound
  <2>1. run.l \in Open(plan) /\ run.l \in Levels /\ synced = run.q /\ run.q > 0 /\ ~At("idle")
    BY <1>21, <1>p, Places, AtLevel DEF RowNotFound, Settles
  <2>2. synced' = synced
    BY <1>21 DEF RowNotFound, Ctx, Book
  <2> QED BY <1>21, <1>m, <2>1, <2>2 DEF RowNotFound, StageFits, At, Placing, Scaled, Open
<1>22. CASE RowAged
  <2>1. run.l \in Open(plan) /\ run.l \in Levels /\ synced = run.q /\ run.q > 0 /\ ~At("idle")
    BY <1>22, <1>p, Places, AtLevel DEF RowAged, Settles
  <2>2. synced' = synced
    BY <1>22 DEF RowAged, Ctx, Book
  <2> QED BY <1>22, <1>m, <2>1, <2>2 DEF RowAged, StageFits, At, Placing, Scaled, Open
<1>23. CASE Stamp
  BY <1>23, <1>m, <1>s, <1>0 DEF Stamp, StageFits, At, Placing, Scaled, Ctx, Book, Open
<1>24. CASE Finish
  <2>1. run' \in {NoRun, [run EXCEPT !.op = "exit", !.pc = "send"],
                  [run EXCEPT !.op = "undo", !.pc = "position"]}
    BY <1>24, Zenon DEF Finish, Leave
  <2>2. run.l \in Levels
    BY <1>24, <1>s DEF Finish, StageFits, At
  <2>3. CASE run' = NoRun
    <3>1. run'.pc = "idle"
      BY <2>3 DEF NoRun
    <3> QED BY <3>1, Quiet
  <2>4. CASE run' = [run EXCEPT !.op = "exit", !.pc = "send"]
    <3>1. run'.pc = "send" /\ run'.l = run.l
      BY <1>0, <2>4 DEF RunType
    <3> QED BY <2>2, <3>1, Quiet DEF Unscaled
  <2>5. CASE run' = [run EXCEPT !.op = "undo", !.pc = "position"]
    <3>1. run'.pc = "position" /\ run'.l = run.l
      BY <1>0, <2>5 DEF RunType
    <3> QED BY <2>2, <3>1, Quiet DEF Unscaled
  <2> QED BY <2>1, <2>3, <2>4, <2>5
<1>25. ASSUME NEW l \in Levels, BeginReduce(l) PROVE StageFits'
  <2>1. \/ run' = run
        \/ run' = [op |-> "exit", pc |-> "cover", l |-> 1, q |-> 0]
    BY <1>25 DEF BeginReduce, Begin
  <2>2. run' = run => run'.pc = "idle"
    BY <1>25 DEF BeginReduce, At
  <2>3. run' # run => run'.l \in Levels /\ run'.pc \in Unscaled
    BY <1>0, <2>1 DEF Unscaled
  <2> QED BY <2>2, <2>3, Quiet
<1>26. CASE Cover
  BY <1>26, <1>m, <1>s, <1>0 DEF Cover, StageFits, At, Placing, Scaled, Ctx, Book, Open
<1>27. CASE WithdrawOne
  BY <1>27, <1>m, <1>s, <1>0 DEF WithdrawOne, StageFits, At, Placing, Scaled, Ctx, Book, Open
<1>28. CASE Size
  <2>1. \/ run' = NoRun \/ run' = [run EXCEPT !.op = "undo", !.pc = "position"]
        \/ run' = [run EXCEPT !.pc = "order", !.q = Least(Rest(refreshTPProgress[exit.lv]), pos)]
    BY <1>28 DEF Size, Leave
  <2>2. run.l \in Levels
    BY <1>28, <1>s DEF Size, StageFits, At
  <2>3. CASE run' = NoRun
    <3>1. run'.pc = "idle"
      BY <2>3 DEF NoRun
    <3> QED BY <3>1, Quiet
  <2>4. CASE run' = [run EXCEPT !.pc = "order", !.q = Least(Rest(refreshTPProgress[exit.lv]), pos)]
    <3>1. run'.pc = "order" /\ run'.l = run.l
      BY <1>0, <2>4 DEF RunType
    <3> QED BY <2>2, <3>1, Quiet DEF Unscaled
  <2>5. CASE run' = [run EXCEPT !.op = "undo", !.pc = "position"]
    <3>1. run'.pc = "position" /\ run'.l = run.l
      BY <1>0, <2>5 DEF RunType
    <3> QED BY <2>2, <3>1, Quiet DEF Unscaled
  <2> QED BY <2>1, <2>3, <2>4, <2>5
<1>29. CASE OrderExit
  BY <1>29, <1>m, <1>s, <1>0 DEF OrderExit, StageFits, At, Placing, Scaled, Ctx, Book, Open
<1>30. CASE SendExit
  BY <1>30, <1>m, <1>s, <1>0 DEF SendExit, StageFits, At, Placing, Scaled, Ctx, Book, Open
<1>31. CASE QueryExit
  <2>1. run' \in {[run EXCEPT !.pc = "send"], [run EXCEPT !.pc = "position"],
                  [run EXCEPT !.op = "settle", !.pc = "position"]}
    BY <1>31, Zenon DEF QueryExit, Goto
  <2>2. run.l \in Levels
    BY <1>31, <1>s DEF QueryExit, StageFits, At
  <2>3. run'.pc = "idle" \/ (run'.l \in Levels /\ run'.pc \in Unscaled)
    BY <1>0, <2>1, <2>2 DEF Unscaled, NoRun, RunType
  <2> QED BY <2>3, Quiet
<1>32. CASE BeginUpdate
  <2>1. run' = [op |-> "update", pc |-> "cancel", l |-> 1, q |-> 0]
    BY <1>32 DEF BeginUpdate, Begin
  <2>2. run'.l \in Levels /\ run'.pc \in Unscaled
    BY <1>0, <2>1 DEF Unscaled
  <2> QED BY <2>2, Quiet
<1>33. CASE SkipLevel
  BY <1>33, <1>m, <1>s, <1>0 DEF SkipLevel, StageFits, At, Placing, Scaled, Ctx, Book, Open, Cancelling
<1>34. CASE CancelLevel
  BY <1>34, <1>m, <1>s, <1>0 DEF CancelLevel, StageFits, At, Placing, Scaled, Ctx, Book, Open, Cancelling
<1>35. CASE Cancelled
  BY <1>35, <1>m, <1>s, <1>0 DEF Cancelled, StageFits, At, Placing, Scaled, Ctx, Book, Open
<1>36. CASE Allocate
  <2>1. run' = NoRun \/ run' = [run EXCEPT !.pc = "position"]
    BY <1>36 DEF Allocate, Goto, Leave
  <2>2. run.l \in Levels
    BY <1>36, <1>s DEF Allocate, StageFits, At
  <2>3. run'.pc = "idle" \/ (run'.l \in Levels /\ run'.pc \in Unscaled)
    BY <1>0, <2>1, <2>2 DEF Unscaled, NoRun, RunType
  <2> QED BY <2>3, Quiet
<1>37. ASSUME NEW l \in Levels, Arrive(l) PROVE StageFits'
  <2>1. run.l \in Levels /\ ord[run.l].at = "over" => ord'[run.l].at = "over"
    BY <1>37, <1>0 DEF Arrive, SetOrder, OrderType
  <2> QED BY <1>37, <2>1 DEF Arrive, Ctx, IInv, StageFits, At, Open
<1>38. ASSUME NEW l \in Levels, Fill(l) PROVE StageFits'
  <2>1. run.l \in Levels /\ ord[run.l].at = "over" => ord'[run.l].at = "over"
    BY <1>38, <1>0 DEF Fill, SetOrder, OrderType
  <2> QED BY <1>38, <2>1 DEF Fill, Ctx, IInv, StageFits, At, Open
<1>39. ASSUME NEW l \in Levels, OwnerCancels(l) PROVE StageFits'
  <2>1. run.l \in Levels /\ ord[run.l].at = "over" => ord'[run.l].at = "over"
    BY <1>39, <1>0 DEF OwnerCancels, SetOrder, OrderType
  <2> QED BY <1>39, <2>1 DEF OwnerCancels, Ctx, IInv, StageFits, At, Open
<1>40. ASSUME NEW l \in Levels, PriceLeaves(l) PROVE StageFits'
  BY <1>40, Frame DEF PriceLeaves, Ctx, Book
<1>41. ASSUME NEW l \in Levels, RetryDue(l) PROVE StageFits'
  BY <1>41, Frame DEF RetryDue, Ctx, Book
<1>42. ASSUME NEW s \in stray, StrayFills(s) PROVE StageFits'
  BY <1>42, Frame DEF StrayFills, Ctx, Book
<1>43. CASE OwnerReduces
  BY <1>43, Frame DEF OwnerReduces, Ctx, Book
<1>44. CASE ExitRuns
  BY <1>44, Frame DEF ExitRuns, Ctx, Book
<1>45. CASE HandlerStops
  BY <1>45, <1>m DEF HandlerStops, StageFits, At, Placing, Scaled
<1>46. CASE UNCHANGED vars
  BY <1>46 DEF vars, IInv, StageFits, At, Open
<1> QED BY <1>1, <1>2, <1>3, <1>4, <1>5, <1>6, <1>7, <1>8, <1>9, <1>10, <1>11, <1>12, <1>13,
           <1>14, <1>15, <1>16, <1>17, <1>18, <1>19, <1>20, <1>21, <1>22, <1>23, <1>24, <1>25,
           <1>26, <1>27, <1>28, <1>29, <1>30, <1>31, <1>32, <1>33, <1>34, <1>35, <1>36, <1>37,
           <1>38, <1>39, <1>40, <1>41, <1>42, <1>43, <1>44, <1>45,
           <1>46 DEF Next, Pass, ExecuteTPReduction, updateTakeProfits,
           Environment

-----------------------------------------------------------------------------
(* The exit at market                                                      *)

\* What a step keeps of the levels: a level that is sold at market stays so,
\* and no order returns to the book but the one that a handler places.
Seller ==
    \A l \in Levels :
        /\ plan[l].by => plan'[l].by
        /\ ord[l].at \notin OnBook /\ (plan[l].by \/ ~AtPlace) => ord'[l].at \notin OnBook

LEMMA SellerStep == IInv /\ [Next]_vars => Seller
<1> SUFFICES ASSUME IInv, [Next]_vars PROVE Seller
  OBVIOUS
<1>0. /\ LadderTyped /\ LevelsFit /\ plan \in [Levels -> PlanType] /\ ord \in [Levels -> OrderType]
  BY DEF IInv, LadderTyped
<1>1. CASE StartPass
  BY <1>1 DEF StartPass, Book, Ctx, Seller
<1>2. CASE ReadPosition
  BY <1>2 DEF ReadPosition, Book, Ctx, Seller
<1>3. CASE Refresh
  BY <1>3, <1>0, PlanRefreshed DEF Refresh, Book, Ctx, Seller, IInv
<1>4. CASE Rescale
  <2> DEFINE p2 == [l \in Levels |-> IF l \in Open(plan)
                                    THEN [plan[l] EXCEPT !.want = tpRescale(plan, l, run.q)]
                                    ELSE plan[l]]
  <2>1. ord' = ord /\ (plan' = plan \/ (plan' = Stamped(p2) /\ Total(plan) # 0))
    BY <1>4 DEF Rescale, Book
  <2>q. run.q \in Nat
    <3>1. run.q \in 0 .. StartQty /\ StartQty \in Nat
      BY <1>0, LevelsFacts DEF LadderTyped, RunType
    <3> QED BY <3>1
  <2>2. Total(plan) # 0 => p2 \in [Levels -> PlanType] /\ \A l \in Levels : p2[l].by = plan[l].by
    <3> SUFFICES ASSUME Total(plan) # 0, NEW l \in Levels
                 PROVE  p2[l] \in PlanType /\ p2[l].by = plan[l].by
      OBVIOUS
    <3> DEFINE w == tpRescale(plan, l, run.q)
    <3>1. plan[l] \in PlanType /\ w \in Nat
      BY <1>0, <2>q, TotalTyped, RescaledFits
    <3>2. p2[l] = IF l \in Open(plan) THEN [plan[l] EXCEPT !.want = w] ELSE plan[l]
      OBVIOUS
    <3> HIDE DEF p2, w
    <3> QED BY <3>1, <3>2 DEF PlanType
  <2> HIDE DEF p2
  <2> QED BY <2>1, <2>2, StampedFits DEF Seller
<1>5. CASE LevelStands
  BY <1>5 DEF LevelStands, Book, Ctx, Seller
<1>6. CASE FillChanged
  BY <1>6, <1>0, PlanRefreshed DEF FillChanged, Book, Ctx, Seller, IInv
<1>7. CASE ReplaceOrder
  BY <1>7 DEF ReplaceOrder, Book, Ctx, Seller
<1>8. CASE WithdrawOrder
  BY <1>8, <1>0 DEF WithdrawOrder, SetOrder, OrderType, OnBook, Ctx, Seller
<1>9. CASE RetireOrder
  <2>1. tp = plan[run.l] /\ run.l \in Levels /\ plan[run.l] \in PlanType /\ plan[run.l].want \in Nat
    BY <1>9, Places, AtLevel DEF RetireOrder, Settles, At, PlanType
  <2> DEFINE t2 == [replanTP(plan[run.l]) EXCEPT !.qty = plan[run.l].want]
  <2>2. t2.by = plan[run.l].by
    BY <2>1, Replanned
  <2>3. plan' = [plan EXCEPT ![run.l] = t2]
    BY <1>9, <2>1 DEF RetireOrder, SaveTP
  <2>4. \A l \in Levels : ord[l].at \notin OnBook => ord'[l].at \notin OnBook
    BY <1>0, <1>9 DEF RetireOrder, Forget, NoOrder, OnBook
  <2> HIDE DEF t2
  <2> QED BY <1>0, <2>1, <2>2, <2>3, <2>4 DEF Seller
<1>10. CASE BelowMinimum
  <2>1. tp = plan[run.l] /\ run.l \in Levels
    BY <1>10, Places, AtLevel DEF BelowMinimum
  <2> QED BY <1>10, <1>0, <2>1 DEF BelowMinimum, SaveTP, Book, Seller, PlanType
<1>11. CASE HeldBack
  BY <1>11 DEF HeldBack, Book, Ctx, Seller
<1>12. CASE PlanOrder
  <2>1. tp = plan[run.l] /\ run.l \in Levels
    BY <1>12, Places, AtLevel DEF PlanOrder
  <2> QED BY <1>12, <1>0, <2>1 DEF PlanOrder, SaveTP, Seller, PlanType
<1>13. CASE Submit
  <2>1. run.l \in Open(plan) /\ AtPlace
    BY <1>13, Places DEF Submit, Settles
  <2> QED BY <1>13, <1>0, <2>1 DEF Submit, Open, Seller, Ctx
<1>14. CASE Answered
  BY <1>14 DEF Answered, Book, Ctx, Seller
<1>15. CASE Unanswered
  BY <1>15 DEF Unanswered, Book, Ctx, Seller
<1>16. CASE RowConfirmed
  <2>1. tp = plan[run.l] /\ run.l \in Levels /\ ord' = ord
    BY <1>16, Places, AtLevel DEF RowConfirmed, Settles, Book
  <2>2. PICK e, st : SaveTP([tp EXCEPT !.oid = TRUE, !.fill = e, !.done = e = o.qty, !.st = st])
    BY <1>16 DEF RowConfirmed
  <2> DEFINE d == (e = o.qty)
  <2>3. plan' = [plan EXCEPT ![run.l] = [plan[run.l] EXCEPT !.oid = TRUE, !.fill = e, !.done = d, !.st = st]]
    BY <2>1, <2>2 DEF SaveTP
  <2> HIDE DEF d
  <2> QED BY <1>0, <2>1, <2>3 DEF Seller, PlanType
<1>17. CASE RowRejectedRetry
  <2>1. tp = plan[run.l] /\ run.l \in Levels /\ plan[run.l] \in PlanType /\ plan[run.l].want \in Nat
    BY <1>17, Places, AtLevel DEF RowRejectedRetry, Settles, At, PlanType
  <2> DEFINE t2 == replanTP(plan[run.l])
  <2>2. t2.by = plan[run.l].by
    BY <2>1, Replanned
  <2>3. plan' = [plan EXCEPT ![run.l] = t2]
    BY <1>17, <2>1 DEF RowRejectedRetry, SaveTP
  <2>4. \A l \in Levels : ord[l].at \notin OnBook => ord'[l].at \notin OnBook
    BY <1>0, <1>17 DEF RowRejectedRetry, Forget, NoOrder, OnBook
  <2> HIDE DEF t2
  <2> QED BY <1>0, <2>1, <2>2, <2>3, <2>4 DEF Seller
<1>18. CASE RowRejected
  <2>1. tp = plan[run.l] /\ run.l \in Levels
    BY <1>18, Places, AtLevel DEF RowRejected, Settles
  <2> QED BY <1>18, <1>0, <2>1 DEF RowRejected, SaveTP, Book, Seller, PlanType
<1>19. CASE RowAbandoned
  <2>1. tp = plan[run.l] /\ run.l \in Levels /\ plan[run.l] \in PlanType /\ plan[run.l].want \in Nat
    BY <1>19, Places, AtLevel DEF RowAbandoned, Settles, At, PlanType
  <2> DEFINE t2 == replanTP(plan[run.l])
  <2>2. t2.by = plan[run.l].by
    BY <2>1, Replanned
  <2>3. plan' = [plan EXCEPT ![run.l] = t2]
    BY <1>19, <2>1 DEF RowAbandoned, SaveTP
  <2>4. \A l \in Levels : ord[l].at \notin OnBook => ord'[l].at \notin OnBook
    BY <1>0, <1>19 DEF RowAbandoned, Forget, NoOrder, OnBook
  <2> HIDE DEF t2
  <2> QED BY <1>0, <2>1, <2>2, <2>3, <2>4 DEF Seller
<1>20. CASE RowFound
  BY <1>20 DEF RowFound, Book, Ctx, Seller
<1>21. CASE RowNotFound
  BY <1>21 DEF RowNotFound, Book, Ctx, Seller
<1>22. CASE RowAged
  BY <1>22 DEF RowAged, Book, Ctx, Seller
<1>23. CASE Stamp
  BY <1>23, <1>0, StampedFits DEF Stamp, Book, Seller
<1>24. CASE Finish
  BY <1>24 DEF Finish, Book, Ctx, Seller
<1>25. ASSUME NEW l \in Levels, BeginReduce(l) PROVE Seller
  BY <1>25, <1>0, PlanRefreshed DEF BeginReduce, Book, Ctx, Seller, IInv
<1>26. CASE Cover
  BY <1>26, <1>0, PlanRefreshed DEF Cover, Book, Ctx, Seller, IInv
<1>27. CASE WithdrawOne
  BY <1>27, <1>0 DEF WithdrawOne, SetOrder, OrderType, OnBook, Ctx, Seller
<1>28. CASE Size
  <2> DEFINE p == refreshTPProgress
  <2>1. ord' = ord /\ (plan' = p \/ plan' = [p EXCEPT ![exit.lv].by = TRUE])
    BY <1>28 DEF Size, Book
  <2>2. p \in [Levels -> PlanType] /\ \A l \in Levels : p[l].by = plan[l].by
    BY <1>0, PlanRefreshed
  <2> HIDE DEF p
  <2> QED BY <2>1, <2>2 DEF Seller, PlanType
<1>29. CASE OrderExit
  BY <1>29 DEF OrderExit, Book, Ctx, Seller
<1>30. CASE SendExit
  BY <1>30 DEF SendExit, Book, Ctx, Seller
<1>31. CASE QueryExit
  <2> DEFINE t == plan[exit.lv]
             sold == exit.prior + exit.exec
             d == (t.done \/ t.fill + sold >= t.qty)
  <2>1. ord' = ord /\ (plan' = plan \/ plan' = [plan EXCEPT ![exit.lv] = [t EXCEPT !.repl = sold, !.done = d]])
    BY <1>31, Zenon DEF QueryExit, Book
  <2>2. exit.lv \in Levels
    BY <1>31 DEF QueryExit, IInv, ExitFits, At, Sent
  <2> HIDE DEF sold, d
  <2> QED BY <1>0, <2>1, <2>2 DEF Seller, PlanType
<1>32. CASE BeginUpdate
  BY <1>32 DEF BeginUpdate, Book, Ctx, Seller
<1>33. CASE SkipLevel
  BY <1>33 DEF SkipLevel, Book, Ctx, Seller
<1>34. CASE CancelLevel
  BY <1>34, <1>0 DEF CancelLevel, SetOrder, OrderType, OnBook, Ctx, Seller
<1>35. CASE Cancelled
  BY <1>35, <1>0, PlanRefreshed DEF Cancelled, Book, Ctx, Seller, IInv
<1>36. CASE Allocate
  <2> DEFINE p == refreshTPProgress
             kept == {l \in Levels : p[l].done}
             p2 == [l \in Levels |-> IF l \in kept THEN p[l]
                              ELSE Given(p[l], Allotted(p, l))]
  <2>n. pos \in Nat
    BY <1>0, NumbersTyped
  <2>1. \/ plan' = p /\ ord' = ord
        \/ plan' = Stamped(p2) /\ pos > 0 /\ Weights(p) # 0 /\ Forget(Levels \ kept, "update")
    <3>1. CASE pos = 0
      BY <1>36, <3>1 DEF Allocate, Book
    <3>2. CASE pos > 0 /\ Weights(p) = 0
      BY <1>36, <3>2 DEF Allocate, Book
    <3>3. CASE pos > 0 /\ pos # 0 /\ Weights(p) # 0
      BY <1>36, <3>3, Zenon DEF Allocate, Given
    <3> QED BY <2>n, <3>1, <3>2, <3>3
  <2>2. p \in [Levels -> PlanType] /\ \A l \in Levels : p[l].by = plan[l].by
    BY <1>0, PlanRefreshed
  <2> HIDE DEF p
  <2>3. Weights(p) # 0 => p2 \in [Levels -> PlanType] /\ \A l \in Levels : p2[l].by = plan[l].by
    <3> SUFFICES ASSUME Weights(p) # 0, NEW l \in Levels
                 PROVE  p2[l] \in PlanType /\ p2[l].by = plan[l].by
      OBVIOUS
    <3>1. p[l] \in PlanType /\ Allotted(p, l) \in Nat
      BY <2>n, <2>2, SharesFit
    <3> QED BY <2>2, <3>1, GivenFits
  <2> HIDE DEF p2
  <2>6. Forget(Levels \ kept, "update") =>
          \A l \in Levels : ord[l].at \notin OnBook => ord'[l].at \notin OnBook
    BY DEF Forget, NoOrder, OnBook
  <2> QED BY <2>1, <2>2, <2>3, <2>6, StampedFits DEF Seller
<1>37. ASSUME NEW l \in Levels, Arrive(l) PROVE Seller
  BY <1>37, <1>0 DEF Arrive, SetOrder, OrderType, OnBook, Ctx, Seller
<1>38. ASSUME NEW l \in Levels, Fill(l) PROVE Seller
  BY <1>38, <1>0 DEF Fill, SetOrder, OrderType, OnBook, Ctx, Seller
<1>39. ASSUME NEW l \in Levels, OwnerCancels(l) PROVE Seller
  BY <1>39, <1>0 DEF OwnerCancels, SetOrder, OrderType, OnBook, Ctx, Seller
<1>40. ASSUME NEW l \in Levels, PriceLeaves(l) PROVE Seller
  BY <1>40 DEF PriceLeaves, Book, Ctx, Seller
<1>41. ASSUME NEW l \in Levels, RetryDue(l) PROVE Seller
  BY <1>41 DEF RetryDue, Book, Ctx, Seller
<1>42. ASSUME NEW s \in stray, StrayFills(s) PROVE Seller
  BY <1>42 DEF StrayFills, Book, Ctx, Seller
<1>43. CASE OwnerReduces
  BY <1>43 DEF OwnerReduces, Book, Ctx, Seller
<1>44. CASE ExitRuns
  BY <1>44 DEF ExitRuns, Book, Ctx, Seller
<1>45. CASE HandlerStops
  BY <1>45 DEF HandlerStops, Book, Ctx, Seller
<1>46. CASE UNCHANGED vars
  BY <1>46 DEF vars, Seller
<1> QED BY <1>1, <1>2, <1>3, <1>4, <1>5, <1>6, <1>7, <1>8, <1>9, <1>10, <1>11, <1>12, <1>13,
           <1>14, <1>15, <1>16, <1>17, <1>18, <1>19, <1>20, <1>21, <1>22, <1>23, <1>24, <1>25,
           <1>26, <1>27, <1>28, <1>29, <1>30, <1>31, <1>32, <1>33, <1>34, <1>35, <1>36, <1>37,
           <1>38, <1>39, <1>40, <1>41, <1>42, <1>43, <1>44, <1>45,
           <1>46 DEF Next, Pass, ExecuteTPReduction, updateTakeProfits,
           Environment

\* The stages of the exit itself.
Selling == {"cover", "withdrawOne", "size", "order", "send", "query"}

LEMMA ExitFrame ==
    ASSUME IInv, Seller, exit' = exit,
           \/ run'.pc = "idle"
           \/ run'.pc \notin Selling /\ run'.op = run.op /\ ~At("idle")
           \/ run'.pc \notin Selling /\ run'.op # "settle"
    PROVE  ExitFits'
<1>1. /\ exit.st # "none" => exit.lv \in Levels
      /\ exit.st \in Sent => exit.lv \in Levels /\ plan[exit.lv].by /\ ord[exit.lv].at \notin OnBook
      /\ run.op = "settle" /\ ~At("idle") => exit.st = "over"
  BY DEF IInv, ExitFits, Sent
<1>2. exit.st \in Sent => plan'[exit.lv].by /\ ord'[exit.lv].at \notin OnBook
  BY <1>1 DEF Seller
<1> QED BY <1>1, <1>2 DEF ExitFits, Selling, At

LEMMA ExitStays ==
    ASSUME IInv, Seller, UNCHANGED <<exit, run, plan>> PROVE ExitFits'
<1>1. ExitFits
  BY DEF IInv
<1>2. exit.st \in Sent => exit.lv \in Levels /\ ord'[exit.lv].at \notin OnBook
  BY <1>1 DEF Seller, ExitFits, Sent
<1>3. run.pc \in {"size", "order"} => ord'[exit.lv].at \notin OnBook
  BY <1>1 DEF Seller, ExitFits, AtPlace, At
<1> QED BY <1>1, <1>2, <1>3 DEF ExitFits, At

LEMMA NoneFits ==
    exit' = NoExit /\ (run'.pc = "idle" \/ (run'.pc \notin Selling /\ run'.op # "settle")) => ExitFits'
BY DEF NoExit, ExitFits, Selling, At, Sent

LEMMA ExitFitsStep == IInv /\ [Next]_vars => ExitFits'
<1> SUFFICES ASSUME IInv, [Next]_vars PROVE ExitFits'
  OBVIOUS
<1>0. /\ ExitFits /\ exit \in ExitType /\ run \in RunType /\ ord \in [Levels -> OrderType]
      /\ upd \in {"", "CANCEL", "INSTALL"}
  BY DEF IInv, LadderTyped
<1>l. Seller
  BY SellerStep
<1>m. /\ \A pc : Goto(pc) => /\ run'.pc = pc /\ run'.l = run.l /\ run'.q = run.q
                             /\ run'.op = run.op
      /\ Leave => run'.pc = "idle" /\ run'.op = "none"
      /\ NextLevel => run'.pc \in {"level", "stamp"} /\ run'.op = run.op
      /\ NextCancel => run'.pc \in {"cancel", "allocate"} /\ run'.op = run.op
  BY Moves DEF IInv
<1>1. CASE StartPass
  <2>1. exit' = exit /\ plan' = plan /\ ord' = ord
    BY <1>1 DEF StartPass, Ctx, Book
  <2>2. \/ run'.pc \in {"cancel", "position"} /\ run'.op \in {"update", "pass"}
        \/ run'.pc = "cover" /\ run'.op = "exit" /\ exit.st = "intent"
        \/ run'.pc = "query" /\ run'.op = "exit" /\ exit.st \in Sent
    <3>1. upd \in {"", "CANCEL", "INSTALL"} /\ exit.st \in {"none", "intent", "planned", "flying", "over"}
      BY <1>0 DEF ExitType
    <3>2. \/ Begin("update", "cancel") \/ Begin("update", "position") \/ Begin("pass", "position")
          \/ Begin("exit", "cover") /\ exit.st = "intent"
          \/ Begin("exit", "query") /\ exit.st \in Sent
      BY <1>1, <3>1 DEF StartPass, Sent
    <3> QED BY <3>2 DEF Begin
  <2> QED BY <1>0, <2>1, <2>2 DEF ExitFits, At, Sent
<1>2. CASE ReadPosition
  <2>1. \/ run' = NoRun /\ exit' \in {exit, NoExit}
        \/ exit' = exit /\ run' = [run EXCEPT !.pc = "refresh", !.q = pos]
    BY <1>2 DEF ReadPosition, Leave
  <2>2. run' = NoRun => run'.pc = "idle"
    BY DEF NoRun
  <2>3. CASE run' = NoRun /\ exit' = NoExit
    BY <2>2, <2>3, NoneFits
  <2>4. CASE exit' = exit
    <3>1. run' # NoRun => run'.pc = "refresh" /\ run'.op = run.op /\ ~At("idle")
      BY <1>0, <1>2, <2>1 DEF ReadPosition, At, RunType
    <3> QED BY <1>l, <2>2, <2>4, <3>1, ExitFrame DEF Selling
  <2> QED BY <2>1, <2>3, <2>4
<1>3. CASE Refresh
  BY <1>3, <1>l, <1>m, ExitFrame DEF Refresh, Ctx, Book, Selling, At
<1>4. CASE Rescale
  <2>1. exit' = exit /\ ~At("idle")
    BY <1>4 DEF Rescale, At
  <2>2. run' \in {[run EXCEPT !.pc = "finish"], [run EXCEPT !.pc = "level", !.l = 1]}
    BY <1>4 DEF Rescale, Goto
  <2>3. run'.pc \in {"finish", "level"} /\ run'.op = run.op
    BY <1>0, <2>2 DEF RunType
  <2> QED BY <1>l, <2>1, <2>3, ExitFrame DEF Selling
<1>5. CASE LevelStands
  BY <1>5, <1>l, <1>m, ExitFrame DEF LevelStands, Ctx, Book, Selling, At
<1>6. CASE FillChanged
  BY <1>6, <1>l, <1>m, ExitFrame DEF FillChanged, Ctx, Book, Selling, At
<1>7. CASE ReplaceOrder
  BY <1>7, <1>l, <1>m, ExitFrame DEF ReplaceOrder, Ctx, Book, Selling, At
<1>8. CASE WithdrawOrder
  BY <1>8, <1>l, <1>m, ExitFrame DEF WithdrawOrder, Ctx, Book, Selling, At
<1>9. CASE RetireOrder
  BY <1>9, <1>l, <1>m, ExitFrame DEF RetireOrder, Ctx, Book, Selling, At
<1>10. CASE BelowMinimum
  BY <1>10, <1>l, <1>m, ExitFrame DEF BelowMinimum, Ctx, Book, Selling, At, AtPlace, Settles
<1>11. CASE HeldBack
  BY <1>11, <1>l, <1>m, ExitFrame DEF HeldBack, Ctx, Book, Selling, At, AtPlace, Settles
<1>12. CASE PlanOrder
  BY <1>12, <1>l, <1>m, ExitFrame DEF PlanOrder, Ctx, Book, Selling, At, AtPlace, Settles
<1>13. CASE Submit
  BY <1>13, <1>l, <1>m, ExitFrame DEF Submit, Ctx, Book, Selling, At, AtPlace, Settles
<1>14. CASE Answered
  BY <1>14, <1>l, <1>m, ExitFrame DEF Answered, Ctx, Book, Selling, At
<1>15. CASE Unanswered
  BY <1>15, <1>l, <1>m, ExitFrame DEF Unanswered, Ctx, Book, Selling, At
<1>16. CASE RowConfirmed
  BY <1>16, <1>l, <1>m, ExitFrame DEF RowConfirmed, Ctx, Book, Selling, At, AtPlace, Settles
<1>17. CASE RowRejectedRetry
  BY <1>17, <1>l, <1>m, ExitFrame DEF RowRejectedRetry, Ctx, Book, Selling, At, AtPlace, Settles
<1>18. CASE RowRejected
  BY <1>18, <1>l, <1>m, ExitFrame DEF RowRejected, Ctx, Book, Selling, At, AtPlace, Settles
<1>19. CASE RowAbandoned
  BY <1>19, <1>l, <1>m, ExitFrame DEF RowAbandoned, Ctx, Book, Selling, At, AtPlace, Settles
<1>20. CASE RowFound
  BY <1>20, <1>l, <1>m, ExitFrame DEF RowFound, Ctx, Book, Selling, At, AtPlace, Settles
<1>21. CASE RowNotFound
  BY <1>21, <1>l, <1>m, ExitFrame DEF RowNotFound, Ctx, Book, Selling, At, AtPlace, Settles
<1>22. CASE RowAged
  BY <1>22, <1>l, <1>m, ExitFrame DEF RowAged, Ctx, Book, Selling, At, AtPlace, Settles
<1>23. CASE Stamp
  BY <1>23, <1>l, <1>m, ExitFrame DEF Stamp, Ctx, Book, Selling, At
<1>24. CASE Finish
  <2> DEFINE q == Least(run.q, Outstanding)
             prior == exit.prior + exit.exec
             tries == exit.tries + 1
  <2>1. \/ exit' = exit /\ run' = NoRun
        \/ exit' = NoExit /\ run' \in {NoRun, [run EXCEPT !.op = "undo", !.pc = "position"]}
        \/ /\ run.op = "settle" /\ run' = [run EXCEPT !.op = "exit", !.pc = "send"]
           /\ exit' = [exit EXCEPT !.st = "planned", !.qty = q, !.exec = 0, !.prior = prior, !.tries = tries]
    <3>1. CASE run.op # "settle"
      BY <1>24, <3>1 DEF Finish, Leave
    <3>2. CASE run.op = "settle" /\ Outstanding = 0
      <4>1. ~(Outstanding > 0)
        BY <3>2
      <4> QED BY <1>24, <3>2, <4>1 DEF Finish, Leave
    <3>3. CASE run.op = "settle" /\ Outstanding # 0
      BY <1>24, <3>3 DEF Finish, Leave
    <3> QED BY <3>1, <3>2, <3>3
  <2>2. CASE exit' = exit /\ run' = NoRun
    <3>1. run'.pc = "idle"
      BY <2>2 DEF NoRun
    <3> QED BY <1>l, <2>2, <3>1, ExitFrame
  <2>3. CASE exit' = NoExit /\ run' \in {NoRun, [run EXCEPT !.op = "undo", !.pc = "position"]}
    <3>1. run' = NoRun => run'.pc = "idle"
      BY DEF NoRun
    <3>2. run' = [run EXCEPT !.op = "undo", !.pc = "position"] => run'.pc = "position" /\ run'.op = "undo"
      BY <1>0 DEF RunType
    <3> QED BY <2>3, <3>1, <3>2, NoneFits DEF Selling
  <2>4. CASE /\ run.op = "settle" /\ run' = [run EXCEPT !.op = "exit", !.pc = "send"]
             /\ exit' = [exit EXCEPT !.st = "planned", !.qty = q, !.exec = 0, !.prior = prior, !.tries = tries]
    <3> HIDE DEF q, prior, tries
    <3>1. exit'.st = "planned" /\ exit'.lv = exit.lv
      BY <1>0, <2>4 DEF ExitType
    <3>2. run'.pc = "send" /\ run'.op = "exit"
      BY <1>0, <2>4 DEF RunType
    <3>3. exit.st = "over" /\ exit.lv \in Levels /\ plan[exit.lv].by /\ ord[exit.lv].at \notin OnBook
      BY <1>24, <1>0, <2>4 DEF Finish, ExitFits, At, Sent
    <3>4. plan' = plan /\ ord' = ord
      BY <1>24 DEF Finish, Book
    <3> QED BY <3>1, <3>2, <3>3, <3>4 DEF ExitFits, At
  <2> QED BY <2>1, <2>2, <2>3, <2>4
<1>25. ASSUME NEW l \in Levels, BeginReduce(l) PROVE ExitFits'
  <2>1. \/ exit' = exit /\ run' = run /\ run.pc = "idle" /\ exit.st = "none"
        \/ /\ exit' = [NoExit EXCEPT !.lv = l, !.st = "intent"]
           /\ run' = [op |-> "exit", pc |-> "cover", l |-> 1, q |-> 0]
    BY <1>25 DEF BeginReduce, Begin, At
  <2>2. CASE exit' = exit /\ run' = run /\ run.pc = "idle" /\ exit.st = "none"
    BY <1>0, <2>2 DEF ExitFits, At, Sent
  <2>3. CASE /\ exit' = [NoExit EXCEPT !.lv = l, !.st = "intent"]
             /\ run' = [op |-> "exit", pc |-> "cover", l |-> 1, q |-> 0]
    <3>1. exit'.lv = l /\ exit'.st = "intent" /\ run'.pc = "cover" /\ run'.op = "exit"
      BY <2>3 DEF NoExit
    <3> QED BY <3>1 DEF ExitFits, At, Sent
  <2> QED BY <2>1, <2>2, <2>3
<1>26. CASE Cover
  <2> DEFINE t == plan'[exit.lv]
  <2>1. exit.st = "intent" /\ exit.lv \in Levels /\ exit' = exit /\ ord' = ord /\ run.op # "settle"
    BY <1>26, <1>0 DEF Cover, ExitFits, At, Ctx, Book
  <2>2. \/ Goto("withdrawOne") /\ t.oid
        \/ Leave
        \/ Goto("size") /\ ~(t.oid /\ t.st = "NEW") /\ ~Pending(t)
    BY <1>26, Zenon DEF Cover
  <2>3. /\ LevelFits(t, row[exit.lv], ord[exit.lv]) /\ t \in PlanType /\ row[exit.lv] \in RowStatus
        /\ ~t.done /\ t.oid /\ t.st # "NEW" => ord[exit.lv].at \notin OnBook
    BY <1>26, <1>0, <2>1, PlanRefreshed, Basics DEF Cover, IInv
  <2>4. ~(t.oid /\ t.st = "NEW") /\ ~Pending(t) => ord[exit.lv].at \notin OnBook
    BY <2>3 DEF Pending, LevelFits, OnBook, PlanType
  <2> HIDE DEF t
  <2>5. \/ run'.pc = "withdrawOne" /\ run'.op = run.op /\ plan'[exit.lv].oid
        \/ run'.pc = "idle"
        \/ run'.pc = "size" /\ run'.op = run.op /\ ord[exit.lv].at \notin OnBook
    BY <1>m, <2>2, <2>4 DEF t
  <2> QED BY <2>1, <2>5 DEF ExitFits, At, Sent
<1>27. CASE WithdrawOne
  <2>1. exit.st = "intent" /\ exit.lv \in Levels /\ exit' = exit /\ plan' = plan /\ run.op # "settle"
    BY <1>27, <1>0 DEF WithdrawOne, ExitFits, At, Ctx
  <2>2. LevelFits(plan[exit.lv], row[exit.lv], ord[exit.lv]) /\ plan[exit.lv].oid
    BY <1>27, <1>0, <2>1 DEF WithdrawOne, ExitFits, At, IInv, LevelsFit
  <2>3. ord[exit.lv].at \in {"live", "filled", "over"}
    BY <2>2 DEF LevelFits
  <2>4. ord'[exit.lv].at \notin OnBook
    BY <1>27, <1>0, <2>1, <2>3 DEF WithdrawOne, SetOrder, OrderType, OnBook
  <2>5. run'.pc = "size" /\ run'.op = run.op
    BY <1>27, <1>m DEF WithdrawOne
  <2> QED BY <2>1, <2>4, <2>5 DEF ExitFits, At, Sent
<1>28. CASE Size
  <2> DEFINE p == refreshTPProgress
             q == Least(Rest(p[exit.lv]), pos)
  <2>1. /\ exit.st = "intent" /\ exit.lv \in Levels /\ ord' = ord /\ run.op # "settle"
        /\ ord[exit.lv].at \notin OnBook
    BY <1>28, <1>0 DEF Size, ExitFits, At, Book
  <2>2. \/ exit' = NoExit /\ run' \in {NoRun, [run EXCEPT !.op = "undo", !.pc = "position"]}
        \/ /\ exit' = exit /\ plan' = [p EXCEPT ![exit.lv].by = TRUE]
           /\ run' = [run EXCEPT !.pc = "order", !.q = q]
    BY <1>28 DEF Size, Leave
  <2>3. CASE exit' = NoExit /\ run' \in {NoRun, [run EXCEPT !.op = "undo", !.pc = "position"]}
    <3>1. run' = NoRun => run'.pc = "idle"
      BY DEF NoRun
    <3>2. run' = [run EXCEPT !.op = "undo", !.pc = "position"] => run'.pc = "position" /\ run'.op = "undo"
      BY <1>0 DEF RunType
    <3> QED BY <2>3, <3>1, <3>2, NoneFits DEF Selling
  <2>4. CASE /\ exit' = exit /\ plan' = [p EXCEPT ![exit.lv].by = TRUE]
             /\ run' = [run EXCEPT !.pc = "order", !.q = q]
    <3>1. p \in [Levels -> PlanType]
      BY PlanRefreshed DEF IInv
    <3> HIDE DEF p, q
    <3>2. plan'[exit.lv].by = TRUE
      BY <2>1, <2>4, <3>1 DEF PlanType
    <3>3. run'.pc = "order" /\ run'.op = run.op
      BY <1>0, <2>4 DEF RunType
    <3> QED BY <2>1, <2>4, <3>2, <3>3 DEF ExitFits, At, Sent
  <2> QED BY <2>2, <2>3, <2>4
<1>29. CASE OrderExit
  <2>1. /\ exit.lv \in Levels /\ plan[exit.lv].by /\ ord[exit.lv].at \notin OnBook /\ run.op # "settle"
        /\ plan' = plan /\ ord' = ord
    BY <1>29, <1>0 DEF OrderExit, ExitFits, At, Book
  <2>2. exit'.st = "planned" /\ exit'.lv = exit.lv
    BY <1>29, <1>0 DEF OrderExit, ExitType
  <2>3. run'.pc = "send" /\ run'.op = run.op
    BY <1>29, <1>m DEF OrderExit
  <2> QED BY <2>1, <2>2, <2>3 DEF ExitFits, At, Sent
<1>30. CASE SendExit
  <2>1. /\ exit.lv \in Levels /\ plan[exit.lv].by /\ ord[exit.lv].at \notin OnBook /\ run.op # "settle"
        /\ plan' = plan /\ ord' = ord
    BY <1>30, <1>0 DEF SendExit, ExitFits, At, Book, Sent
  <2>2. exit'.st = "flying" /\ exit'.lv = exit.lv
    BY <1>30, <1>0 DEF SendExit, ExitType
  <2>3. run'.pc = "query" /\ run'.op = run.op
    BY <1>30, <1>m DEF SendExit
  <2> QED BY <2>1, <2>2, <2>3 DEF ExitFits, At, Sent
<1>31. CASE QueryExit
  <2>1. /\ exit.lv \in Levels /\ plan[exit.lv].by /\ ord[exit.lv].at \notin OnBook /\ exit' = exit
        /\ exit.st \in Sent /\ (run.op = "settle" => exit.st = "over") /\ ~AtPlace
    BY <1>31, <1>0 DEF QueryExit, ExitFits, At, Book, Sent, Ctx, AtPlace
  <2>2. \/ exit.st = "planned" /\ Goto("send")
        \/ exit.st = "flying" /\ Goto("position")
        \/ exit.st \notin {"planned", "flying"} /\ run' = [run EXCEPT !.op = "settle", !.pc = "position"]
    BY <1>31, Zenon DEF QueryExit
  <2>3. \/ exit.st = "planned" /\ run'.pc = "send" /\ run'.op = run.op
        \/ exit.st = "flying" /\ run'.pc = "position" /\ run'.op = run.op
        \/ exit.st = "over" /\ run'.pc = "position" /\ run'.op = "settle"
    BY <1>0, <1>m, <2>1, <2>2 DEF Sent, RunType
  <2>4. plan'[exit.lv].by /\ ord'[exit.lv].at \notin OnBook
    BY <1>l, <2>1 DEF Seller
  <2> QED BY <2>1, <2>3, <2>4 DEF ExitFits, At, Sent
<1>32. CASE BeginUpdate
  <2>1. run'.pc = "cancel" /\ run'.op = "update" /\ exit' = exit
    BY <1>32 DEF BeginUpdate, Begin
  <2> QED BY <1>l, <2>1, ExitFrame DEF Selling
<1>33. CASE SkipLevel
  BY <1>33, <1>l, <1>m, ExitFrame DEF SkipLevel, Ctx, Book, Selling, At, Cancelling
<1>34. CASE CancelLevel
  BY <1>34, <1>l, <1>m, ExitFrame DEF CancelLevel, Ctx, Book, Selling, At, Cancelling
<1>35. CASE Cancelled
  BY <1>35, <1>l, <1>m, ExitFrame DEF Cancelled, Ctx, Book, Selling, At
<1>36. CASE Allocate
  <2>1. exit' = exit /\ (Leave \/ Goto("position"))
    BY <1>36, Zenon DEF Allocate
  <2>2. ~At("idle")
    BY <1>36 DEF Allocate, At
  <2>3. run'.pc = "idle" \/ (run'.pc = "position" /\ run'.op = run.op)
    BY <1>m, <2>1
  <2> QED BY <1>l, <2>1, <2>2, <2>3, ExitFrame DEF Selling
<1>37. ASSUME NEW l \in Levels, Arrive(l) PROVE ExitFits'
  BY <1>37, <1>l, ExitStays DEF Arrive, Ctx, Book
<1>38. ASSUME NEW l \in Levels, Fill(l) PROVE ExitFits'
  BY <1>38, <1>l, ExitStays DEF Fill, Ctx, Book
<1>39. ASSUME NEW l \in Levels, OwnerCancels(l) PROVE ExitFits'
  BY <1>39, <1>l, ExitStays DEF OwnerCancels, Ctx, Book
<1>40. ASSUME NEW l \in Levels, PriceLeaves(l) PROVE ExitFits'
  BY <1>40, <1>l, ExitStays DEF PriceLeaves, Ctx, Book
<1>41. ASSUME NEW l \in Levels, RetryDue(l) PROVE ExitFits'
  BY <1>41, <1>l, ExitStays DEF RetryDue, Ctx, Book
<1>42. ASSUME NEW s \in stray, StrayFills(s) PROVE ExitFits'
  BY <1>42, <1>l, ExitStays DEF StrayFills, Ctx, Book
<1>43. CASE OwnerReduces
  BY <1>43, <1>l, ExitStays DEF OwnerReduces, Ctx, Book
<1>44. CASE ExitRuns
  <2>1. /\ exit.st = "flying" /\ run' = run /\ plan' = plan /\ ord' = ord
        /\ \E e \in 0 .. Least(exit.qty, pos) : exit' = [exit EXCEPT !.st = "over", !.exec = e]
    BY <1>44 DEF ExitRuns, Book
  <2>2. exit'.st = "over" /\ exit'.lv = exit.lv
    BY <1>0, <2>1 DEF ExitType
  <2> QED BY <1>0, <2>1, <2>2 DEF ExitFits, At, Sent
<1>45. CASE HandlerStops
  BY <1>45, <1>l, <1>m, ExitFrame DEF HandlerStops, Ctx, Book
<1>46. CASE UNCHANGED vars
  BY <1>46, <1>l, ExitStays DEF vars
<1> QED BY <1>1, <1>2, <1>3, <1>4, <1>5, <1>6, <1>7, <1>8, <1>9, <1>10, <1>11, <1>12, <1>13,
           <1>14, <1>15, <1>16, <1>17, <1>18, <1>19, <1>20, <1>21, <1>22, <1>23, <1>24, <1>25,
           <1>26, <1>27, <1>28, <1>29, <1>30, <1>31, <1>32, <1>33, <1>34, <1>35, <1>36, <1>37,
           <1>38, <1>39, <1>40, <1>41, <1>42, <1>43, <1>44, <1>45,
           <1>46 DEF Next, Pass, ExecuteTPReduction, updateTakeProfits,
           Environment
-----------------------------------------------------------------------------
(* The invariant is inductive                                              *)

LEMMA InitInv == Init => IInv
<1> SUFFICES ASSUME Init PROVE IInv
  OBVIOUS
<1>0. /\ StartQty \in Nat /\ pos = StartQty /\ synced = 0 /\ upd = "" /\ exit = NoExit /\ run = NoRun
      /\ held = {} /\ asks = Asks /\ stray = {} /\ 0 \in 0 .. StartQty /\ StartQty \in 0 .. StartQty
      /\ row = [l \in Levels |-> "none"] /\ ord = [l \in Levels |-> NoOrder]
      /\ old = [l \in Levels |-> 0] /\ Recipe \in [Levels -> Nat \ {0}]
  <2>1. StartQty \in Nat /\ Recipe \in [Levels -> Nat \ {0}]
    BY LevelsFacts
  <2>2. 0 \in 0 .. StartQty /\ StartQty \in 0 .. StartQty
    BY <2>1
  <2> QED BY <2>1, <2>2 DEF Init
<1>1. ASSUME NEW l \in Levels
      PROVE  /\ plan[l] \in PlanType /\ LevelFits(plan[l], row[l], ord[l]) /\ plan[l].prior = old[l]
  <2> DEFINE t == plan[l]
  <2>1. t = [qty |-> Recipe[l], want |-> Recipe[l], fill |-> 0, prior |-> 0,
             repl |-> 0, sync |-> 0, done |-> FALSE, by |-> FALSE,
             oid |-> FALSE, cid |-> FALSE, st |-> "PLANNED"]
    BY DEF Init
  <2>2. Recipe[l] \in Nat
    BY <1>0
  <2> HIDE DEF t
  <2>3. t \in PlanType /\ t.prior = 0 /\ t.fill = 0 /\ ~t.done /\ ~t.oid /\ ~t.cid /\ t.st = "PLANNED"
    BY <2>1, <2>2 DEF PlanType, Statuses
  <2>4. NoOrder.at = "none" /\ NoOrder.exec = 0 /\ NoOrder.qty = 0 /\ NoOrder.at \notin OnBook
    BY DEF NoOrder, OnBook
  <2>5. LevelFits(t, "none", NoOrder)
    BY <2>3, <2>4 DEF LevelFits
  <2>6. row[l] = "none" /\ ord[l] = NoOrder /\ old[l] = 0
    BY <1>0
  <2> QED BY <2>3, <2>5, <2>6 DEF t
<1>2. plan \in [Levels -> PlanType]
  <2>1. plan = [l \in Levels |-> plan[l]]
    BY DEF Init
  <2> QED BY <1>1, <2>1
<1>3. /\ row \in [Levels -> RowStatus] /\ ord \in [Levels -> OrderType] /\ old \in [Levels -> Nat]
      /\ exit \in ExitType /\ run \in RunType
  <2>1. NoOrder \in OrderType /\ "none" \in RowStatus /\ NoExit \in ExitType /\ NoRun \in RunType
    BY <1>0 DEF NoOrder, OrderType, RowStatus, NoExit, ExitType, NoRun, RunType, Stages
  <2> QED BY <1>0, <2>1
<1>4. LadderTyped
  BY <1>0, <1>2, <1>3 DEF LadderTyped
<1>5. LevelsFit /\ PriorFits
  BY <1>1 DEF LevelsFit, PriorFits
<1>6. StageFits /\ ExitFits
  BY <1>0 DEF StageFits, ExitFits, At, NoRun, NoExit, Placing, Scaled, Sent
<1>7. StraysFit /\ WantFits
  <2>1. stray = {} /\ synced = 0
    BY <1>0
  <2>2. StraysFit
    BY <2>1 DEF StraysFit
  <2>3. ~(synced > 0)
    BY <2>1
  <2> QED BY <2>2, <2>3 DEF WantFits
<1> QED BY <1>4, <1>5, <1>6, <1>7 DEF IInv

LEMMA Inductive == IInv /\ [Next]_vars => IInv'
<1> SUFFICES ASSUME IInv, [Next]_vars PROVE IInv'
  OBVIOUS
<1>1. BookInv'
  BY BookStep
<1>2. run' \in RunType /\ RestTyped' /\ exit' \in ExitType
  BY RunStep, RestStep, ExitStep
<1>3. StageFits' /\ ExitFits'
  BY StageStep, ExitFitsStep
<1>4. LadderTyped'
  BY <1>1, <1>2 DEF BookInv, RestTyped, LadderTyped
<1> QED BY <1>1, <1>3, <1>4 DEF BookInv, IInv

LEMMA IsSafe ==
    IInv => TypeOK /\ NeverOversold /\ FillsKept
<1> SUFFICES ASSUME IInv PROVE TypeOK /\ NeverOversold /\ FillsKept
  OBVIOUS
<1>0. LadderTyped /\ LevelsFit /\ StageFits /\ ExitFits /\ StraysFit /\ PriorFits /\ WantFits
  BY DEF IInv
<1>1. TypeOK
  <2>1. ASSUME NEW l \in Levels
        PROVE  /\ \A k \in {"qty", "want", "fill", "prior", "repl", "sync"} : plan[l][k] \in Nat
               /\ plan[l].st \in Statuses /\ row[l] \in RowStatus
               /\ ord[l].at \in OrderStates /\ ord[l].exec <= ord[l].qty
    <3>1. plan[l] \in PlanType /\ row[l] \in RowStatus /\ ord[l] \in OrderType
      BY <1>0, Basics
    <3>2. \A k \in {"qty", "want", "fill", "prior", "repl", "sync"} : plan[l][k] \in Nat
      BY <3>1 DEF PlanType
    <3>3. ord[l].exec <= ord[l].qty
      BY <1>0 DEF LevelsFit, LevelFits
    <3> QED BY <3>1, <3>2, <3>3 DEF PlanType, OrderType, OrderStates
  <2>2. exit.lv \in Levels \cup {0} /\ exit.st \in {"none", "intent", "planned", "flying", "over"}
    BY <1>0 DEF LadderTyped, ExitType
  <2> QED BY <1>0, <2>1, <2>2 DEF TypeOK, LadderTyped, Statuses, RowStatus, OrderStates
<1>2. NeverOversold
  <2>1. OneSellerPerLevel
    BY <1>0 DEF OneSellerPerLevel, StraysFit, ExitFits, Sent, OnBook
  <2>2. WithinPosition
    BY <1>0 DEF WithinPosition, WantFits, StageFits, Scaled, At
  <2> QED BY <2>1, <2>2 DEF NeverOversold
<1>3. FillsKept
  BY <1>0 DEF FillsKept, PriorFits, LevelsFit, LevelFits
<1> QED BY <1>1, <1>2, <1>3

-----------------------------------------------------------------------------
(* The two parts together                                                  *)

PartsInv ==
    IInv /\ (part = "journal" => Journal!IInv) /\ (part = "asked" => Asked!IInv)

LEMMA PartsInitInv == PartsInit => PartsInv
<1> SUFFICES ASSUME PartsInit PROVE PartsInv
  OBVIOUS
<1>1. IInv
  BY InitInv DEF PartsInit
<1>2. part = "journal" => Journal!IInv
  BY JournalAssumption, Journal!InitInv DEF JournalAssumption, PartsInit
<1>3. part = "asked" => Asked!IInv
  BY JournalAssumption, Asked!InitInv DEF JournalAssumption, PartsInit
<1> QED BY <1>1, <1>2, <1>3 DEF PartsInv

(* A step is a step of its own part, and the other stands still.           *)
LEMMA PartSteps ==
    ASSUME [PartsNext]_all
    PROVE  /\ part' = part /\ [Next]_vars
           /\ part = "journal" => [Journal!Next]_(Journal!vars)
           /\ part = "asked" => [Asked!Next]_(Asked!vars)
<1>1. CASE UNCHANGED all
  BY <1>1 DEF all, xs, Journal!vars, Asked!vars
<1>2. CASE PartsNext
  BY <1>2 DEF PartsNext, OfLadder, OfJournal, OfAsked
<1> QED BY <1>1, <1>2

LEMMA PartsInductive == PartsInv /\ [PartsNext]_all => PartsInv'
<1> SUFFICES ASSUME PartsInv, [PartsNext]_all PROVE PartsInv'
  OBVIOUS
<1>1. IInv' /\ part' = part
  BY Inductive, PartSteps DEF PartsInv
<1>2. CASE part = "journal"
  BY <1>1, <1>2, Journal!Inductive, PartSteps DEF PartsInv
<1>3. CASE part = "asked"
  BY <1>1, <1>3, Asked!Inductive, PartSteps DEF PartsInv
<1> QED BY <1>1, <1>2, <1>3 DEF PartsInv

(* Both parts keep their invariants.                                       *)
THEOREM Invariance == PartsSpec => []PartsInv
<1>1. PartsSpec => PartsInit /\ [][PartsNext]_all
  BY PTL DEF PartsSpec
<1> QED BY <1>1, PartsInitInv, PartsInductive, PTL

(* Both parts are type correct.                                            *)
THEOREM TypeCorrect == PartsSpec => []PartsTypeOK
<1>1. PartsInv => PartsTypeOK
  BY IsSafe DEF PartsInv, PartsTypeOK, Journal!IInv, Asked!IInv
<1> QED BY <1>1, Invariance, PTL

(* What the journal calls never submitted was not: no action of a          *)
(* rejected signal reached the venue.                                      *)
THEOREM NeverSent == PartsSpec => []RejectedNeverSent
<1>1. PartsInv => RejectedNeverSent
  BY DEF PartsInv, RejectedNeverSent, Journal!IInv, Journal!JournalFits,
         Journal!RowFits, Journal!RejectedNeverSent, Asked!IInv,
         Asked!JournalFits, Asked!RowFits, Asked!RejectedNeverSent
<1> QED BY <1>1, Invariance, PTL

(* The ladder never sells more than the trade holds: one order at most     *)
(* sells the lots of a level, and the levels that a pass sets to work      *)
(* never ask for more than the position it has read (tpRescale,            *)
(* SplitTPQuantities, ExecuteTPReduction).                                 *)
THEOREM Oversold == PartsSpec => []NeverOversold
<1>1. PartsInv => NeverOversold
  BY IsSafe DEF PartsInv
<1> QED BY <1>1, Invariance, PTL

(* What a level sold under the identities it gave up is recorded as prior  *)
(* fills, but for an identity that an update dropped unsettled (replanTP). *)
THEOREM Fills == PartsSpec => []FillsKept
<1>1. PartsInv => FillsKept
  BY IsSafe DEF PartsInv
<1> QED BY <1>1, Invariance, PTL
=============================================================================
