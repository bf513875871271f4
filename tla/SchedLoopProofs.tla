--------------------------- MODULE SchedLoopProofs ---------------------------
(***************************************************************************)
(* For every number of processes and every table of positive priorities:   *)
(* the loops of sched0 and xsched01 keep their invariants, and a call of   *)
(* either is one Switch of Scheduling.                                     *)
(***************************************************************************)
EXTENDS SchedLoop, TLAPS

\* Every quota is an integer.
LEMMA QuotaType == Quotas \subseteq [Procs -> Int]
BY PriorityAssumption DEF Quotas, sched0Quota, xsched01Quota, Procs

\* At most one process is the first of those with most ticks, so exhibiting
\* one computes Best.
LEMMA BestIsUnique ==
  ASSUME NEW t \in [Procs -> Int], NEW q \in Procs, IsBest(t, q)
  PROVE  Best(t) = q
<1>1. ASSUME NEW r \in Procs, IsBest(t, r) PROVE r = q
  BY <1>1, NAssumption DEF IsBest, Procs
<1> QED BY <1>1 DEF Best

\* Every variable of SchedLoop keeps its type: the index stays within the
\* table and *p_ready always points to an entry of it.
THEOREM SchedLoopTypeOK == Spec => []TypeOK
<1>1. Init => TypeOK
  BY NAssumption, PriorityAssumption DEF Init, TypeOK, Procs, Quotas
<1>2. TypeOK /\ [Next]_vars => TypeOK'
  <2> SUFFICES ASSUME TypeOK, [Next]_vars PROVE TypeOK'
    OBVIOUS
  <2> USE DEF TypeOK
  <2>1. CASE Tick
    BY <2>1, FloorAssumption DEF Tick, SpendTick
  <2>2. CASE Call
    BY <2>2, NAssumption DEF Call
  <2>3. CASE Scan
    BY <2>3, NAssumption DEF Scan, Procs
  <2>4. CASE ScanEnd
    BY <2>4, NAssumption DEF ScanEnd
  <2>5. CASE Refill
    BY <2>5, NAssumption, QuotaType DEF Refill, Procs
  <2>6. CASE RefillEnd
    BY <2>6, NAssumption DEF RefillEnd
  <2>7. CASE UNCHANGED vars
    BY <2>7 DEF vars
  <2> QED BY <2>1, <2>2, <2>3, <2>4, <2>5, <2>6, <2>7 DEF Next, Loop
<1> QED BY <1>1, <1>2, PTL DEF Spec

\* The loop invariants hold throughout: the scan has kept the first of the
\* greatest positive counts it has seen, the refill what it has renewed.
THEOREM SchedLoopInvariant == Spec => [](TypeOK /\ LoopInv)
<1>1. Init => LoopInv
  BY DEF Init, LoopInv
<1>2. TypeOK /\ LoopInv /\ [Next]_vars => LoopInv'
  <2> SUFFICES ASSUME TypeOK, LoopInv, [Next]_vars PROVE LoopInv'
    OBVIOUS
  <2> USE DEF TypeOK, LoopInv
  <2>1. CASE Tick
    BY <2>1 DEF Tick
  <2>2. CASE Call
    BY <2>2 DEF Call, Procs
  <2>3. CASE Scan
    BY <2>3, NAssumption DEF Scan, Procs
  <2>4. CASE ScanEnd
    BY <2>4, NAssumption DEF ScanEnd, Procs
  <2>5. CASE Refill
    BY <2>5, NAssumption, QuotaType DEF Refill, Procs
  <2>6. CASE RefillEnd
    BY <2>6, NAssumption DEF RefillEnd, Procs
  <2>7. CASE UNCHANGED vars
    BY <2>7 DEF vars
  <2> QED BY <2>1, <2>2, <2>3, <2>4, <2>5, <2>6, <2>7 DEF Next, Loop
<1> QED BY <1>1, <1>2, SchedLoopTypeOK, PTL DEF Spec

\* A scan that ends with a positive maximum has left *p_ready at Best.
LEMMA ScanFindsBest ==
  ASSUME TypeOK, LoopInv, pc = "scan", p = N, greatest_ticks # 0
  PROVE  ~Exhausted(ticks) /\ Best(ticks) = p_ready
<1>1. IsBest(ticks, p_ready)
  BY NAssumption DEF TypeOK, LoopInv, IsBest, Procs
<1>2. ~Exhausted(ticks)
  BY <1>1 DEF IsBest, Exhausted, TypeOK, Procs
<1> QED BY <1>1, <1>2, BestIsUnique DEF TypeOK

\* SchedOps as Scheduling sees it through the instance is SchedOps itself.
LEMMA SameOps ==
  /\ \A t : Abs!Best(t) = Best(t) /\ Abs!SpendTick(t) = SpendTick(t)
  /\ \A t, q : Abs!Filled(t, q) = Filled(t, q)
  /\ Abs!Quotas = Quotas
  BY DEF Abs!Best, Best, Abs!IsBest, IsBest, Abs!SpendTick, SpendTick,
         Abs!Filled, Filled, Abs!Exhausted, Exhausted, Abs!Quotas, Quotas,
         Abs!sched0Quota, sched0Quota, Abs!xsched01Quota, xsched01Quota,
         Abs!Procs, Procs

\* sched0 and xsched01 implement the one-step scheduler: every iteration is
\* a stutter of Scheduling except the call itself, which is its Switch.
THEOREM SchedLoopRefines == Spec => ImplementsScheduling
<1>1. Init => Abs!Init
  BY DEF Init, Abs!Init, AbsTicks, AbsReady
<1>2. TypeOK /\ TypeOK' /\ LoopInv /\ [Next]_vars => [Abs!Next]_Abs!svars
  <2> SUFFICES ASSUME TypeOK, TypeOK', LoopInv, [Next]_vars
               PROVE  [Abs!Next]_Abs!svars
    OBVIOUS
  <2> USE DEF Abs!svars
  <2>1. CASE Tick
    BY <2>1, SameOps DEF Tick, AbsTicks, AbsReady, Abs!Next, Abs!Charge
  <2>2. CASE Call
    BY <2>2, SameOps DEF Call, AbsTicks, AbsReady, Abs!Next, Abs!Switch
  <2>3. CASE Scan
    BY <2>3 DEF Scan, AbsTicks, AbsReady
  <2>4. CASE ScanEnd
    <3>1. CASE greatest_ticks = 0
      <4>1. Exhausted(ticks)
        BY <2>4, <3>1, NAssumption DEF ScanEnd, Exhausted, TypeOK, LoopInv, Procs
      <4> QED BY <2>4, <3>1, <4>1 DEF ScanEnd, AbsTicks, AbsReady, Filled
    <3>2. CASE greatest_ticks # 0
      BY <2>4, <3>2, ScanFindsBest DEF ScanEnd, AbsTicks, AbsReady, Filled
    <3> QED BY <3>1, <3>2
  <2>5. CASE Refill
    BY <2>5 DEF Refill, AbsTicks, AbsReady
  <2>6. CASE RefillEnd
    <3>1. ticks = quota
      BY <2>6, QuotaType, NAssumption DEF RefillEnd, TypeOK, LoopInv, Procs
    <3> QED BY <2>6, <3>1 DEF RefillEnd, AbsTicks, AbsReady, Filled
  <2>7. CASE UNCHANGED vars
    BY <2>7 DEF vars, AbsTicks, AbsReady
  <2> QED BY <2>1, <2>2, <2>3, <2>4, <2>5, <2>6, <2>7 DEF Next, Loop
<1> QED
  BY <1>1, <1>2, SchedLoopInvariant, PTL DEF Spec, ImplementsScheduling, Abs!Spec
=============================================================================
