-------------------------- MODULE HealthWaitProofs --------------------------
(***************************************************************************)
(* Proofs about the health wait for every timeout, default, poll interval  *)
(* and latency.                                                            *)
(***************************************************************************)
EXTENDS HealthWait, TLAPS

(***************************************************************************)
(* Where the clock can be at each line: the function sleeps only if the    *)
(* judgement before was not overdue, and every other line is reached from  *)
(* there, or from the first inspect, within an interval and latencies.     *)
(***************************************************************************)
ClockInv ==
  /\ pc # "done" => at <= now /\ now <= Leaves
  /\ pc = "sleep" => at <= deadline
  /\ pc = "poll" => at <= deadline + PollInterval
  /\ pc = "judge" => at <= deadline + PollInterval + MaxLatency

\* Between the poll and its judgement the container can only become healthy
\* anew; the budget was granted in full from the first inspect on.
VerdictInv ==
  /\ pc = "judge" /\ health = "healthy" => since >= at
  /\ pc \in {"poll", "judge", "sleep"} => deadline >= Budget
  /\ result # "none" => pc = "done"
  /\ result = "timeout" => at > deadline /\ deadline >= Budget
  /\ result = "timeout" /\ health = "healthy" => since + MaxLatency > deadline

IInv == TypeOK /\ ClockInv /\ VerdictInv

\* The budget is positive whatever timeout is configured.
LEMMA BudgetPositive == Budget \in Nat /\ Budget > 0
BY HealthWaitAssumption DEF Budget

\* The invariant holds before the first inspect.
LEMMA InitIInv == Init => IInv
<1>. SUFFICES ASSUME Init PROVE IInv
  OBVIOUS
<1>. USE DEF Init
<1>1. TypeOK
  <2>1. {now, at, since} \subseteq Nat /\ deadline \in Int
    OBVIOUS
  <2>2. cancelled \in BOOLEAN
    OBVIOUS
  <2>3. QED BY <2>1, <2>2 DEF TypeOK, Results
<1>2. ClockInv
  BY HealthWaitAssumption DEF ClockInv, Leaves
<1>3. VerdictInv
  BY DEF VerdictInv
<1>4. QED BY <1>1, <1>2, <1>3 DEF IInv

\* It is kept by the code, the clock and the container.
LEMMA StepIInv == IInv /\ [Next]_vars => IInv'
<1>. SUFFICES ASSUME IInv, [Next]_vars PROVE IInv'
  OBVIOUS
<1>. USE HealthWaitAssumption, BudgetPositive
     DEF IInv, TypeOK, Results, ClockInv, VerdictInv, Leaves
<1>1. CASE InitialInspect
  BY <1>1 DEF InitialInspect, Goto, Return, containerVars
<1>2. CASE Poll
  BY <1>2 DEF Poll, Goto, Return, containerVars
<1>3. CASE Judge
  BY <1>3 DEF Judge, Overdue, Goto, Return, containerVars
<1>4. CASE Wake
  BY <1>4 DEF Wake, Goto, Return, containerVars
<1>5. CASE Clock
  BY <1>5 DEF Clock, codeVars, containerVars
<1>6. CASE Cancel
  BY <1>6 DEF Cancel, codeVars, containerVars
<1>7. CASE Container
  BY <1>7 DEF Container, codeVars
<1>8. CASE UNCHANGED vars
  BY <1>8 DEF vars
<1>9. QED
  BY <1>1, <1>2, <1>3, <1>4, <1>5, <1>6, <1>7, <1>8 DEF Next, Code, Returned

\* The types of the wait's variables.
THEOREM WaitTypeCorrect == Spec => []TypeOK
<1>1. IInv => TypeOK
  BY DEF IInv
<1>2. QED BY <1>1, InitIInv, StepIInv, PTL DEF Spec

\* The wait outlasts its deadline by one poll interval and two latencies.
THEOREM BudgetIsKept == Spec => []BudgetKept
<1>1. IInv => BudgetKept
  BY HealthWaitAssumption DEF IInv, TypeOK, ClockInv, Leaves, BudgetKept
<1>2. QED BY <1>1, InitIInv, StepIInv, PTL DEF Spec

\* A container that was healthy a latency before the deadline is never
\* timed out.
THEOREM TimeoutIsTrue == Spec => []NoFalseTimeout
<1>1. IInv => NoFalseTimeout
  BY DEF IInv, VerdictInv, NoFalseTimeout
<1>2. QED BY <1>1, InitIInv, StepIInv, PTL DEF Spec

\* No timeout before the configured, or else the default, budget is over.
THEOREM BudgetIsGranted == Spec => []BudgetGranted
<1>1. IInv => BudgetGranted
  BY HealthWaitAssumption DEF IInv, TypeOK, VerdictInv, Budget, BudgetGranted
<1>2. QED BY <1>1, InitIInv, StepIInv, PTL DEF Spec
=============================================================================
