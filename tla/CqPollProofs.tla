---------------------------- MODULE CqPollProofs ----------------------------
(***************************************************************************)
(* The deadline of a poll, for every timeout and every granularity of the   *)
(* clock.  The invariant relates the two elapsed times while the inner poll *)
(* runs: the outer one is ahead of it by what the outer loop had used up    *)
(* (timeout - remaining) plus the one clock reading between the two starts. *)
(***************************************************************************)
EXTENDS CqPoll, TLAPS

Inner == pc \in {"inner", "check"} /\ timeout > 0 /\ remaining > 0

InnerInv == Inner => /\ inner <= remaining
                     /\ timeout - remaining + inner < elapsed
                     /\ elapsed <= timeout - remaining + inner + MaxTick

OuterInv == pc = "outer" /\ timeout > 0 /\ remaining > 0 => elapsed <= timeout + MaxTick

SpinInv == timeout = 0 => remaining = 0

IInv == TypeOK /\ NoEarlyTimeout /\ ReturnsOnTime /\ InnerInv /\ OuterInv /\ SpinInv

----------------------------------------------------------------------------
LEMMA TimeoutNat == TypeOK => timeout \in Nat /\ MaxTick \in Nat \ {0} /\ remaining \in Nat
                              /\ elapsed \in Nat /\ inner \in Nat
  BY TimeoutsAssumption, TickAssumption DEF TypeOK, Horizon

LEMMA InitInv == Init => IInv
  BY TickAssumption
     DEF Init, IInv, TypeOK, NoEarlyTimeout, ReturnsOnTime, InnerInv, OuterInv, SpinInv,
         Inner, Horizon

LEMMA StepInv == IInv /\ [Next]_vars => IInv'
<1> SUFFICES ASSUME IInv, [Next]_vars PROVE IInv'
  OBVIOUS
<1>n. timeout \in Nat /\ MaxTick \in Nat \ {0} /\ remaining \in Nat
      /\ elapsed \in Nat /\ inner \in Nat
  BY TimeoutNat DEF IInv
<1> USE <1>n, TickAssumption, OthersAssumption
    DEF IInv, TypeOK, NoEarlyTimeout, ReturnsOnTime, InnerInv, OuterInv, SpinInv, Inner, Horizon
<1>1. ASSUME NEW t \in Timeouts, Call(t) PROVE IInv'
  <2>1. t \in Nat
    BY TimeoutsAssumption
  <2> QED BY <1>1, <2>1 DEF Call
<1>2. ASSUME NEW d \in Ticks, NEW g \in Ticks, Outer(d, g) PROVE IInv'
  <2> DEFINE now == Later(elapsed, d)
  <2>0. d \in 1 .. MaxTick /\ g \in 1 .. MaxTick
    BY DEF Ticks
  <2>1. now \in Nat /\ now <= Horizon /\ (elapsed < Horizon => now > elapsed)
        /\ now <= elapsed + d
    BY <2>0 DEF Later
  <2>2. CASE timeout > 0 /\ now > timeout
    <3>1. elapsed' = now /\ pc' = "idle" /\ ret' = "timed_out"
          /\ UNCHANGED <<remaining, inner, timeout, others, mine, budget>>
      BY <1>2, <2>2 DEF Outer, Expired, Return
    <3>2. remaining > 0 => now <= timeout + 2 * MaxTick
      BY <1>2, <2>0, <2>1, <2>2 DEF Outer
    <3> QED BY <3>1, <3>2, <2>1, <2>2
  <2>3. CASE ~(timeout > 0 /\ now > timeout)
    <3>1. /\ elapsed' = Later(now, g) /\ inner' = 0 /\ remaining' = Remaining(now)
          /\ pc' = "inner" /\ ret' = ret
          /\ UNCHANGED <<timeout, others, mine, budget>>
      BY <1>2, <2>3 DEF Outer, Expired
    <3>2. timeout > 0 => remaining' = timeout - now /\ remaining' \in 0 .. timeout
      BY <3>1, <2>1, <2>3 DEF Remaining
    <3>3. timeout = 0 => remaining' = 0
      BY <3>1 DEF Remaining
    <3>4. elapsed' \in 0 .. Horizon
      BY <3>1, <2>0, <2>1 DEF Later
    <3>5. timeout > 0 => now < elapsed' /\ elapsed' <= now + MaxTick
      BY <3>1, <2>0, <2>1, <2>3 DEF Later
    <3>6. ret = "timed_out" => elapsed' > timeout
      BY <3>1, <2>1, <2>0, <2>3 DEF Later
    <3>7. TypeOK'
      BY <3>1, <3>2, <3>3, <3>4
    <3>8. NoEarlyTimeout'
      BY <3>1, <3>6
    <3>9. ReturnsOnTime' /\ InnerInv' /\ OuterInv' /\ SpinInv'
      BY <3>1, <3>2, <3>3, <3>4, <3>5, <2>1, <2>3
    <3> QED BY <3>7, <3>8, <3>9
  <2> QED BY <2>2, <2>3
<1>3. CASE Discard
  BY <1>3 DEF Discard
<1>4. CASE Take
  BY <1>4 DEF Take, Return
<1>5. CASE Nothing
  BY <1>5 DEF Nothing
<1>6. ASSUME NEW d \in Ticks, Check(d) PROVE IInv'
  <2>0. d \in 1 .. MaxTick
    BY DEF Ticks
  <2>1. elapsed' \in 0 .. Horizon /\ inner' \in 0 .. Horizon
        /\ elapsed' >= elapsed
    BY <1>6, <2>0 DEF Check, Later
  <2>2. UNCHANGED <<timeout, remaining, others, mine, budget>> /\ pc = "check"
        /\ pc' \in {"idle", "inner"} /\ ret' \in {ret, "timed_out"}
    BY <1>6 DEF Check, Return
  <2>3. CASE timeout > 0 /\ remaining > 0
    <3>1. elapsed' = elapsed + d /\ inner' = inner + d
      BY <1>6, <2>0, <2>2, <2>3 DEF Check, Later
    <3>2. CASE inner' > remaining
      <4>1. pc' = "idle" /\ ret' = "timed_out"
        BY <1>6, <2>3, <3>2 DEF Check, Expired, Return
      <4> QED BY <2>0, <2>1, <2>2, <2>3, <3>1, <3>2, <4>1
    <3>3. CASE ~(inner' > remaining)
      <4>1. pc' = "inner" /\ ret' = ret
        BY <1>6, <2>3, <3>3 DEF Check, Expired, Return
      <4> QED BY <2>0, <2>1, <2>2, <2>3, <3>1, <3>3, <4>1
    <3> QED BY <3>2, <3>3
  <2>4. CASE ~(timeout > 0 /\ remaining > 0)
    <3>1. remaining = 0
      BY <2>4
    <3>2. pc' = "inner" /\ ret' = ret
      BY <1>6, <3>1 DEF Check, Return
    <3> QED BY <2>1, <2>2, <3>1, <3>2
  <2> QED BY <2>3, <2>4
<1>7. CASE PostOther
  BY <1>7 DEF PostOther
<1>8. CASE PostMine
  BY <1>8 DEF PostMine
<1>9. CASE UNCHANGED vars
  BY <1>9 DEF vars
<1> QED
  BY <1>1, <1>2, <1>3, <1>4, <1>5, <1>6, <1>7, <1>8, <1>9 DEF Next, Poller

----------------------------------------------------------------------------
\* The invariant holds in every behaviour of the poll.
THEOREM PollInvariance == Spec => []IInv
  BY InitInv, StepInv, PTL DEF Spec

\* cq_poll_for_cid never reports a time-out before timeout_cycles have passed
\* since it was called, for every timeout and clock granularity.
THEOREM NoEarlyTimeoutTheorem == Spec => []NoEarlyTimeout
<1>1. IInv => NoEarlyTimeout
  BY DEF IInv
<1> QED BY <1>1, PollInvariance, PTL

\* As long as its limit is not lost, a poll ends at most two clock readings
\* after its deadline, whatever it discards on the way.
THEOREM ReturnsOnTimeTheorem == Spec => []ReturnsOnTime
<1>1. IInv => ReturnsOnTime
  BY DEF IInv
<1> QED BY <1>1, PollInvariance, PTL
=============================================================================
