------------------------------- MODULE CqPoll -------------------------------
(***************************************************************************)
(* The deadline arithmetic of cq_poll_for_cid and of the cq_poll_completion *)
(* it calls (src/device/cq_poll.cuh).  The other modules let a poll time    *)
(* out whenever nothing new is in the ring; here the GPU clock is explicit. *)
(*                                                                         *)
(* The ring is reduced to the number of unread completions of other         *)
(* commands in front of the awaited one and to whether that one is there.   *)
(* clock64() advances by 1 .. MaxTick cycles between two reads.  What       *)
(* matters of the clock is the time since the two `start' reads; both are   *)
(* kept up to Horizon, beyond which no comparison can change.               *)
(***************************************************************************)
EXTENDS Naturals

CONSTANTS
    Timeouts,    \* the values of timeout_cycles; 0 means "spin forever"
    MaxTick,     \* bound: cycles between two reads of the clock
    MaxOthers    \* bound: late completions of other commands during one call

ASSUME TimeoutsAssumption == Timeouts \subseteq Nat
ASSUME TickAssumption == MaxTick \in Nat \ {0}
ASSUME OthersAssumption == MaxOthers \in Nat

VARIABLES
    pc,          \* "idle", "outer" (top of cq_poll_for_cid), "inner", "check"
    timeout,     \* timeout_cycles
    remaining,   \* what is left for the inner poll
    elapsed,     \* cycles since `start' of cq_poll_for_cid
    inner,       \* cycles since `start' of cq_poll_completion
    others,      \* unread completions of other commands, ahead of ours
    mine,        \* the awaited completion: "no", "ready", "taken"
    budget,      \* bound: other completions that may still arrive
    ret          \* "none", "cqe", "timed_out"

vars == <<pc, timeout, remaining, elapsed, inner, others, mine, budget, ret>>

Horizon == timeout + 3 * MaxTick

\* A clock reading d cycles later, cut off where it no longer matters.
Later(t, d) == IF t + d > Horizon THEN Horizon ELSE t + d

Init ==
    /\ pc = "idle" /\ timeout = 0 /\ remaining = 0 /\ elapsed = 0 /\ inner = 0
    /\ others = 0 /\ mine = "no" /\ budget = 0 /\ ret = "none"

\* Defects: the whole timeout is granted again after every discarded
\* completion; the deadline itself counts as late; the clock is never looked
\* at.
RemainingWhole(e) == timeout
ExpiredEarly(t, limit) == t >= limit
ExpiredNever(t, limit) == FALSE

----------------------------------------------------------------------------
Call(t) ==
    /\ pc = "idle"
    /\ pc' = "outer" /\ timeout' = t
    /\ elapsed' = 0 /\ inner' = 0 /\ remaining' = 0
    /\ others' = 0 /\ mine' = "no" /\ budget' = MaxOthers /\ ret' = "none"

Expired(t, limit) == t > limit

Remaining(e) == IF timeout > 0 THEN timeout - e ELSE 0

Return(code) == pc' = "idle" /\ ret' = code

\* Top of the loop of cq_poll_for_cid: read the clock, give up or compute
\* what is left, call cq_poll_completion, which reads the clock again.
Outer(d, g) ==
    /\ pc = "outer"
    /\ LET now == Later(elapsed, d)
       IN  IF timeout > 0 /\ Expired(now, timeout)
           THEN /\ elapsed' = now /\ Return("timed_out")
                /\ UNCHANGED <<remaining, inner>>
           ELSE /\ remaining' = Remaining(now)
                /\ elapsed' = Later(now, g) /\ inner' = 0
                /\ pc' = "inner" /\ UNCHANGED ret
    /\ UNCHANGED <<timeout, others, mine, budget>>

\* A completion of another command is consumed and dropped.
Discard ==
    /\ pc = "inner" /\ others > 0
    /\ others' = others - 1
    /\ pc' = "outer"
    /\ UNCHANGED <<timeout, remaining, elapsed, inner, mine, budget, ret>>

Take ==
    /\ pc = "inner" /\ others = 0 /\ mine = "ready"
    /\ mine' = "taken" /\ Return("cqe")
    /\ UNCHANGED <<timeout, remaining, elapsed, inner, others, budget>>

\* No new entry at the head: on to the time-out check.
Nothing ==
    /\ pc = "inner" /\ others = 0 /\ mine # "ready"
    /\ pc' = "check"
    /\ UNCHANGED <<timeout, remaining, elapsed, inner, others, mine, budget, ret>>

\* The time-out check of cq_poll_completion; 0 means no limit.
Check(d) ==
    /\ pc = "check"
    /\ elapsed' = Later(elapsed, d) /\ inner' = Later(inner, d)
    /\ IF remaining > 0 /\ Expired(inner', remaining)
       THEN Return("timed_out")
       ELSE pc' = "inner" /\ UNCHANGED ret
    /\ UNCHANGED <<timeout, remaining, others, mine, budget>>

\* The controller (external) posts the completion of an abandoned command,
\* or the awaited one.
PostOther ==
    /\ pc # "idle" /\ budget > 0 /\ mine = "no"
    /\ others' = others + 1 /\ budget' = budget - 1
    /\ UNCHANGED <<pc, timeout, remaining, elapsed, inner, mine, ret>>

PostMine ==
    /\ pc # "idle" /\ mine = "no"
    /\ mine' = "ready"
    /\ UNCHANGED <<pc, timeout, remaining, elapsed, inner, others, budget, ret>>

----------------------------------------------------------------------------
Ticks == 1 .. MaxTick

Poller == (\E d, g \in Ticks : Outer(d, g)) \/ Discard \/ Take \/ Nothing
          \/ (\E d \in Ticks : Check(d))

Next == (\E t \in Timeouts : Call(t)) \/ Poller \/ PostOther \/ PostMine

Spec == Init /\ [][Next]_vars

\* The GPU thread keeps running; the controller owes nothing.
FairSpec == Spec /\ WF_vars(Poller)

----------------------------------------------------------------------------
(* Properties *)

\* Clocks and limits of cq_poll_for_cid keep their ranges: the remaining time
\* is never more than the timeout.
TypeOK ==
    /\ pc \in {"idle", "outer", "inner", "check"}
    /\ timeout \in Timeouts \cup {0} /\ remaining \in 0 .. timeout
    /\ elapsed \in 0 .. Horizon /\ inner \in 0 .. Horizon
    /\ others \in Nat /\ budget \in Nat
    /\ mine \in {"no", "ready", "taken"} /\ ret \in {"none", "cqe", "timed_out"}

\* A poll gives up only after more than timeout_cycles since it was called,
\* although the time is measured in two pieces from two different starts, and
\* never when the caller asked to spin forever.
NoEarlyTimeout == ret = "timed_out" => timeout > 0 /\ elapsed > timeout

\* The inner poll was handed 0 cycles, which it takes for "no limit", because
\* the deadline was read at its very last cycle.
LimitLost == timeout > 0 /\ remaining = 0 /\ pc \in {"inner", "check"}

\* Otherwise no poll goes on for more than two clock readings past its
\* deadline, however many completions of other commands it discards.
ReturnsOnTime == timeout > 0 /\ remaining > 0 => elapsed <= timeout + 2 * MaxTick

\* A poll with a deadline returns, whether or not the controller ever answers,
\* unless its limit was lost.
ReturnsUnlessLost == pc # "idle" /\ timeout > 0 ~> pc = "idle" \/ LimitLost
============================================================================
