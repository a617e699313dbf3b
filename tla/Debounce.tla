------------------------------ MODULE Debounce ------------------------------
(***************************************************************************)
(* The debounce batch of engine.loop (reconciler.go): when the batch is    *)
(* flushed, for fields with different coalescing windows that join it at   *)
(* different times.  Reconciler abstracts this to a Boolean timer.         *)
(*                                                                         *)
(* Time is the engine's clock.  The reconciler goroutine is prompt: time   *)
(* does not pass a due timer, so `now' moves only up to the deadline.      *)
(***************************************************************************)
EXTENDS Integers

CONSTANTS
    Paths,      \* fields of the struct
    Overrides,  \* the ?debounce= durations of a field's refs, by field
    Coalesce,   \* WithDebounce
    MaxTime     \* bound: the clock stops here

\* A negative duration parses, so a window may be negative.
ASSUME DebounceAssumption ==
    /\ Overrides \in [Paths -> SUBSET Int]
    /\ \A f \in Paths : Overrides[f] # {} =>
          \E d \in Overrides[f] : \A e \in Overrides[f] : d <= e
    /\ Coalesce \in Int /\ MaxTime \in Nat

\* The smallest ?debounce= of a field's refs, else the engine's default.
DebounceFor(f) ==
    IF Overrides[f] = {} THEN Coalesce
    ELSE CHOOSE d \in Overrides[f] : \A e \in Overrides[f] : d <= e

VARIABLES
    now,           \* the clock
    pending,       \* the batch
    pendingSince,  \* when the first field joined it
    window,        \* how long it waits from then on
    deadline,      \* when the timer fires
    armed,         \* there is a timer
    joined         \* auxiliary: when each field of the batch joined it

vars == <<now, pending, pendingSince, window, deadline, armed, joined>>

Max0(n) == IF n < 0 THEN 0 ELSE n

Init ==
    /\ now = 0 /\ pending = {} /\ pendingSince = 0 /\ window = 0
    /\ deadline = 0 /\ armed = FALSE
    /\ joined = [f \in Paths |-> 0]

-----------------------------------------------------------------------------
(* addPending, for every field of S, then arm *)

\* The first field to join sets pendingSince.
Since == IF pending = {} THEN now ELSE pendingSince

\* The windows the batch has to respect once S has joined.
Windows(S) == {DebounceFor(f) : f \in S} \cup (IF pending = {} THEN {} ELSE {window})

\* arm: NewTimer(max(0, pendingSince + window - now)).
ArmAt(since, w) == now + Max0(since + w - now)

Join(S) ==
    \E w \in Windows(S) :
        /\ \A x \in Windows(S) : w <= x
        /\ pending' = pending \cup S
        /\ pendingSince' = Since
        /\ window' = w
        /\ deadline' = ArmAt(Since, w)
        /\ armed' = TRUE
        /\ joined' = [f \in Paths |-> IF f \in S \ pending THEN now ELSE joined[f]]
        /\ UNCHANGED now

\* markChanged: one field has a new value.
MarkChanged(f) == Join({f})

\* unblock: every field whose change a block held back joins.
Unblock(S) == S # {} /\ Join(S)

\* loop's timer branch: flush, then an empty batch and no timer.
TimerFires ==
    /\ armed /\ now >= deadline
    /\ pending' = {} /\ armed' = FALSE
    /\ UNCHANGED <<now, pendingSince, window, deadline, joined>>

Tick ==
    /\ now < MaxTime
    /\ armed => now < deadline
    /\ now' = now + 1
    /\ UNCHANGED <<pending, pendingSince, window, deadline, armed, joined>>

Next ==
    \/ \E f \in Paths : MarkChanged(f)
    \/ \E S \in SUBSET Paths : Unblock(S)
    \/ TimerFires
    \/ Tick

Spec == Init /\ [][Next]_vars

-----------------------------------------------------------------------------
(* Properties *)

\* Type invariant of the batch.
TypeOK ==
    /\ now \in Nat /\ deadline \in Nat /\ pendingSince \in Nat /\ window \in Int
    /\ pending \in SUBSET Paths /\ armed \in BOOLEAN
    /\ joined \in [Paths -> Nat]

\* A change waits at most its own field's window, whatever else joins the batch
\* before or after it (addPending only ever shrinks the window).
FlushedInTime ==
    \A f \in pending : armed /\ now <= joined[f] + Max0(DebounceFor(f))

\* The batch is not cut short: it is flushed no earlier than the tightest window of
\* its fields, counted from the first of them.
NotBeforeWindow ==
    \A f \in pending :
        (\A g \in pending : DebounceFor(f) <= DebounceFor(g))
            => deadline >= pendingSince + DebounceFor(f)

\* The batch ages: while it is open, joining fields never push its flush out.
NeverPostponed == [][pending # {} /\ pending' # {} => deadline' <= deadline]_vars
=============================================================================
