------------------------------ MODULE Polling -------------------------------
(***************************************************************************)
(* A polled ref on the clock: when pollWatch asks the backend (poll.go,    *)
(* backoff.go), what the reconciler makes of its answers (reconciler.go),  *)
(* the batch they join (Debounce), and what Status and Health say of the   *)
(* field at any moment (report.go).                                        *)
(*                                                                         *)
(* One field is polled, with `onfail' unset; the others change at will.    *)
(* The goroutines are prompt: the clock does not pass a due timer.         *)
(***************************************************************************)
EXTENDS Debounce

CONSTANTS
    Polled,           \* the polled field
    Vals,             \* values of its ref
    Lease,            \* how long a value lives (NotAfter); 0 for no lease
    Interval, Jitter, \* WithPollInterval, WithJitter in percent
    Base, Ceiling,    \* WithBackoff
    Stale,            \* WithStale; 0 = disabled
    MaxAge,           \* BootstrapMaxAge; 0 = unbounded
    SnapshotAge,      \* of the snapshot a restored process starts from
    MaxMoves,         \* bound: changes of the backend
    NoValue, NoError

Transient == {"unavailable", "rate_limited"}
Terminal == {"permission_denied", "unauthenticated", "invalid"}
Failures == {"unavailable", "permission_denied"}
BackendStates == Vals \cup Failures \cup {"absent"}

ASSUME PollingAssumption ==
    /\ Polled \in Paths /\ Lease \in [Vals -> Nat]
    /\ {Interval, Jitter, Base, Ceiling, Stale, MaxAge, SnapshotAge, MaxMoves} \subseteq Nat
    /\ Interval > 0 /\ Jitter <= 100
    /\ NoValue \notin Vals

VARIABLES
    backend,     \* what resolving the ref returns now
    moves,       \* how often that changed
    last,        \* the poller's last value, and when its lease ends (0: never)
    failures,    \* the open failure streak
    timerAt,     \* when the poller asks next
    lastOK,      \* the reconciler's date of the last success
    lastErr,     \* and the kind of the last error, if any
    unconfirmed, \* the field still serves what the snapshot held
    observed,    \* the field's value in the next candidate
    applied,     \* its value in the configuration
    stable,      \* auxiliary: since when the backend has not changed
    asked,       \* auxiliary: when the poller last asked
    answered     \* auxiliary: when the backend last gave a value

pollVars == <<backend, moves, last, failures, timerAt, lastOK, lastErr, unconfirmed,
              observed, applied, stable, asked, answered>>
allVars == <<vars, pollVars>>

\* When that snapshot was written.
Written == -SnapshotAge

-----------------------------------------------------------------------------
(* The poller's schedule *)

\* newBackoff raises the ceiling to the base; a base of zero disables back-off.
Cap == IF Ceiling < Base THEN Base ELSE Ceiling

\* Variant: the doubling is not held at the ceiling.
BackoffUnbounded(n) == IF n = 0 THEN 0 ELSE Base * 2^(n - 1)

\* delay: doubled from the base by every further failure, held at the ceiling.
Backoff(n) ==
    IF Base = 0 \/ n = 0 THEN 0
    ELSE LET doubled[i \in 1..n] ==
               IF i = 1 THEN Base
               ELSE IF 2 * doubled[i - 1] > Cap THEN Cap ELSE 2 * doubled[i - 1]
         IN  doubled[n]

\* jittered, of a delay d > 0: within +/- Jitter percent, and never nothing.
Jittered(d) ==
    {x \in 1..(2 * d) : x * 100 >= d * (100 - Jitter) /\ x * 100 <= d * (100 + Jitter)}

\* Variant: the lease is not looked at.
LeaseIgnored(d, until) == d

\* The lease refresh: at nine tenths of what is left, if that is sooner.
LeaseShortened(d, until) ==
    LET early == until - until \div 10
    IN  IF until > 0 /\ early < d THEN early ELSE d

UntilExpiry(l) == IF l.notAfter = 0 THEN 0 ELSE l.notAfter - now

\* Variant: the lease refresh stays active during a failure streak.
DelaysEager(n, l) ==
    {LeaseShortened(d, UntilExpiry(l)) : d \in Jittered(IF n > 0 THEN Backoff(n) ELSE Interval)}

\* How long the poller sleeps after an answer: during a failure streak the back-off
\* alone decides.
Delays(n, l) ==
    IF Backoff(n) > 0 THEN Jittered(Backoff(n))
    ELSE {LeaseShortened(d, UntilExpiry(l)) : d \in Jittered(Interval)}

-----------------------------------------------------------------------------
(* The reconciler's side of an update *)

\* markChanged: a value that differs from the observed one joins the batch.
Observe(v) ==
    /\ observed' = v
    /\ IF v = observed THEN UNCHANGED vars ELSE MarkChanged(Polled)

\* Variant: any update dates the field, an error too.
DatedAlways(a) == now

\* A value dates the field; an error leaves the date of the last success.
Dated(a) == IF a \in Vals THEN now ELSE lastOK

\* reportTerminalError records an error (as a StaleError once the field is stale,
\* which keeps its kind); a value clears it.
ErrorKept(a) == IF a \in Vals THEN NoError ELSE a

\* loop's branch for an update of the field: date and confirm it and mark the change,
\* or keep the error.
Deliver(a) ==
    /\ lastOK' = Dated(a)
    /\ lastErr' = ErrorKept(a)
    /\ unconfirmed' = (unconfirmed /\ a \notin Vals)
    /\ IF a \in Vals THEN Observe(a) ELSE UNCHANGED <<vars, observed>>

\* The poller's timer: resolve, hand over what is news, sleep.
Poll ==
    LET a == backend
        streak == IF a \in Failures THEN failures + 1 ELSE 0
        news == a \in Failures \/ (a \in Vals /\ a # last.value)
        kept == IF a \in Vals /\ news
                THEN [value |-> a, notAfter |-> IF Lease[a] = 0 THEN 0 ELSE now + Lease[a]]
                ELSE last
    IN  /\ now = timerAt
        /\ failures' = streak
        /\ last' = kept
        /\ \E d \in Delays(streak, kept) : timerAt' = now + d
        /\ IF news THEN Deliver(a)
           ELSE UNCHANGED <<vars, lastOK, lastErr, unconfirmed, observed>>
        /\ asked' = now
        /\ answered' = IF a \in Vals THEN now ELSE answered
        /\ UNCHANGED <<backend, moves, applied, stable>>

\* The batch's timer: flush applies what is observed.
Flush ==
    /\ TimerFires
    /\ applied' = observed
    /\ UNCHANGED <<backend, moves, last, failures, timerAt, lastOK, lastErr, unconfirmed,
                   observed, stable, asked, answered>>

\* Another field changes, or is released from a block.
OthersJoin ==
    /\ \E S \in SUBSET (Paths \ {Polled}) : Unblock(S)
    /\ UNCHANGED pollVars

-----------------------------------------------------------------------------

BackendMoves(b) ==
    /\ moves < MaxMoves /\ b # backend
    /\ backend' = b /\ moves' = moves + 1 /\ stable' = now
    /\ UNCHANGED <<vars, last, failures, timerAt, lastOK, lastErr, unconfirmed, observed,
                   applied, asked, answered>>

TimePasses ==
    /\ Tick
    /\ now < timerAt
    /\ UNCHANGED pollVars

\* Watch returned with a configuration it just loaded, or with the snapshot's while
\* the backend fails.
PollingInit ==
    \E v \in Vals, restored \in BOOLEAN :
        /\ Init
        /\ backend \in IF restored THEN Failures ELSE {v}
        /\ moves = 0 /\ stable = 0
        /\ last = [value |-> NoValue, notAfter |-> 0]
        /\ failures = 0 /\ timerAt = 0 /\ asked = 0
        /\ observed = v /\ applied = v
        /\ unconfirmed = restored
        /\ lastOK = (IF restored THEN Written ELSE 0) /\ answered = lastOK
        /\ lastErr = NoError

PollingNext ==
    \/ Poll
    \/ Flush
    \/ OthersJoin
    \/ \E b \in BackendStates : BackendMoves(b)
    \/ TimePasses

PollingSpec == PollingInit /\ [][PollingNext]_allVars

-----------------------------------------------------------------------------
(* Status and Health *)

\* Status recomputes age and staleness when it is read.
FieldStale == Stale > 0 /\ now - lastOK > Stale

FieldUnhealthy == lastErr \in Terminal \/ FieldStale

BootstrapExpired == unconfirmed /\ MaxAge > 0 /\ now - Written > MaxAge

Health == ~FieldUnhealthy /\ ~BootstrapExpired

-----------------------------------------------------------------------------
(* Properties *)

\* The longest sleep between two questions to the backend.
LongestSleep ==
    LET longest(d) == CHOOSE x \in Jittered(d) : \A y \in Jittered(d) : y <= x
    IN  IF longest(Interval) < longest(Cap) THEN longest(Cap) ELSE longest(Interval)

\* A change reaches the configuration in time: a value the backend has held for longer
\* than the longest sleep and the field's window is the one served, after any failure
\* streak and whatever else joins the batch (pollWatch, delay, addPending).
ChangeReachesInTime ==
    backend \in Vals /\ now > stable + LongestSleep + Max0(DebounceFor(Polled))
        => applied = backend

\* A lease is renewed before it ends: while the backend answers, the next question
\* comes no later than the end of the lease of the value held.
LeaseRenewed ==
    failures = 0 /\ last.notAfter > asked => timerAt <= last.notAfter

\* A failing backend is not hammered: within a failure streak no two questions are
\* closer than the back-off's base, not even to renew a lease.
FailingIsSpaced ==
    failures > 0 /\ Base > 0 => \E d \in Jittered(Base) : timerAt >= asked + d

\* A ready process was refreshed: Health passes only while the backend gave a value
\* within the staleness bound, or the snapshot is within its own.
ReadyMeansRefreshed ==
    Health => /\ Stale > 0 => now - answered <= Stale
              /\ unconfirmed /\ MaxAge > 0 => now - Written <= MaxAge
=============================================================================
