---------------------------- MODULE PollingProofs ----------------------------
(* Proofs about time: the debouncing of changes (Debounce), for every set of  *)
(* fields and windows, and a polled ref (Polling), for any interval, jitter,  *)
(* back-off, leases, staleness bound, backend and clock.                      *)
EXTENDS Polling, TLAPS

-----------------------------------------------------------------------------
(* Debounce: no change waits longer than its own field's window, no batch is  *)
(* flushed before its tightest one, and joining never postpones a flush.      *)

\* A field's window is an integer: the smallest override exists.
LEMMA DebounceForInt == \A f \in Paths : DebounceFor(f) \in Int
<1> SUFFICES ASSUME NEW f \in Paths PROVE DebounceFor(f) \in Int
  OBVIOUS
<1>1. CASE Overrides[f] = {}
  BY <1>1, DebounceAssumption DEF DebounceFor
<1>2. CASE Overrides[f] # {}
  <2>1. PICK d \in Overrides[f] : \A e \in Overrides[f] : d <= e
    BY <1>2, DebounceAssumption
  <2>2. DebounceFor(f) \in Overrides[f]
    BY <1>2, <2>1 DEF DebounceFor
  <2> QED
    BY <2>2, DebounceAssumption
<1> QED
  BY <1>1, <1>2

\* The inductive invariant.  The timer exists exactly while a batch is open and is
\* not overdue; the batch's window is the tightest of its fields', counted from the
\* first of them; and the deadline lies between that window and every field's own.
BatchInv ==
    /\ TypeOK
    /\ armed <=> pending # {}
    /\ armed => /\ now <= deadline /\ pendingSince <= now
                /\ deadline >= pendingSince + window
    /\ \A f \in pending :
          /\ pendingSince <= joined[f] /\ joined[f] <= now
          /\ window <= DebounceFor(f)
          /\ deadline <= joined[f] + Max0(DebounceFor(f))
    /\ pending # {} => \E f \in pending : window = DebounceFor(f)

\* No batch is open.
LEMMA BatchInit == Init => BatchInv
<1> SUFFICES ASSUME Init PROVE BatchInv
  OBVIOUS
<1>1. armed = FALSE /\ pending = {}
  BY DEF Init
<1>2. armed \in BOOLEAN
  BY Zenon, <1>1
<1>3. /\ now \in Nat /\ deadline \in Nat /\ pendingSince \in Nat /\ window \in Int
      /\ joined \in [Paths -> Nat]
  BY DEF Init
<1> QED
  BY <1>1, <1>2, <1>3 DEF BatchInv, TypeOK

\* What one join does to the batch.
LEMMA JoinStep ==
    ASSUME BatchInv, NEW S \in SUBSET Paths, S # {}, Join(S)
    PROVE  /\ BatchInv'
           /\ pending # {} => deadline' <= deadline
<1> USE DebounceForInt
<1>1. PICK w \in Windows(S) :
        /\ \A x \in Windows(S) : w <= x
        /\ pending' = pending \cup S
        /\ pendingSince' = Since
        /\ window' = w
        /\ deadline' = ArmAt(Since, w)
        /\ armed' = TRUE
        /\ joined' = [f \in Paths |-> IF f \in S \ pending THEN now ELSE joined[f]]
        /\ now' = now
  BY Zenon DEF Join
<1>2. w \in Int /\ Since \in Nat /\ Since <= now
  BY DEF Windows, Since, BatchInv, TypeOK
<1>3. /\ deadline' \in Nat /\ deadline' >= now /\ deadline' >= Since + w
      /\ deadline' = now \/ deadline' = Since + w
  BY <1>1, <1>2 DEF ArmAt, Max0, BatchInv, TypeOK
<1>4. TypeOK'
  <2>1. joined' \in [Paths -> Nat]
    BY <1>1 DEF BatchInv, TypeOK
  <2> QED
    BY <1>1, <1>2, <1>3, <2>1 DEF BatchInv, TypeOK
<1>5. pending # {} => /\ Since = pendingSince /\ w <= window
                      /\ deadline' <= deadline
  BY <1>1, <1>2, <1>3 DEF Since, Windows, BatchInv, TypeOK
<1>6. \A f \in S : w <= DebounceFor(f)
  BY <1>1 DEF Windows
<1>7. \A f \in S \ pending : joined'[f] = now
  BY <1>1
<1>8. \A f \in pending : joined'[f] = joined[f]
  BY <1>1 DEF BatchInv, TypeOK
<1>9. ASSUME NEW f \in pending'
      PROVE  /\ Since <= joined'[f] /\ joined'[f] <= now
             /\ w <= DebounceFor(f)
             /\ deadline' <= joined'[f] + Max0(DebounceFor(f))
  <2>1. CASE f \in pending
    <3>1. /\ pendingSince <= joined[f] /\ joined[f] <= now
          /\ window <= DebounceFor(f)
          /\ deadline <= joined[f] + Max0(DebounceFor(f))
      BY <2>1 DEF BatchInv
    <3>2. DebounceFor(f) \in Int /\ joined[f] \in Nat /\ Max0(DebounceFor(f)) \in Int
      BY <2>1 DEF BatchInv, TypeOK, Max0
    <3> QED
      BY <2>1, <3>1, <3>2, <1>2, <1>3, <1>5, <1>8 DEF BatchInv, TypeOK
  <2>2. CASE f \in S \ pending
    <3>1. DebounceFor(f) \in Int /\ w <= DebounceFor(f) /\ joined'[f] = now
      BY <2>2, <1>6, <1>7
    <3> QED
      BY <3>1, <1>2, <1>3 DEF Max0, BatchInv, TypeOK
  <2> QED
    BY <1>1, <2>1, <2>2
<1>10. \E f \in pending' : w = DebounceFor(f)
  BY <1>1 DEF Windows, BatchInv
<1>11. pending' # {} /\ armed'
  BY <1>1
<1> QED
  BY <1>1, <1>2, <1>3, <1>4, <1>5, <1>9, <1>10, <1>11 DEF BatchInv

\* Every step keeps the batch in time.
LEMMA BatchNext == BatchInv /\ [Next]_vars => BatchInv'
<1> SUFFICES ASSUME BatchInv, [Next]_vars PROVE BatchInv'
  OBVIOUS
<1>1. CASE \E f \in Paths : MarkChanged(f)
  <2>1. PICK f \in Paths : Join({f})
    BY <1>1 DEF MarkChanged
  <2> QED
    BY <2>1, JoinStep
<1>2. CASE \E S \in SUBSET Paths : Unblock(S)
  <2>1. PICK S \in SUBSET Paths : S # {} /\ Join(S)
    BY <1>2 DEF Unblock
  <2> QED
    BY <2>1, JoinStep
<1>3. CASE TimerFires
  BY Zenon, <1>3 DEF TimerFires, BatchInv, TypeOK
<1>4. CASE Tick
  <2>1. /\ now' = now + 1 /\ (armed => now < deadline)
        /\ UNCHANGED <<pending, pendingSince, window, deadline, armed, joined>>
    BY <1>4 DEF Tick
  <2>2. now' \in Nat /\ now < now' /\ (armed => now' <= deadline)
    BY <2>1 DEF BatchInv, TypeOK
  <2> QED
    BY <2>1, <2>2 DEF BatchInv, TypeOK
<1>5. CASE UNCHANGED vars
  BY <1>5 DEF vars, BatchInv, TypeOK
<1> QED
  BY <1>1, <1>2, <1>3, <1>4, <1>5 DEF Next

\* For every set of fields and windows, the batch and its timer agree in every reachable
\* state (the pending map and the timer of loop).
THEOREM BatchInvariant == Spec => []BatchInv
  BY BatchInit, BatchNext, PTL DEF Spec

\* The batch is well typed: its deadline is never in the past of the clock's origin,
\* even for negative windows (arm's clamp).
THEOREM BatchTyped == Spec => []TypeOK
<1>1. BatchInv => TypeOK
  BY DEF BatchInv
<1> QED
  BY <1>1, BatchInvariant, PTL

\* No change waits longer than its own field's window (addPending, arm).
THEOREM ChangesFlushedInTime == Spec => []FlushedInTime
<1>1. BatchInv => FlushedInTime
  <2> SUFFICES ASSUME BatchInv, NEW f \in pending
               PROVE  armed /\ now <= joined[f] + Max0(DebounceFor(f))
    BY DEF FlushedInTime
  <2>1. armed /\ now <= deadline /\ deadline <= joined[f] + Max0(DebounceFor(f))
    BY DEF BatchInv
  <2>2. /\ now \in Int /\ deadline \in Int /\ joined[f] \in Int
        /\ Max0(DebounceFor(f)) \in Int
    BY DebounceForInt DEF BatchInv, TypeOK, Max0
  <2> QED
    BY <2>1, <2>2
<1> QED
  BY <1>1, BatchInvariant, PTL

\* A batch is not flushed before the tightest window of its fields is over.
THEOREM WindowsRespected == Spec => []NotBeforeWindow
<1>1. BatchInv => NotBeforeWindow
  <2> SUFFICES ASSUME BatchInv, NEW f \in pending,
                      \A g \in pending : DebounceFor(f) <= DebounceFor(g)
               PROVE  deadline >= pendingSince + DebounceFor(f)
    BY DEF NotBeforeWindow
  <2>1. PICK g \in pending : window = DebounceFor(g)
    BY DEF BatchInv
  <2>2. DebounceFor(f) <= window /\ deadline >= pendingSince + window
    BY <2>1 DEF BatchInv
  <2>3. /\ deadline \in Int /\ pendingSince \in Int /\ window \in Int
        /\ DebounceFor(f) \in Int
    BY DebounceForInt DEF BatchInv, TypeOK
  <2> QED
    BY <2>2, <2>3
<1> QED
  BY <1>1, BatchInvariant, PTL

\* Joining an open batch never postpones its flush.
THEOREM FlushNeverPostponed == Spec => NeverPostponed
<1>1. BatchInv /\ [Next]_vars
        => [pending # {} /\ pending' # {} => deadline' <= deadline]_vars
  <2> SUFFICES ASSUME BatchInv, Next, pending # {}, pending' # {}
               PROVE  deadline' <= deadline
    OBVIOUS
  <2>1. CASE \E f \in Paths : MarkChanged(f)
    <3>1. PICK f \in Paths : Join({f})
      BY Zenon, <2>1 DEF MarkChanged
    <3> QED
      BY <3>1, JoinStep
  <2>2. CASE \E S \in SUBSET Paths : Unblock(S)
    <3>1. PICK S \in SUBSET Paths : S # {} /\ Join(S)
      BY <2>2 DEF Unblock
    <3> QED
      BY <3>1, JoinStep
  <2>3. CASE TimerFires
    BY <2>3 DEF TimerFires
  <2>4. CASE Tick
    BY <2>4 DEF Tick, BatchInv, TypeOK
  <2> QED
    BY <2>1, <2>2, <2>3, <2>4 DEF Next
<1> QED
  BY <1>1, BatchInvariant, PTL DEF Spec, NeverPostponed

-----------------------------------------------------------------------------
(* Polling: an answered poller renews the lease it holds in time, and Health  *)
(* passes only on answers within the staleness bound.                         *)

\* What the proofs need of the types.
Typed ==
    /\ now \in Nat /\ timerAt \in Int /\ asked \in Int
    /\ lastOK \in Int /\ answered \in Int
    /\ failures \in Nat /\ last.notAfter \in Int

\* The field is never dated later than the answer it was dated by: the reconciler
\* dates only values, and a value is an answer.
DatedByAnswer == lastOK <= answered /\ answered <= now

\* The poller was told to come back before the lease ends.
Renewed == failures = 0 /\ last.notAfter > asked => timerAt <= last.notAfter

PInv == Typed /\ DatedByAnswer /\ Renewed

\* Jitter keeps a sleep an integer.
LEMMA JitteredInt == ASSUME NEW d PROVE Jittered(d) \subseteq Int
BY DEF Jittered

\* Nine tenths of what is left come before its end.
LEMMA ShortenedWithin ==
    ASSUME NEW d \in Int, NEW until \in Int
    PROVE  /\ LeaseShortened(d, until) \in Int
           /\ until > 0 => LeaseShortened(d, until) <= until
<1>1. until \div 10 \in Int /\ (until > 0 => until \div 10 >= 0)
  OBVIOUS
<1> DEFINE tenth == until \div 10
<1>2. tenth \in Int /\ (until > 0 => tenth >= 0)
  BY <1>1
<1>3. LeaseShortened(d, until) =
        IF until > 0 /\ until - tenth < d THEN until - tenth ELSE d
  BY DEF LeaseShortened
<1> HIDE DEF tenth
<1> QED
  BY <1>2, <1>3

\* The clock, the batch and the other fields leave the poller and its dates alone.
LEMMA BatchSteps ==
    ASSUME PInv, Flush \/ OthersJoin \/ TimePasses \/ \E b \in BackendStates : BackendMoves(b)
    PROVE  PInv'
<1>1. /\ UNCHANGED <<last, failures, timerAt, lastOK, asked, answered>>
      /\ now' = now \/ now' = now + 1
  BY DEF Flush, TimerFires, OthersJoin, Unblock, Join, TimePasses, Tick, BackendMoves, pollVars, vars
<1> QED
  BY <1>1 DEF PInv, Typed, DatedByAnswer, Renewed

\* The back-off of no failure is nothing.
LEMMA NoBackoff == Backoff(0) = 0
BY DEF Backoff

\* A question renews the lease and dates what it answers.
LEMMA PollStep ==
    ASSUME PInv, Poll
    PROVE  PInv'
<1>1. /\ now \in Nat /\ now = timerAt /\ asked' = now
      /\ failures \in Nat /\ lastOK <= answered /\ answered <= now
      /\ lastOK \in Int /\ answered \in Int /\ last.notAfter \in Int
  BY DEF PInv, Typed, DatedByAnswer, Poll
<1>2. now' = now
  BY DEF Poll, Deliver, Observe, MarkChanged, Join, vars
<1>3. failures' \in Nat
  BY <1>1 DEF Poll
<1>4. last'.notAfter \in Int
  BY <1>1, PollingAssumption DEF Poll
<1>5. PICK d \in Delays(failures', last') : timerAt' = now + d
  BY DEF Poll
<1>6. UntilExpiry(last') \in Int
  BY <1>1, <1>4 DEF UntilExpiry
<1>7. d \in Int /\ (failures' = 0 /\ last'.notAfter > now => now + d <= last'.notAfter)
  <2>1. CASE Backoff(failures') > 0
    BY <1>5, <2>1, NoBackoff, JitteredInt DEF Delays
  <2>2. CASE ~(Backoff(failures') > 0)
    <3>1. PICK e \in Jittered(Interval) : d = LeaseShortened(e, UntilExpiry(last'))
      BY <1>5, <2>2 DEF Delays
    <3>2. e \in Int
      BY <3>1, JitteredInt, PollingAssumption
    <3>3. d \in Int /\ (UntilExpiry(last') > 0 => d <= UntilExpiry(last'))
      BY <3>1, <3>2, <1>6, ShortenedWithin
    <3>4. last'.notAfter > now /\ last'.notAfter # 0 => UntilExpiry(last') = last'.notAfter - now
      BY DEF UntilExpiry
    <3> QED
      BY <1>1, <1>4, <3>3, <3>4
  <2> QED
    BY <2>1, <2>2
<1>8. lastOK' \in Int /\ answered' \in Int /\ lastOK' <= answered' /\ answered' <= now
  BY <1>1 DEF Poll, Deliver, Dated
<1> QED
  BY <1>1, <1>2, <1>3, <1>4, <1>5, <1>7, <1>8 DEF PInv, Typed, DatedByAnswer, Renewed

\* PInv is inductive.
LEMMA PollingInvariant == PollingSpec => []PInv
<1>1. PollingInit => PInv
  <2> SUFFICES ASSUME PollingInit PROVE PInv
    OBVIOUS
  <2>1. SnapshotAge \in Nat
    BY PollingAssumption
  <2>2. lastOK = Written \/ lastOK = 0
    BY DEF PollingInit
  <2> QED
    BY <2>1, <2>2 DEF PollingInit, Init, Written, PInv, Typed, DatedByAnswer, Renewed
<1>2. PInv /\ [PollingNext]_allVars => PInv'
  <2> SUFFICES ASSUME PInv, [PollingNext]_allVars PROVE PInv'
    OBVIOUS
  <2>1. CASE Poll
    BY <2>1, PollStep
  <2>2. CASE Flush \/ OthersJoin \/ TimePasses \/ \E b \in BackendStates : BackendMoves(b)
    BY <2>2, BatchSteps
  <2>3. CASE UNCHANGED allVars
    BY <2>3 DEF allVars, vars, pollVars, PInv, Typed, DatedByAnswer, Renewed
  <2> QED
    BY <2>1, <2>2, <2>3 DEF PollingNext
<1> QED
  BY <1>1, <1>2, PTL DEF PollingSpec

\* While the backend answers, a lease is renewed before it ends, whatever the
\* interval, the jitter and the leases (pollWatch's lease refresh).
THEOREM LeasesRenewed == PollingSpec => []LeaseRenewed
<1>1. PInv => LeaseRenewed
  BY DEF PInv, Renewed, LeaseRenewed
<1> QED
  BY <1>1, PollingInvariant, PTL

\* A passing Health means an answer within the staleness bound, and a snapshot still
\* served within its own (Health, fieldUnhealthy, bootstrapExpired).
THEOREM HealthIsHonest == PollingSpec => []ReadyMeansRefreshed
<1>1. PInv => ReadyMeansRefreshed
  <2> SUFFICES ASSUME PInv, Health PROVE ReadyMeansRefreshed!2
    BY DEF ReadyMeansRefreshed
  <2>1. now \in Int /\ lastOK \in Int /\ answered \in Int /\ lastOK <= answered
    BY DEF PInv, Typed, DatedByAnswer
  <2>2. Stale \in Int /\ MaxAge \in Int /\ Written \in Int
    BY PollingAssumption DEF Written
  <2>3. Stale > 0 => now - answered <= Stale
    BY <2>1, <2>2 DEF Health, FieldUnhealthy, FieldStale
  <2>4. unconfirmed /\ MaxAge > 0 => now - Written <= MaxAge
    BY <2>1, <2>2 DEF Health, BootstrapExpired
  <2> QED
    BY <2>3, <2>4
<1> QED
  BY <1>1, PollingInvariant, PTL
=============================================================================
