---------------------------- MODULE WatcherProofs ----------------------------
(* Proofs of Watcher's safety properties, for any number of goroutines, any   *)
(* queue depth and whether or not sources end or the handler closes, and that *)
(* the goroutines of Watcher implement WatcherPromise.                        *)
EXTENDS Watcher, TLAPS

Locations == {"select", "walk", "gate", "onError", "store", "enqueue", "drop",
              "report", "reply", "exited"}

Calls == [at : {"idle", "send", "await"},
          kind : Kinds, reply : Int]

\* What the proofs need of the types.
Typed ==
    /\ rec \in Locations /\ cmd \in Goroutines \cup {None}
    /\ live \in Nat /\ snaps \in Nat /\ cfg \in Nat /\ ev \in Nat /\ pin \in Nat
    /\ live >= 1
    /\ report \in [live : Nat, pin : Nat]
    /\ queue \in Seq(Nat) /\ handling \in Nat
    /\ call \in [Goroutines -> Calls]

\* Every change that is queued, being enqueued or being handled.
Announced(v) == v = ev \/ v = handling \/ \E i \in 1 .. Len(queue) : v = queue[i]

\* The history is published with the version, and nothing runs ahead of it.
Behind ==
    /\ snaps = live /\ cfg <= live /\ report.live <= live /\ pin <= live
    /\ \A v \in Nat : Announced(v) => v <= live

\* Unpinned, Get is what was last applied, except between recordSnapshot and
\* cfg.Store; nothing announced or reported is ahead of it.
Unfrozen ==
    pin = 0 =>
       /\ rec # "store" => cfg = live
       /\ report.live <= cfg
       /\ \A v \in Nat : Announced(v) => v <= cfg

\* The reply follows the report; an exited dispatcher follows the reconciler.
Ordered ==
    /\ rec = "reply" => report = BuildReport /\ cmd # None
    /\ disp = "exited" => rec = "exited" /\ queue = <<>>
    /\ closer.at = "returned" => rec = "exited" /\ disp = "exited"

IInv == Typed /\ Behind /\ Unfrozen /\ Ordered

\* The constants, as the lemmas below use them.
LEMMA NoneOutside == None \notin Goroutines /\ MaxVersion \in Nat
BY WatcherAssumption DEF Goroutines

\* What appending a change does to the queue.
LEMMA AppendElements ==
    ASSUME NEW s \in Seq(Nat), NEW e \in Nat
    PROVE  /\ Append(s, e) \in Seq(Nat)
           /\ \A i \in 1 .. Len(Append(s, e)) :
                 \/ Append(s, e)[i] = e
                 \/ i \in 1 .. Len(s) /\ Append(s, e)[i] = s[i]
OBVIOUS

\* Init establishes the invariant.
LEMMA InitInvariant == Init => IInv
<1> SUFFICES ASSUME Init PROVE IInv
  OBVIOUS
<1>1. Typed
  <2>1. Idle \in Calls /\ queue = <<>> /\ <<>> \in Seq(Nat)
    BY DEF Init, Idle, Calls, Kinds, NoReply
  <2> QED
    BY <2>1 DEF Init, Typed, Locations
<1>2. Behind /\ Unfrozen /\ Ordered
  BY DEF Init, Behind, Unfrozen, Ordered, Announced
<1> QED
  BY <1>1, <1>2 DEF IInv

-----------------------------------------------------------------------------
(* Types *)

\* What each command does to the pin, to Get and to the change to announce.
LEMMA HandlePinCases ==
    ASSUME Typed, NEW g \in Goroutines, HandlePin(g)
    PROVE  /\ rec = "select" /\ rec' \in {"report", "enqueue", "walk"}
           /\ UNCHANGED <<live, snaps, report, queue, handling>>
           /\ \/ pin' # 0 /\ pin' \in Nat /\ cfg' = pin' /\ ev' = ev
                 /\ (pin' = pin \/ pin' <= live)
              \/ pin' = pin /\ cfg' = cfg /\ ev' = ev
              \/ pin' = 0 /\ (pin # 0 => cfg' = live) /\ (pin = 0 => cfg' = cfg)
                 /\ ev' \in {0, live}
<1>1. UNCHANGED <<live, snaps, report, queue, handling>> /\ rec = "select"
  BY DEF HandlePin, dispatch
<1>2. call[g].kind \in {"pinCurrent", "pinAt", "unpin", "refresh"}
  BY DEF Typed, Calls, Kinds
<1>3. CASE call[g].kind = "pinCurrent"
  BY <1>1, <1>3 DEF HandlePin, Served, Typed
<1>4. CASE call[g].kind = "unpin"
  BY <1>1, <1>4 DEF HandlePin
<1>5. CASE call[g].kind = "refresh"
  BY <1>1, <1>5 DEF HandlePin
<1>6. CASE call[g].kind = "pinAt"
  BY <1>1, <1>6 DEF HandlePin, Typed
<1> QED
  BY <1>2, <1>3, <1>4, <1>5, <1>6

\* The steps of a calling goroutine keep the types.
LEMMA CallTyped ==
    ASSUME Typed, NEW g \in Goroutines,
           (\E k \in Kinds : SendPin(g, k)) \/ Return(g) \/ HandlePin(g) \/ Close(g)
    PROVE  Typed'
<1>1. CASE \E k \in Kinds : SendPin(g, k)
  <2>1. PICK k \in Kinds : SendPin(g, k)
    BY <1>1
  <2>2. Idle \in Calls /\ [at |-> "send", kind |-> k, reply |-> NoReply] \in Calls
    BY DEF Idle, Calls, Kinds, NoReply
  <2>3. call' \in [Goroutines -> Calls]
    BY <2>1, <2>2 DEF SendPin, Typed
  <2> QED
    BY <2>1, <2>3 DEF SendPin, Typed, engine, state, dispatch
<1>2. CASE Return(g)
  <2>1. Idle \in Calls
    BY DEF Idle, Calls, Kinds, NoReply
  <2>2. call' \in [Goroutines -> Calls]
    BY <1>2, <2>1 DEF Return, Typed
  <2> QED
    BY <1>2, <2>2 DEF Return, Typed, Locations, state, dispatch
<1>3. CASE HandlePin(g)
  <2>1. call' \in [Goroutines -> Calls]
    BY Zenon, <1>3 DEF HandlePin, Typed, Calls
  <2>2. pin' \in Nat /\ cfg' \in Nat /\ ev' \in Nat /\ rec' \in Locations
    BY <1>3, HandlePinCases DEF Typed, Locations
  <2> QED
    BY <1>3, <2>1, <2>2 DEF HandlePin, Typed, dispatch
<1>4. CASE Close(g)
  BY <1>4 DEF Close, Typed, engine, state, dispatch
<1> QED
  BY <1>1, <1>2, <1>3, <1>4

\* The steps of the reconciler, the dispatcher and Close keep the types.
LEMMA StepTyped ==
    ASSUME Typed,
           \/ TimerFires \/ RefreshNow \/ Gate \/ OnErrorReturns \/ Store \/ Enqueue
           \/ Report \/ Reply \/ SourcesClose \/ LoopReturns
           \/ Deliver \/ OnChangeReturns \/ DispatcherReturns
           \/ CloseReturns \/ ParentDone
    PROVE  Typed'
<1>1. CASE TimerFires \/ RefreshNow
  BY Zenon, <1>1 DEF TimerFires, RefreshNow, Flush, Typed, Locations, state, dispatch
<1>2. CASE Gate \/ OnErrorReturns
  <2>1. CASE GateRefuses \/ OnErrorReturns
    BY Zenon, <2>1 DEF GateRefuses, OnErrorReturns, Typed, Locations, state, dispatch
  <2>2. CASE GateAccepts
    <3>1. live' \in Nat /\ snaps' \in Nat /\ live' >= 1
      BY <2>2 DEF GateAccepts, Typed
    <3> QED
      BY Zenon, <2>2, <3>1 DEF GateAccepts, Typed, Locations, dispatch
  <2> QED
    BY Zenon, <1>2, <2>1, <2>2 DEF Gate
<1>3. CASE Store
  BY <1>3 DEF Store, Publish, Typed, Locations, dispatch
<1>4. CASE Enqueue
  <2>1. CASE EnqueueSend
    <3>1. queue \in Seq(Nat) /\ ev \in Nat
      BY DEF Typed
    <3>2. queue' = Append(queue, ev) \/ queue' = queue
      BY Zenon, <2>1 DEF EnqueueSend
    <3>3. queue' \in Seq(Nat)
      BY Zenon, <3>1, <3>2, AppendElements
    <3> QED
      BY <2>1, <3>3 DEF EnqueueSend, Typed, Locations, state
  <2>2. CASE EnqueueFull
    BY <2>2 DEF EnqueueFull, Typed, Locations, state, dispatch
  <2>3. CASE EnqueueDrop
    BY <2>3 DEF EnqueueDrop, Typed, Locations, state
  <2> QED
    BY <1>4, <2>1, <2>2, <2>3 DEF Enqueue
<1>5. CASE Report
  BY <1>5 DEF Report, BuildReport, Typed, Locations, dispatch
<1>6. CASE Reply
  <2>0. ASSUME NEW r \in Calls, NEW n \in Nat PROVE [r EXCEPT !.reply = n] \in Calls
    BY DEF Calls
  <2>1. call' \in [Goroutines -> Calls]
    BY Zenon, <1>6, <2>0 DEF Reply, Typed
  <2> QED
    BY <1>6, <2>1 DEF Reply, Typed, Locations, state, dispatch
<1>7. CASE SourcesClose \/ LoopReturns \/ CloseReturns \/ ParentDone
  BY Zenon, <1>7 DEF SourcesClose, LoopReturns, CloseReturns, ParentDone, Typed, Locations,
              engine, state, dispatch
<1>8. CASE Deliver
  BY <1>8 DEF Deliver, Typed, engine, state
<1>9. CASE OnChangeReturns \/ DispatcherReturns
  BY Zenon, <1>9 DEF OnChangeReturns, DispatcherReturns, Typed, engine, state
<1> QED
  BY <1>1, <1>2, <1>3, <1>4, <1>5, <1>6, <1>7, <1>8, <1>9

-----------------------------------------------------------------------------
(* Versions *)

\* A step that publishes nothing keeps the versions in order.
LEMMA QuietStep ==
    ASSUME Behind, Unfrozen, UNCHANGED <<state, queue, handling, ev>>,
           rec = "store" <=> rec' = "store"
    PROVE  Behind' /\ Unfrozen'
BY DEF Behind, Unfrozen, Announced, state

\* A step that announces nothing new keeps the announced changes in order.
LEMMA SameState ==
    ASSUME Typed, Behind, Unfrozen, UNCHANGED state,
           rec = "store" <=> rec' = "store",
           \A v \in Nat : Announced(v)' => v = 0 \/ Announced(v)
    PROVE  Behind' /\ Unfrozen'
BY DEF Typed, Behind, Unfrozen, state

\* handlePin keeps the versions in order: PinCurrent and Pin freeze Get at or
\* behind the live version, and Unpin brings it up to it.
LEMMA HandlePinOrdered ==
    ASSUME Typed, Behind, Unfrozen, NEW g \in Goroutines, HandlePin(g)
    PROVE  Behind' /\ Unfrozen'
<1>1. /\ rec # "store" /\ rec' # "store"
      /\ UNCHANGED <<live, snaps, report, queue, handling>>
  BY HandlePinCases
<1>2. \/ pin' # 0 /\ pin' \in Nat /\ pin' <= live /\ cfg' = pin' /\ ev' = ev
      \/ pin' = pin /\ cfg' = cfg /\ ev' = ev
      \/ pin' = 0 /\ (pin # 0 => cfg' = live) /\ (pin = 0 => cfg' = cfg) /\ ev' \in {0, live}
  BY HandlePinCases DEF Typed, Behind
<1>3. \A v \in Nat : Announced(v)' => Announced(v) \/ v = 0 \/ v = live
  BY <1>1, <1>2 DEF Announced
<1>4. Behind'
  BY <1>1, <1>2, <1>3 DEF Typed, Behind
<1>5. Unfrozen'
  BY <1>1, <1>2, <1>3 DEF Typed, Behind, Unfrozen
<1> QED
  BY <1>4, <1>5

\* Recording, storing and reporting a new version keep the order.
LEMMA PublishOrdered ==
    ASSUME Typed, Behind, Unfrozen, GateAccepts \/ Store \/ Report
    PROVE  Behind' /\ Unfrozen'
<1>1. CASE GateAccepts
  <2>1. \A v \in Nat : Announced(v)' <=> Announced(v)
    BY <1>1 DEF GateAccepts, Announced, dispatch
  <2> QED
    BY <1>1, <2>1 DEF GateAccepts, Typed, Behind, Unfrozen
<1>2. CASE Store
  <2>1. \A v \in Nat : Announced(v)' => Announced(v) \/ v = 0 \/ v = live
    BY <1>2 DEF Store, Publish, Announced, dispatch
  <2> QED
    BY <1>2, <2>1 DEF Store, Publish, Typed, Behind, Unfrozen
<1>3. CASE Report
  <2>1. \A v \in Nat : Announced(v)' <=> Announced(v)
    BY <1>3 DEF Report, Announced, dispatch
  <2> QED
    BY <1>3, <2>1 DEF Report, BuildReport, Typed, Behind, Unfrozen
<1> QED
  BY <1>1, <1>2, <1>3

\* Moving a change through the queue announces nothing new.
LEMMA QueueOrdered ==
    ASSUME Typed, Behind, Unfrozen, EnqueueSend \/ EnqueueDrop \/ Deliver
    PROVE  Behind' /\ Unfrozen'
<1>1. UNCHANGED state /\ (rec = "store" <=> rec' = "store")
  BY DEF EnqueueSend, EnqueueDrop, Deliver, engine
<1>2. \A v \in Nat : Announced(v)' => v = 0 \/ Announced(v)
  <2> SUFFICES ASSUME NEW v \in Nat, Announced(v)' PROVE v = 0 \/ Announced(v)
    OBVIOUS
  <2>1. CASE EnqueueSend
    <3>1. ev' = 0 /\ (handling' = handling \/ handling' = ev)
      BY <2>1 DEF EnqueueSend
    <3>2. queue' = queue \/ queue' = Append(queue, ev)
      BY <2>1 DEF EnqueueSend
    <3>3. ASSUME NEW i \in 1 .. Len(queue'), v = queue'[i]
          PROVE  v = ev \/ \E j \in 1 .. Len(queue) : v = queue[j]
      <4>1. queue \in Seq(Nat) /\ ev \in Nat
        BY DEF Typed
      <4>2. CASE queue' = queue
        BY <3>3, <4>2
      <4>3. CASE queue' = Append(queue, ev)
        BY <3>3, <4>1, <4>3, AppendElements
      <4> QED
        BY <3>2, <4>2, <4>3
    <3> QED
      BY <3>1, <3>3 DEF Announced
  <2>2. CASE EnqueueDrop
    BY <2>2 DEF EnqueueDrop, Announced, Typed
  <2>3. CASE Deliver
    BY <2>3 DEF Deliver, Announced, Typed, engine
  <2> QED
    BY <2>1, <2>2, <2>3
<1> QED
  BY <1>1, <1>2, SameState

\* Every step keeps the versions in order.
LEMMA VersionsOrdered ==
    ASSUME Typed, Behind, Unfrozen, Next
    PROVE  Behind' /\ Unfrozen'
<1>1. ASSUME NEW g \in Goroutines, NEW k \in Kinds, SendPin(g, k)
      PROVE  Behind' /\ Unfrozen'
  BY <1>1, QuietStep DEF SendPin, engine, dispatch
<1>2. ASSUME NEW g \in Goroutines, Return(g) PROVE Behind' /\ Unfrozen'
  BY <1>2, QuietStep DEF Return, dispatch
<1>3. ASSUME NEW g \in Goroutines, SendClosed(g) \/ AwaitClosed(g) \/ GiveUp(g) \/ TakeReply(g)
      PROVE  Behind' /\ Unfrozen'
  BY <1>2, <1>3 DEF SendClosed, AwaitClosed, GiveUp, TakeReply
<1>4. ASSUME NEW g \in Goroutines, HandlePin(g) PROVE Behind' /\ Unfrozen'
  BY <1>4, HandlePinOrdered
<1>5. ASSUME NEW g \in Goroutines, Close(g) PROVE Behind' /\ Unfrozen'
  BY <1>5, QuietStep DEF Close, engine, dispatch
<1>6. CASE TimerFires \/ RefreshNow
  BY <1>6, QuietStep DEF TimerFires, RefreshNow, Flush, dispatch
<1>7. CASE GateRefuses \/ OnErrorReturns \/ EnqueueFull \/ Reply \/ LoopReturns
  BY <1>7, QuietStep DEF GateRefuses, OnErrorReturns, EnqueueFull, Reply, LoopReturns, dispatch
<1>8. CASE SourcesClose \/ CloseReturns \/ ParentDone
  BY <1>8, QuietStep DEF SourcesClose, CloseReturns, ParentDone, engine, dispatch
<1>9. CASE OnChangeReturns \/ DispatcherReturns
  BY <1>9, QuietStep DEF OnChangeReturns, DispatcherReturns, engine
<1>10. CASE GateAccepts \/ Store \/ Report
  BY <1>10, PublishOrdered
<1>11. CASE EnqueueSend \/ EnqueueDrop \/ Deliver
  BY <1>11, QueueOrdered
<1> QED
  BY <1>1, <1>3, <1>4, <1>5, <1>6, <1>7, <1>8, <1>9, <1>10, <1>11 DEF Next, Gate, Enqueue

\* Every step keeps the reply after the report and the dispatcher's end after
\* the reconciler's.
LEMMA EndsOrdered ==
    ASSUME Typed, Ordered, Next
    PROVE  Ordered'
<1>1. ASSUME NEW g \in Goroutines, NEW k \in Kinds, SendPin(g, k) PROVE Ordered'
  BY <1>1 DEF SendPin, Ordered, BuildReport, engine, state, dispatch
<1>2. ASSUME NEW g \in Goroutines, Return(g) PROVE Ordered'
  BY <1>2, NoneOutside DEF Return, Ordered, BuildReport, state, dispatch
<1>3. ASSUME NEW g \in Goroutines, SendClosed(g) \/ AwaitClosed(g) \/ GiveUp(g) \/ TakeReply(g)
      PROVE  Ordered'
  BY <1>2, <1>3 DEF SendClosed, AwaitClosed, GiveUp, TakeReply
<1>4. ASSUME NEW g \in Goroutines, HandlePin(g) PROVE Ordered'
  <2>1. rec = "select" /\ rec' \in {"report", "enqueue", "walk"}
    BY <1>4, HandlePinCases
  <2> QED
    BY <1>4, <2>1 DEF HandlePin, Ordered, dispatch
<1>5. ASSUME NEW g \in Goroutines, Close(g) PROVE Ordered'
  BY <1>5 DEF Close, Ordered, BuildReport, engine, state, dispatch
<1>6. CASE TimerFires \/ RefreshNow
  BY <1>6 DEF TimerFires, RefreshNow, Flush, Ordered, dispatch
<1>7. CASE Gate \/ OnErrorReturns
  BY <1>7 DEF Gate, GateRefuses, GateAccepts, OnErrorReturns, Ordered, dispatch
<1>8. CASE Store
  BY <1>8 DEF Store, Publish, Ordered, dispatch
<1>9. CASE Enqueue
  BY <1>9 DEF Enqueue, EnqueueSend, EnqueueFull, EnqueueDrop, Ordered, dispatch
<1>10. CASE Report
  BY <1>10 DEF Report, BuildReport, Ordered, dispatch
<1>11. CASE Reply \/ LoopReturns
  BY <1>11 DEF Reply, LoopReturns, Ordered, dispatch
<1>12. CASE SourcesClose \/ ParentDone
  BY <1>12 DEF SourcesClose, ParentDone, Ordered, BuildReport, engine, state, dispatch
<1>13. CASE CloseReturns
  BY <1>13 DEF CloseReturns, AllGone, Ordered, BuildReport, engine, state, dispatch
<1>14. CASE Deliver \/ OnChangeReturns \/ DispatcherReturns
  BY <1>14 DEF Deliver, OnChangeReturns, DispatcherReturns, Ordered, BuildReport, engine, state
<1> QED
  BY <1>1, <1>3, <1>4, <1>5, <1>6, <1>7, <1>8, <1>9, <1>10, <1>11, <1>12, <1>13, <1>14 DEF Next

-----------------------------------------------------------------------------
\* IInv is an invariant: it holds at start and every step keeps it.
THEOREM WatcherInvariant == Spec => []IInv
<1>1. ASSUME IInv, [Next]_vars PROVE IInv'
  <2>1. CASE UNCHANGED vars
    BY <1>1, <2>1 DEF vars, IInv, Typed, Behind, Unfrozen, Ordered, Announced, BuildReport,
                      engine, state, dispatch
  <2>2. CASE Next
    <3>1. Typed /\ Behind /\ Unfrozen /\ Ordered
      BY <1>1 DEF IInv
    <3>2. \A g \in Goroutines :
             SendClosed(g) \/ AwaitClosed(g) \/ GiveUp(g) \/ TakeReply(g) => Return(g)
      BY DEF SendClosed, AwaitClosed, GiveUp, TakeReply
    <3>3. Typed'
      BY <2>2, <3>1, <3>2, CallTyped, StepTyped DEF Next
    <3> QED
      BY <2>2, <3>1, <3>3, VersionsOrdered, EndsOrdered DEF IInv
  <2> QED
    BY <1>1, <2>1, <2>2
<1> QED
  BY <1>1, InitInvariant, PTL DEF Spec

\* While OnChange runs unpinned, Get is at least as new as the change it was
\* called with, whatever the queue dropped and whoever pinned meanwhile.
THEOREM GetCaughtUp == Spec => []GetNotBehindOnChange
<1>1. IInv => GetNotBehindOnChange
  BY Zenon DEF IInv, Typed, Unfrozen, Announced, GetNotBehindOnChange
<1> QED
  BY <1>1, WatcherInvariant, PTL

\* History, Get and Status are published in that order.
THEOREM PublicationOrdered == Spec => []PublishedInOrder
<1>1. IInv => PublishedInOrder
  BY DEF IInv, Behind, Unfrozen, PublishedInOrder
<1> QED
  BY <1>1, WatcherInvariant, PTL

\* Once Close has returned no callback is running, queued or yet to come.
THEOREM ClosedIsQuiet == Spec => []CloseDrains
<1>1. IInv => CloseDrains
  BY DEF IInv, Ordered, CloseDrains
<1> QED
  BY <1>1, WatcherInvariant, PTL

\* A command's effect is in the report by the time its caller is answered.
THEOREM RepliesAfterReport == Spec => AnsweredIsPublished
<1> DEFINE A == \A g \in Goroutines :
                  call'[g].reply # NoReply /\ call[g].reply = NoReply =>
                     report = [live |-> live, pin |-> call'[g].reply]
<1>1. ASSUME IInv, [Next]_vars PROVE [A]_vars
  <2> SUFFICES ASSUME Next, NEW h \in Goroutines,
                      call'[h].reply # NoReply, call[h].reply = NoReply
               PROVE  report = [live |-> live, pin |-> call'[h].reply]
    BY Zenon, <1>1
  <2>0. call \in [Goroutines -> Calls]
    BY <1>1 DEF IInv, Typed
  <2>1. CASE Reply
    BY <1>1, <2>0, <2>1 DEF Reply, IInv, Ordered, BuildReport, Calls
  <2>2. ASSUME NEW g \in Goroutines, NEW k \in Kinds, SendPin(g, k) PROVE FALSE
    BY Zenon, <2>0, <2>2 DEF SendPin, Idle, Calls
  <2>3. ASSUME NEW g \in Goroutines,
               SendClosed(g) \/ AwaitClosed(g) \/ GiveUp(g) \/ TakeReply(g)
        PROVE  FALSE
    BY <2>0, <2>3 DEF SendClosed, AwaitClosed, GiveUp, TakeReply, Return, Idle, Calls
  <2>4. ASSUME NEW g \in Goroutines, HandlePin(g) PROVE FALSE
    <3>1. call' = [call EXCEPT ![g].at = "await"]
      BY <2>4 DEF HandlePin
    <3> QED
      BY <2>0, <3>1 DEF Calls
  <2>5. ASSUME call' = call PROVE FALSE
    BY <2>5
  <2> QED
    BY Zenon, <2>1, <2>2, <2>3, <2>4, <2>5
    DEF Next, Close, TimerFires, RefreshNow, Flush, Gate, GateRefuses, GateAccepts,
        OnErrorReturns, Store, Enqueue, EnqueueSend, EnqueueFull, EnqueueDrop, Report,
        SourcesClose, LoopReturns, Deliver, OnChangeReturns, DispatcherReturns,
        CloseReturns, ParentDone
<1> QED
  BY <1>1, WatcherInvariant, PTL DEF Spec, AnsweredIsPublished

-----------------------------------------------------------------------------
(* The refinement.  The order in which OnChange is told needs one invariant   *)
(* more: the change being handled, the queue and the change being enqueued    *)
(* are in the order of their snapshots.                                       *)

Lined ==
    /\ \A i \in 1 .. Len(queue) :
          queue[i] >= 1 /\ handling <= queue[i] /\ (ev # 0 => queue[i] <= ev)
    /\ \A i, j \in 1 .. Len(queue) : i < j => queue[i] <= queue[j]
    /\ ev # 0 => handling <= ev
    /\ rec \in {"enqueue", "drop"} <=> ev # 0
    /\ Len(queue) <= Depth

\* A step that touches neither the queue nor the change to announce keeps the line.
LEMMA LineKept ==
    ASSUME Lined, UNCHANGED <<queue, handling, ev>>,
           rec \in {"enqueue", "drop"} <=> rec' \in {"enqueue", "drop"}
    PROVE  Lined'
BY DEF Lined

\* A command announces the live snapshot or nothing, and nothing is ahead of it.
LEMMA HandlePinLined ==
    ASSUME IInv, Lined, NEW g \in Goroutines, HandlePin(g)
    PROVE  Lined'
<1>1. /\ rec = "select" /\ UNCHANGED <<queue, handling>> /\ ev = 0
      /\ Typed /\ Behind
  BY HandlePinCases DEF IInv, Lined
<1>2. \/ ev' = 0 /\ rec' \notin {"enqueue", "drop"}
      \/ ev' = live /\ rec' = "enqueue"
  <2>1. call[g].kind \in {"pinCurrent", "pinAt", "unpin", "refresh"}
    BY <1>1 DEF Typed, Calls, Kinds
  <2> QED
    BY Zenon, <1>1, <2>1 DEF HandlePin
<1>3. /\ handling <= live
      /\ \A i \in 1 .. Len(queue) : queue[i] <= live
  <2>1. queue \in Seq(Nat) /\ handling \in Nat
    BY <1>1 DEF Typed
  <2>2. \A i \in 1 .. Len(queue) : queue[i] \in Nat
    BY <2>1
  <2> QED
    BY <1>1, <2>1, <2>2 DEF Behind, Announced
<1>4. live \in Nat /\ live # 0
  BY <1>1 DEF Typed
<1> QED
  BY <1>1, <1>2, <1>3, <1>4 DEF Lined

\* An unpinned flush announces the live snapshot.
LEMMA StoreLined ==
    ASSUME IInv, Lined, Store
    PROVE  Lined'
<1>1. rec = "store" /\ UNCHANGED <<queue, handling>> /\ ev = 0 /\ Typed /\ Behind
  BY DEF Store, dispatch, IInv, Lined
<1>2. \/ ev' = 0 /\ rec' = "report"
      \/ ev' = live /\ rec' = "enqueue"
  BY DEF Store, Publish
<1>3. /\ handling <= live
      /\ \A i \in 1 .. Len(queue) : queue[i] <= live
  <2>1. queue \in Seq(Nat) /\ handling \in Nat
    BY <1>1 DEF Typed
  <2>2. \A i \in 1 .. Len(queue) : queue[i] \in Nat
    BY <2>1
  <2> QED
    BY <1>1, <2>1, <2>2 DEF Behind, Announced
<1>4. live \in Nat /\ live # 0
  BY <1>1 DEF Typed
<1> QED
  BY <1>1, <1>2, <1>3, <1>4 DEF Lined

\* The queue takes the change at its end and gives one up at its front.
LEMMA QueueLined ==
    ASSUME IInv, Lined, EnqueueSend \/ EnqueueFull \/ EnqueueDrop \/ Deliver
    PROVE  Lined'
<1>1. queue \in Seq(Nat) /\ ev \in Nat /\ handling \in Nat /\ Depth \in Nat
  BY WatcherAssumption DEF IInv, Typed
<1>2. CASE EnqueueSend
  <2>1. rec = "enqueue" /\ ev # 0 /\ ev' = 0 /\ rec' = "report"
    BY <1>2 DEF EnqueueSend, Lined
  <2>2. CASE queue' = Append(queue, ev) /\ handling' = handling /\ Len(queue) < Depth
    <3>1. \A i \in 1 .. Len(queue') :
             \/ i = Len(queue) + 1 /\ queue'[i] = ev
             \/ i \in 1 .. Len(queue) /\ queue'[i] = queue[i]
      BY <1>1, <2>2
    <3> QED
      BY <1>1, <2>1, <2>2, <3>1 DEF Lined
  <2>3. CASE queue' = queue /\ handling' = ev /\ Depth = 0
    <3>1. Len(queue) = 0
      BY <1>1, <2>3 DEF Lined
    <3> QED
      BY <1>1, <2>1, <2>3, <3>1 DEF Lined
  <2> QED
    BY <1>2, <2>2, <2>3 DEF EnqueueSend
<1>3. CASE EnqueueFull
  BY <1>3, LineKept DEF EnqueueFull, dispatch
<1>4. CASE EnqueueDrop
  <2>1. CASE queue = <<>>
    BY <1>4, <2>1, LineKept DEF EnqueueDrop
  <2>2. CASE queue # <<>>
    <3>1. /\ \A i \in 1 .. Len(queue') : i + 1 \in 1 .. Len(queue) /\ queue'[i] = queue[i + 1]
          /\ Len(queue') <= Len(queue) /\ Len(queue') \in Nat /\ Len(queue) \in Nat
      BY <1>1, <1>4, <2>2 DEF EnqueueDrop
    <3>2. UNCHANGED <<handling, ev>> /\ rec = "drop" /\ rec' = "enqueue"
      BY <1>4 DEF EnqueueDrop
    <3>3. \A i \in 1 .. Len(queue') :
             queue'[i] >= 1 /\ handling <= queue'[i] /\ (ev # 0 => queue'[i] <= ev)
      BY <3>1 DEF Lined
    <3>4. \A i, j \in 1 .. Len(queue') : i < j => queue'[i] <= queue'[j]
      <4>1. \A i, j \in 1 .. Len(queue') : i < j => i + 1 < j + 1
        BY <3>1
      <4>2. \A i, j \in 1 .. Len(queue) : i < j => queue[i] <= queue[j]
        BY DEF Lined
      <4> QED
        BY <3>1, <4>1, <4>2
    <3>5. Len(queue') <= Depth
      BY <1>1, <3>1 DEF Lined
    <3> QED
      BY <3>2, <3>3, <3>4, <3>5 DEF Lined
  <2> QED
    BY <2>1, <2>2
<1>5. CASE Deliver
  <2>1. /\ 1 \in 1 .. Len(queue) /\ handling' = queue[1]
        /\ \A i \in 1 .. Len(queue') : i + 1 \in 1 .. Len(queue) /\ queue'[i] = queue[i + 1]
        /\ Len(queue') <= Len(queue) /\ Len(queue') \in Nat /\ Len(queue) \in Nat
        /\ ev' = ev /\ rec' = rec
    BY <1>1, <1>5 DEF Deliver, engine
  <2>2. /\ \A i \in 1 .. Len(queue') :
              queue'[i] >= 1 /\ handling' <= queue'[i] /\ (ev' # 0 => queue'[i] <= ev')
        /\ ev' # 0 => handling' <= ev'
    <3>1. \A i \in 1 .. Len(queue') : 1 < i + 1 /\ i + 1 \in 1 .. Len(queue)
      BY <2>1
    <3>2. \A i \in 1 .. Len(queue') :
             queue[i + 1] >= 1 /\ queue[1] <= queue[i + 1] /\ (ev # 0 => queue[i + 1] <= ev)
      BY <2>1, <3>1 DEF Lined
    <3> QED
      BY <2>1, <3>2 DEF Lined
  <2>3. \A i, j \in 1 .. Len(queue') : i < j => queue'[i] <= queue'[j]
    <3>1. \A i, j \in 1 .. Len(queue') : i < j => i + 1 < j + 1
      BY <2>1
    <3>2. \A i, j \in 1 .. Len(queue) : i < j => queue[i] <= queue[j]
      BY DEF Lined
    <3> QED
      BY <2>1, <3>1, <3>2
  <2>4. Len(queue') <= Depth
    BY <1>1, <2>1 DEF Lined
  <2> QED
    BY <2>1, <2>2, <2>3, <2>4 DEF Lined
<1> QED
  BY <1>2, <1>3, <1>4, <1>5

\* Every step keeps the line.
LEMMA NextLined ==
    ASSUME IInv, Lined, Next
    PROVE  Lined'
<1>1. ASSUME NEW g \in Goroutines, NEW k \in Kinds, SendPin(g, k) PROVE Lined'
  BY <1>1, LineKept DEF SendPin, engine, dispatch
<1>2. ASSUME NEW g \in Goroutines, Return(g) PROVE Lined'
  BY <1>2, LineKept DEF Return, dispatch
<1>3. ASSUME NEW g \in Goroutines, SendClosed(g) \/ AwaitClosed(g) \/ GiveUp(g) \/ TakeReply(g)
      PROVE  Lined'
  BY <1>2, <1>3 DEF SendClosed, AwaitClosed, GiveUp, TakeReply
<1>4. ASSUME NEW g \in Goroutines, HandlePin(g) PROVE Lined'
  BY <1>4, HandlePinLined
<1>5. ASSUME NEW g \in Goroutines, Close(g) PROVE Lined'
  BY <1>5, LineKept DEF Close, engine, dispatch
<1>6. CASE TimerFires \/ RefreshNow \/ GateRefuses \/ GateAccepts \/ OnErrorReturns
  BY Zenon, <1>6, LineKept DEF TimerFires, RefreshNow, Flush, GateRefuses, GateAccepts, OnErrorReturns,
                        dispatch
<1>7. CASE Report \/ Reply \/ LoopReturns
  BY <1>7, LineKept DEF Report, Reply, LoopReturns, dispatch
<1>8. CASE SourcesClose \/ CloseReturns \/ ParentDone
  BY <1>8, LineKept DEF SourcesClose, CloseReturns, ParentDone, engine, dispatch
<1>9. CASE OnChangeReturns \/ DispatcherReturns
  BY Zenon, <1>9, LineKept DEF OnChangeReturns, DispatcherReturns, engine
<1>10. CASE Store
  BY <1>10, StoreLined
<1>11. CASE EnqueueSend \/ EnqueueFull \/ EnqueueDrop \/ Deliver
  BY <1>11, QueueLined
<1> QED
  BY <1>1, <1>3, <1>4, <1>5, <1>6, <1>7, <1>8, <1>9, <1>10, <1>11 DEF Next, Gate, Enqueue

\* What is announced stays in the order of the snapshots.
THEOREM LineInvariant == Spec => []Lined
<1>1. Init => Lined
  BY WatcherAssumption DEF Init, Lined
<1>2. ASSUME IInv, Lined, [Next]_vars PROVE Lined'
  <2>1. CASE UNCHANGED vars
    BY <1>2, <2>1, LineKept DEF vars, engine, dispatch
  <2> QED
    BY <1>2, <2>1, NextLined
<1> QED
  BY <1>1, <1>2, WatcherInvariant, PTL DEF Spec

-----------------------------------------------------------------------------
\* A step that changes nothing the application sees is no step of the promise.
LEMMA Unseen ==
    ASSUME UNCHANGED <<live, cfg, pin, handling, closer>>
    PROVE  UNCHANGED Promise!vars
BY DEF Promise!vars

\* Close returns last, so a step of the reconciler or of the dispatcher comes before.
LEMMA NotOver ==
    ASSUME IInv, rec # "exited" \/ disp # "exited"
    PROVE  closer.at # "returned"
BY DEF IInv, Ordered

\* A command is a pin, an unpin, or nothing the application sees.
LEMMA HandlePinPromised ==
    ASSUME IInv, NEW g \in Goroutines, HandlePin(g)
    PROVE  [Promise!Next]_(Promise!vars)
<1>1. /\ UNCHANGED <<live, handling, closer>> /\ closer.at # "returned"
      /\ Typed /\ Behind
  BY NotOver DEF HandlePin, dispatch, IInv
<1>2. call[g].kind \in {"pinCurrent", "pinAt", "unpin", "refresh"}
  BY <1>1 DEF Typed, Calls, Kinds
<1>3. \/ \E v \in 1 .. live : pin' = v /\ cfg' = v
      \/ pin # 0 /\ pin' = 0 /\ cfg' = live
      \/ UNCHANGED <<pin, cfg>>
  <2>1. CASE call[g].kind = "pinCurrent"
    <3>1. Served \in 1 .. live
      BY <1>1 DEF Served, Typed, Behind
    <3> QED
      BY <2>1, <3>1 DEF HandlePin
  <2>2. CASE call[g].kind = "pinAt"
    BY <2>2 DEF HandlePin
  <2>3. CASE call[g].kind = "unpin"
    BY <2>3 DEF HandlePin
  <2>4. CASE call[g].kind = "refresh"
    BY <2>4 DEF HandlePin
  <2> QED
    BY Zenon, <1>2, <2>1, <2>2, <2>3, <2>4
<1> QED
  BY <1>1, <1>3, Unseen DEF Promise!Next, Promise!Freeze, Promise!Unfreeze

\* The reconciler's steps apply a snapshot, serve it, or hand it to a waiting
\* dispatcher.
LEMMA ReconcilerPromised ==
    ASSUME IInv, Lined, GateAccepts \/ Store \/ EnqueueSend
    PROVE  [Promise!Next]_(Promise!vars)
<1>1. closer.at # "returned" /\ closer' = closer /\ Typed /\ Behind /\ Unfrozen
  BY Zenon, NotOver DEF GateAccepts, Store, EnqueueSend, IInv
<1>2. CASE GateAccepts
  BY <1>1, <1>2 DEF GateAccepts, dispatch, Promise!Next, Promise!Apply
<1>3. CASE Store
  <2>1. UNCHANGED <<live, pin, handling>> /\ ((pin = 0 /\ cfg' = live) \/ cfg' = cfg)
    BY <1>3 DEF Store, Publish, dispatch
  <2> QED
    BY <1>1, <2>1, Unseen DEF Promise!Next, Promise!Serve
<1>4. CASE EnqueueSend
  <2>1. UNCHANGED <<live, pin, cfg>> /\ (handling' = handling \/ handling' = ev)
    BY <1>4 DEF EnqueueSend, state
  <2>2. ev \in Nat /\ live \in Nat /\ ev # 0 /\ handling <= ev
    BY Zenon, <1>1, <1>4 DEF EnqueueSend, Lined, Typed
  <2>3. ev \in 1 .. live /\ (pin = 0 => ev <= cfg)
    BY <1>1, <2>2 DEF Behind, Unfrozen, Announced
  <2> QED
    BY <1>1, <2>1, <2>2, <2>3, Unseen DEF Promise!Next, Promise!Tell
<1> QED
  BY <1>2, <1>3, <1>4

\* The dispatcher tells OnChange of the oldest change queued.
LEMMA DeliverPromised ==
    ASSUME IInv, Lined, Deliver
    PROVE  [Promise!Next]_(Promise!vars)
<1>1. /\ closer.at # "returned" /\ Typed /\ Behind /\ Unfrozen
      /\ UNCHANGED <<live, pin, cfg, closer>>
  BY NotOver DEF Deliver, IInv, state
<1>2. queue \in Seq(Nat) /\ queue # <<>> /\ handling' = Head(queue) /\ live \in Nat
  BY <1>1 DEF Deliver, Typed
<1>3. 1 \in 1 .. Len(queue) /\ Head(queue) = queue[1] /\ queue[1] \in Nat
  BY <1>2
<1>4. queue[1] \in 1 .. live /\ queue[1] >= handling /\ (pin = 0 => queue[1] <= cfg)
  BY <1>1, <1>2, <1>3 DEF Behind, Unfrozen, Announced, Lined, Typed
<1> QED
  BY <1>1, <1>2, <1>3, <1>4 DEF Promise!Next, Promise!Tell

\* The goroutines of a Watcher implement the machine the application was promised.
THEOREM Implements == Spec => KeepsPromise
<1>1. Init => Promise!Init
  BY DEF Init, Promise!Init
<1>2. ASSUME IInv, Lined, [Next]_vars PROVE [Promise!Next]_(Promise!vars)
  <2>1. CASE UNCHANGED vars
    BY <2>1, Unseen DEF vars, state, dispatch
  <2>2. ASSUME NEW g \in Goroutines, HandlePin(g) PROVE [Promise!Next]_(Promise!vars)
    BY <1>2, <2>2, HandlePinPromised
  <2>3. CASE GateAccepts \/ Store \/ EnqueueSend
    BY <1>2, <2>3, ReconcilerPromised
  <2>4. CASE Deliver
    BY <1>2, <2>4, DeliverPromised
  <2>5. CASE CloseReturns
    BY <2>5 DEF CloseReturns, state, dispatch, Promise!Next
  <2>6. ASSUME NEW g \in Goroutines, Close(g) PROVE [Promise!Next]_(Promise!vars)
    BY <2>6 DEF Close, state, dispatch, Promise!vars
  <2>7. ASSUME NEW g \in Goroutines, Return(g) \/ \E k \in Kinds : SendPin(g, k)
        PROVE  [Promise!Next]_(Promise!vars)
    BY Zenon, <2>7, Unseen DEF Return, SendPin, state, dispatch
  <2>8. CASE TimerFires \/ RefreshNow \/ GateRefuses \/ OnErrorReturns \/ EnqueueFull \/ EnqueueDrop
    BY Zenon, <2>8, Unseen DEF TimerFires, RefreshNow, Flush, GateRefuses, OnErrorReturns,
                        EnqueueFull, EnqueueDrop, state, dispatch
  <2>9. CASE Report \/ Reply \/ LoopReturns \/ SourcesClose \/ ParentDone
    BY <2>9, Unseen DEF Report, Reply, LoopReturns, SourcesClose, ParentDone, state, dispatch
  <2>10. CASE OnChangeReturns \/ DispatcherReturns
    BY Zenon, <2>10, Unseen DEF OnChangeReturns, DispatcherReturns, state
  <2>11. ASSUME NEW g \in Goroutines, SendClosed(g) \/ AwaitClosed(g) \/ GiveUp(g) \/ TakeReply(g)
         PROVE  Return(g)
    BY <2>11 DEF SendClosed, AwaitClosed, GiveUp, TakeReply
  <2> QED
    BY <1>2, <2>1, <2>2, <2>3, <2>4, <2>5, <2>6, <2>7, <2>8, <2>9, <2>10, <2>11
    DEF Next, Gate, Enqueue
<1> QED
  BY <1>1, <1>2, WatcherInvariant, LineInvariant, PTL DEF Spec, KeepsPromise, Promise!Spec
=============================================================================
