------------------------------- MODULE Watcher -------------------------------
(***************************************************************************)
(* The goroutines of a Watcher (reconciler.go, pin.go, refresh.go,         *)
(* preapply.go) and what they publish to each other: the reconciler, the   *)
(* dispatcher of OnChange, the callers of PinCurrent, Unpin and Refresh,   *)
(* and Close.  Reconciler says what one command or flush does to the       *)
(* engine; here it is cut at every publication another goroutine can see,  *)
(* and a snapshot is only its version: any two are taken to differ.        *)
(***************************************************************************)
EXTENDS Integers, Sequences

CONSTANTS
    Callers,        \* goroutines of the application
    Handler,        \* the OnChange handler, run by the dispatcher
    Hook,           \* the PreApply, WithDerive or OnError callback
    None,           \* no goroutine
    Depth,          \* WithQueueDepth
    Issues,         \* bound: the commands each goroutine issues
    SourcesEnd,     \* a watch source may close its channel on its own
    HandlerCloses,  \* the OnChange handler may call Close
    MaxVersion      \* bound: snapshots applied

ASSUME WatcherAssumption ==
    /\ Handler \notin Callers /\ Hook \notin Callers /\ Handler # Hook
    /\ None \notin Callers \cup {Handler, Hook}
    /\ Depth \in Nat /\ MaxVersion \in Nat \ {0}
    /\ SourcesEnd \in BOOLEAN /\ HandlerCloses \in BOOLEAN

Kinds == {"pinCurrent", "pinAt", "unpin", "refresh"}
Goroutines == Callers \cup {Handler, Hook}
NoReply == -1

VARIABLES
    ctxDone,    \* the watcher's context is cancelled
    open,       \* some watch source is still open
    rec,        \* where the reconciler goroutine is
    cmd,        \* whose command it is serving, or None
    ev,         \* the change it is enqueueing
    inCallback, \* the goroutine inside an inline callback, or None
    live,       \* e.version
    pin,        \* e.pinnedVersion, 0 when not pinned
    snaps,      \* the newest version History returns
    cfg,        \* the version Get returns
    report,     \* the versions Status and Pinned return
    queue,      \* the dispatch channel
    disp,       \* where the dispatcher is
    handling,   \* the change OnChange was last called with
    call,       \* the command each goroutine has issued
    closer      \* who is inside Close, and where

engine == <<rec, cmd, ev, inCallback>>
state == <<live, pin, snaps, cfg, report>>
dispatch == <<queue, disp, handling>>
vars == <<ctxDone, open, engine, state, dispatch, call, closer>>

Idle == [at |-> "idle", kind |-> "unpin", reply |-> NoReply]

Init ==
    /\ ctxDone = FALSE /\ open = TRUE
    /\ rec = "select" /\ cmd = None /\ ev = 0 /\ inCallback = None
    /\ live = 1 /\ pin = 0 /\ snaps = 1 /\ cfg = 1
    /\ report = [live |-> 1, pin |-> 0]
    /\ queue = <<>> /\ disp = "recv" /\ handling = 0
    /\ call = [g \in Goroutines |-> Idle]
    /\ closer = [who |-> None, at |-> "no"]

-----------------------------------------------------------------------------
(* sendPinCtx, in the calling goroutine *)

\* Who may be running code that calls the watcher.
Running(g) ==
    /\ call[g].at = "idle" /\ closer.who # g
    /\ g = Handler => disp = "handle"
    /\ g = Hook => rec \in {"gate", "onError"}

\* Variant: the guard is dropped.
NeverReentrant(g) == FALSE

\* inCallback holds the id of the goroutine inside the callback.
Reentrant(g) == inCallback = g

\* The command is refused at once, or the caller blocks on the channel.
SendPin(g, k) ==
    /\ Running(g) /\ k \in Issues[g]
    /\ call' = [call EXCEPT ![g] =
          IF Reentrant(g) THEN Idle   \* ErrReentrantCall
          ELSE [at |-> "send", kind |-> k, reply |-> NoReply]]
    /\ UNCHANGED <<ctxDone, open, engine, state, dispatch, closer>>

\* The call returns; a command the reconciler has taken still runs.
Return(g) ==
    /\ call' = [call EXCEPT ![g] = Idle]
    /\ cmd' = IF cmd = g THEN None ELSE cmd
    /\ rec' = IF cmd = g /\ rec = "reply" THEN "select" ELSE rec
    /\ UNCHANGED <<ctxDone, open, ev, inCallback, state, dispatch, closer>>

\* The watcher's context is done before the reconciler took the command.
SendClosed(g) == call[g].at = "send" /\ ctxDone /\ Return(g)

\* The watcher's context is done and no reply has come.
AwaitClosed(g) ==
    /\ call[g].at = "await" /\ ctxDone /\ call[g].reply = NoReply
    /\ Return(g)

\* Refresh's own context is cancelled.
GiveUp(g) ==
    /\ call[g].at \in {"send", "await"} /\ call[g].kind = "refresh"
    /\ Return(g)

\* The reply arrives.
TakeReply(g) ==
    /\ call[g].at = "await" /\ call[g].reply # NoReply
    /\ Return(g)

-----------------------------------------------------------------------------
(* the reconciler goroutine *)

\* PinCurrent freezes what Get returns, pinned or not.
Served == IF pin = 0 THEN live ELSE pin

\* handlePin up to its first publication.
HandlePin(g) ==
    /\ rec = "select" /\ call[g].at = "send"
    /\ call' = [call EXCEPT ![g].at = "await"]
    /\ cmd' = g
    /\ CASE call[g].kind = "pinCurrent" ->
              /\ pin' = Served /\ cfg' = Served
              /\ rec' = "report" /\ UNCHANGED <<ev, inCallback>>
         [] call[g].kind = "pinAt" ->   \* a retained snapshot, or ErrNoSuchSnapshot
              /\ \/ \E v \in 1 .. live : pin' = v /\ cfg' = v
                 \/ UNCHANGED <<pin, cfg>>
              /\ rec' = "report" /\ UNCHANGED <<ev, inCallback>>
         [] call[g].kind = "unpin" ->
              /\ pin' = 0
              /\ cfg' = IF pin = 0 THEN cfg ELSE live
              /\ ev' = IF pin \in {0, live} THEN 0 ELSE live
              /\ rec' = IF pin \in {0, live} THEN "report" ELSE "enqueue"
              /\ UNCHANGED inCallback
         [] call[g].kind = "refresh" ->
              /\ rec' = "walk" /\ UNCHANGED <<pin, cfg, ev, inCallback>>
    /\ UNCHANGED <<ctxDone, open, live, snaps, report, dispatch, closer>>

\* flush: a candidate is gated, or rejected by a derive hook or validation
\* with an OnError call, or nothing differs.
Flush ==
    /\ \/ rec' = "gate" /\ live < MaxVersion /\ inCallback' = Hook
       \/ rec' = "onError" /\ inCallback' = Hook
       \/ rec' = "report" /\ UNCHANGED inCallback
    /\ UNCHANGED <<ctxDone, open, cmd, ev, state, dispatch, call, closer>>

TimerFires == rec = "select" /\ Flush
RefreshNow == rec = "walk" /\ Flush

\* The hook refuses: emitErr calls OnError, inline as well.
GateRefuses ==
    /\ rec = "gate" /\ call[Hook].at = "idle"
    /\ rec' = "onError" /\ inCallback' = Hook
    /\ UNCHANGED <<ctxDone, open, cmd, ev, state, dispatch, call, closer>>

OnErrorReturns ==
    /\ rec = "onError" /\ call[Hook].at = "idle"
    /\ rec' = "report" /\ inCallback' = None
    /\ UNCHANGED <<ctxDone, open, cmd, ev, state, dispatch, call, closer>>

\* The hook accepts: the version is recorded in the history.
GateAccepts ==
    /\ rec = "gate" /\ call[Hook].at = "idle"
    /\ live' = live + 1 /\ snaps' = live + 1
    /\ rec' = "store" /\ inCallback' = None
    /\ UNCHANGED <<ctxDone, open, cmd, ev, pin, cfg, report, dispatch, call, closer>>

\* Variant: the change is enqueued and Get left for the next flush.
StoreNothing == cfg' = cfg /\ ev' = live /\ rec' = "enqueue"

\* A pinned flush moves neither Get nor OnChange.
Publish ==
    IF pin = 0 THEN cfg' = live /\ ev' = live /\ rec' = "enqueue"
    ELSE cfg' = cfg /\ ev' = 0 /\ rec' = "report"

Store ==
    /\ rec = "store" /\ Publish
    /\ UNCHANGED <<ctxDone, open, cmd, inCallback, live, pin, snaps, report, dispatch, call, closer>>

\* The send of enqueue: into the buffer, or straight to a waiting receiver.
EnqueueSend ==
    /\ rec = "enqueue"
    /\ \/ Len(queue) < Depth /\ queue' = Append(queue, ev) /\ UNCHANGED <<disp, handling>>
       \/ Depth = 0 /\ disp = "recv" /\ disp' = "handle" /\ handling' = ev /\ UNCHANGED queue
    /\ ev' = 0 /\ rec' = "report"
    /\ UNCHANGED <<ctxDone, open, cmd, inCallback, state, call, closer>>

\* Variant: the change that finds the buffer full is the one dropped.
EnqueueGivesUp ==
    /\ rec = "enqueue" /\ Len(queue) = Depth /\ Depth > 0
    /\ rec' = "report" /\ ev' = 0
    /\ UNCHANGED <<ctxDone, open, cmd, inCallback, state, dispatch, call, closer>>

\* The send found the buffer full.
EnqueueFull ==
    /\ rec = "enqueue" /\ Len(queue) = Depth /\ Depth > 0
    /\ rec' = "drop"
    /\ UNCHANGED <<ctxDone, open, cmd, ev, inCallback, state, dispatch, call, closer>>

\* The receive that makes room; the dispatcher may have made it already.
EnqueueDrop ==
    /\ rec = "drop" /\ rec' = "enqueue"
    /\ queue' = IF queue = <<>> THEN queue ELSE Tail(queue)
    /\ UNCHANGED <<ctxDone, open, cmd, ev, inCallback, state, disp, handling, call, closer>>

\* What the report says.
BuildReport == [live |-> live, pin |-> pin]

Report ==
    /\ rec = "report"
    /\ report' = BuildReport
    /\ rec' = IF cmd = None THEN "select" ELSE "reply"
    /\ UNCHANGED <<ctxDone, open, cmd, ev, inCallback, live, pin, snaps, cfg, dispatch, call, closer>>

\* The reply channel has room for one, so the send never blocks.
Reply ==
    /\ rec = "reply" /\ rec' = "select"
    /\ call' = [call EXCEPT ![cmd].reply = pin]
    /\ cmd' = None
    /\ UNCHANGED <<ctxDone, open, ev, inCallback, state, dispatch, closer>>

\* Every source has closed, and with it the updates channel.
SourcesClose ==
    /\ SourcesEnd \/ ctxDone
    /\ open /\ open' = FALSE
    /\ UNCHANGED <<ctxDone, engine, state, dispatch, call, closer>>

\* The loop returns: its context is done or no source is left.
LoopReturns ==
    /\ rec = "select" /\ (ctxDone \/ ~open)
    /\ rec' = "exited"
    /\ UNCHANGED <<ctxDone, open, cmd, ev, inCallback, state, dispatch, call, closer>>

-----------------------------------------------------------------------------
(* the dispatcher, and Close *)

Deliver ==
    /\ disp = "recv" /\ queue # <<>>
    /\ disp' = "handle" /\ handling' = Head(queue) /\ queue' = Tail(queue)
    /\ UNCHANGED <<ctxDone, open, engine, state, call, closer>>

OnChangeReturns ==
    /\ disp = "handle" /\ call[Handler].at = "idle" /\ closer.who # Handler
    /\ disp' = "recv"
    /\ UNCHANGED <<ctxDone, open, engine, state, queue, handling, call, closer>>

\* The channel is closed and drained.
DispatcherReturns ==
    /\ disp = "recv" /\ queue = <<>> /\ rec = "exited"
    /\ disp' = "exited"
    /\ UNCHANGED <<ctxDone, open, engine, state, queue, handling, call, closer>>

\* Close cancels the context and waits for both goroutines.
Close(g) ==
    /\ closer.at = "no" /\ (g = Handler => HandlerCloses)
    /\ g # Hook /\ Running(g)
    /\ ctxDone' = TRUE
    /\ closer' = [who |-> g, at |-> "wait"]
    /\ UNCHANGED <<open, engine, state, dispatch, call>>

AllGone == rec = "exited" /\ disp = "exited"

CloseReturns ==
    /\ closer.at = "wait" /\ AllGone
    /\ closer' = [who |-> None, at |-> "returned"]
    /\ UNCHANGED <<ctxDone, open, engine, state, dispatch, call>>

\* The context Watch was given is cancelled.
ParentDone ==
    /\ ~ctxDone /\ ctxDone' = TRUE
    /\ UNCHANGED <<open, engine, state, dispatch, call, closer>>

Gate == GateRefuses \/ GateAccepts
Enqueue == EnqueueSend \/ EnqueueFull \/ EnqueueDrop

Next ==
    \/ \E g \in Goroutines :
          \/ \E k \in Kinds : SendPin(g, k)
          \/ SendClosed(g) \/ AwaitClosed(g) \/ GiveUp(g) \/ TakeReply(g)
          \/ HandlePin(g) \/ Close(g)
    \/ TimerFires \/ RefreshNow \/ Gate \/ OnErrorReturns \/ Store \/ Enqueue
    \/ Report \/ Reply \/ SourcesClose \/ LoopReturns
    \/ Deliver \/ OnChangeReturns \/ DispatcherReturns
    \/ CloseReturns \/ ParentDone

Spec == Init /\ [][Next]_vars

(* The reconciler and the dispatcher are goroutines that run whenever they  *)
(* can, the callbacks they call return, and select picks among the ready    *)
(* cases at random, so none of them is passed over for ever.  The hook's    *)
(* commands are refused at once and wait for nobody.                        *)
Fairness ==
    /\ WF_vars(RefreshNow) /\ SF_vars(Gate) /\ SF_vars(OnErrorReturns)
    /\ WF_vars(Store) /\ WF_vars(Enqueue) /\ WF_vars(Report) /\ WF_vars(Reply)
    /\ SF_vars(LoopReturns)
    /\ SF_vars(Deliver) /\ SF_vars(OnChangeReturns) /\ WF_vars(DispatcherReturns)
    /\ WF_vars(CloseReturns)
    /\ \A g \in Callers \cup {Handler} :
          /\ SF_vars(HandlePin(g)) /\ WF_vars(TakeReply(g))
          /\ WF_vars(SendClosed(g)) /\ WF_vars(AwaitClosed(g))

FairSpec == Spec /\ Fairness

-----------------------------------------------------------------------------

(* While OnChange runs for a change and nothing is pinned, Get already       *)
(* returns that change's snapshot or a newer one: flush and Unpin store the  *)
(* configuration before they enqueue the change.                             *)
GetNotBehindOnChange == disp = "handle" /\ pin = 0 => cfg >= handling

(* What Get and Status show is in the history, and an unpinned Status is     *)
(* never ahead of Get: the history, the configuration and the report are     *)
(* published in that order by every flush and command.                       *)
PublishedInOrder ==
    /\ cfg <= snaps /\ report.live <= snaps
    /\ pin = 0 => report.live <= cfg

(* Once Close has returned no callback runs or will run: the reconciler has  *)
(* left its loop and the dispatcher has drained the queue.                   *)
CloseDrains ==
    closer.at = "returned" => rec = "exited" /\ disp = "exited" /\ queue = <<>>

(* When a command is answered, Status and Pinned already show its effect:    *)
(* handlePin publishes the report before it replies.                         *)
AnsweredIsPublished ==
    [][\A g \in Goroutines :
          call'[g].reply # NoReply /\ call[g].reply = NoReply =>
             report = [live |-> live, pin |-> call'[g].reply]]_vars

(* Every PinCurrent, Pin, Unpin and Refresh returns, from any goroutine and  *)
(* from inside any callback, with no need for anybody to call Close; and so  *)
(* does Close.                                                               *)
CallsReturn ==
    /\ \A g \in Goroutines : call[g].at # "idle" ~> call[g].at = "idle"
    /\ closer.at = "wait" ~> closer.at = "returned"

(* To the application all this is the machine of WatcherPromise: Get, the    *)
(* pin, the order of what OnChange is told and that Get is never behind it,  *)
(* and silence once Close has returned (flush, handlePin, enqueue, Close).   *)
Promise ==
    INSTANCE WatcherPromise WITH
        applied <- live, get <- cfg, frozen <- pin, told <- handling,
        over <- (closer.at = "returned")

KeepsPromise == Promise!Spec

(* What a flush or an Unpin announces reaches OnChange, or something newer    *)
(* does, however far the handler is behind and whoever closes meanwhile:      *)
(* enqueue makes room by dropping an older change.  (A Pin is not announced,  *)
(* so pinning the live snapshot and unpinning tells OnChange nothing.)        *)
NewestAnnounced ==
    \A v \in 2 .. MaxVersion : rec = "enqueue" /\ ev = v ~> handling >= v
=============================================================================
