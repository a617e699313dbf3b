------------------------------- MODULE Server -------------------------------
(***************************************************************************)
(* The life of a config server (server/resolve.go, server/transport.go):   *)
(* Serve, its listeners and their goroutines, the goroutine that turns a   *)
(* cancelled context into a Close, any number of Close calls, and the Unix *)
(* socket path a restarted server takes over from its predecessor.  A step *)
(* is what one goroutine does between two points another one can observe.  *)
(***************************************************************************)
EXTENDS Naturals, FiniteSets, Sequences

CONSTANTS
    Servers,    \* processes that serve on the same socket path
    Stopped,    \* the ones that are stopped and meet clients; the others stay
    Callers,    \* goroutines that call Close, per server
    WithTCP,    \* the servers configured with a TCP listener beside the Unix one
    None,
    Inodes,     \* the inode numbers of the socket's directory
    BindFails,  \* a listener may fail to bind
    PathRace    \* a server may replace the path inside another's stat window

ASSUME ServerAssumption ==
    /\ None \notin Servers /\ BindFails \in BOOLEAN /\ PathRace \in BOOLEAN
    /\ Inodes \subseteq Nat \ {0}
    /\ {"serve", "watch"} \cap Callers = {}

VARIABLES
    path,       \* the inode at the socket path, 0 when there is none
    holder,     \* history: the server that last took the path
    own,        \* the inode of each server's Unix listener
    ident,      \* listenerEntry.unixFile, as bindUnix recorded it
    ctxDone,    \* the context Serve was given is cancelled
    closed, closeDone, draining,
    serving,    \* servingCtx: none, live or done
    resolving,  \* the per-binding watch goroutines: none, live, done or gone
    ln,         \* each listener: none, open or closed
    entries,    \* the listeners addEntry has recorded
    shut,       \* listeners whose http.Server was shut down
    gor,        \* each listener's Serve goroutine: none, ready, serving or done
    listenWG,
    stream,     \* a watch request is being served
    pc,         \* where each goroutine is
    snap,       \* the entries and the socket ownership a teardown has read
    result      \* what Serve returned

files == <<path, holder, own, ident>>
flags == <<closed, closeDone, draining>>
work  == <<serving, resolving, ln, entries, shut, gor, listenWG, stream>>
vars  == <<files, ctxDone, flags, work, pc, snap, result>>

Listeners == {"unix", "tcp"}
Threads == Callers \cup {"serve", "watch"}
Nothing == [entries |-> {}, mine |-> FALSE]

Init ==
    /\ path = 0 /\ holder = None
    /\ own = [s \in Servers |-> 0] /\ ident = [s \in Servers |-> 0]
    /\ ctxDone = [s \in Servers |-> FALSE]
    /\ closed = [s \in Servers |-> FALSE]
    /\ closeDone = [s \in Servers |-> FALSE]
    /\ draining = [s \in Servers |-> FALSE]
    /\ serving = [s \in Servers |-> "none"]
    /\ resolving = [s \in Servers |-> "none"]
    /\ ln = [s \in Servers |-> [l \in Listeners |-> "none"]]
    /\ entries = [s \in Servers |-> {}]
    /\ shut = [s \in Servers |-> {}]
    /\ gor = [s \in Servers |-> [l \in Listeners |-> "none"]]
    /\ listenWG = [s \in Servers |-> 0]
    /\ stream = [s \in Servers |-> FALSE]
    /\ pc = [s \in Servers |-> [t \in Threads |-> "idle"]]
    /\ snap = [s \in Servers |-> [t \in Threads |-> Nothing]]
    /\ result = [s \in Servers |-> "none"]

Goto(s, t, step) == pc' = [pc EXCEPT ![s][t] = step]

-----------------------------------------------------------------------------
\* Serve: start, bind each listener, then run them.

\* start, under resolveMu: refused after Close, otherwise both contexts and
\* the watch goroutines exist when it returns.
Start(s) ==
    /\ pc[s]["serve"] = "idle"
    /\ IF closed[s]
       THEN /\ Goto(s, "serve", "returned")
            /\ result' = [result EXCEPT ![s] = "errClosed"]
            /\ UNCHANGED <<serving, resolving>>
       ELSE /\ serving' = [serving EXCEPT ![s] = IF ctxDone[s] THEN "done" ELSE "live"]
            /\ resolving' = [resolving EXCEPT ![s] = IF ctxDone[s] THEN "done" ELSE "live"]
            /\ Goto(s, "serve", "unlink") /\ UNCHANGED result
    /\ UNCHANGED <<files, ctxDone, flags, ln, entries, shut, gor, listenWG, stream, snap>>

\* Every Serve that fails to bind returns at once, its listeners still open.
BindError(s) ==
    /\ Goto(s, "serve", "returned")
    /\ result' = [result EXCEPT ![s] = IF closed[s] THEN "bindAfterClose" ELSE "bindError"]

PathQuiet(s) ==
    \A r \in Servers \ {s} :
        /\ pc[r]["serve"] \notin {"listen", "identify"}
        /\ \A t \in Threads : pc[r][t] # "remove"

\* bindUnix removes whatever is at the path,
BindUnlink(s) ==
    /\ pc[s]["serve"] = "unlink" /\ (PathRace \/ PathQuiet(s))
    /\ path' = 0 /\ holder' = s /\ Goto(s, "serve", "listen")
    /\ UNCHANGED <<own, ident, ctxDone, flags, work, snap, result>>

\* An inode stays allocated while it has a name or its listener is open.
LiveInodes == {path} \cup {own[s] : s \in {r \in Servers : ln[r]["unix"] = "open"}}

\* binds it, as a file with any free inode number,
BindListen(s) ==
    /\ pc[s]["serve"] = "listen"
    /\ \/ /\ path = 0
          /\ \E i \in Inodes \ LiveInodes :
                path' = i /\ own' = [own EXCEPT ![s] = i]
          /\ ln' = [ln EXCEPT ![s]["unix"] = "open"]
          /\ Goto(s, "serve", "identify") /\ UNCHANGED result
       \/ (path # 0 \/ BindFails) /\ BindError(s) /\ UNCHANGED <<path, own, ln>>
    /\ UNCHANGED <<holder, ident, ctxDone, flags, serving, resolving, entries, shut, gor,
                   listenWG, stream, snap>>

\* and records the file it finds there as its own.
BindIdentify(s) ==
    /\ pc[s]["serve"] = "identify"
    /\ ident' = [ident EXCEPT ![s] = path]
    /\ entries' = [entries EXCEPT ![s] = @ \cup {"unix"}]
    /\ Goto(s, "serve", IF s \in WithTCP THEN "tcp" ELSE "begin")
    /\ UNCHANGED <<path, holder, own, ctxDone, flags, serving, resolving, ln, shut, gor,
                   listenWG, stream, snap, result>>

BindTCP(s) ==
    /\ pc[s]["serve"] = "tcp"
    /\ \/ /\ ln' = [ln EXCEPT ![s]["tcp"] = "open"]
          /\ entries' = [entries EXCEPT ![s] = @ \cup {"tcp"}]
          /\ Goto(s, "serve", "begin") /\ UNCHANGED result
       \/ BindFails /\ BindError(s) /\ UNCHANGED <<ln, entries>>
    /\ UNCHANGED <<files, ctxDone, flags, serving, resolving, shut, gor, listenWG, stream, snap>>

Count(s) == Cardinality(entries[s])

\* The check is dropped, or was made before the binds.
ListensAnyway(s) == TRUE

\* beginListening: the closed check and the Add are one critical section.
MayListen(s) == ~closed[s]

BeginListening(s) ==
    /\ pc[s]["serve"] = "begin"
    /\ IF MayListen(s)
       THEN /\ listenWG' = [listenWG EXCEPT ![s] = @ + Count(s)]
            /\ gor' = [gor EXCEPT ![s] = [l \in Listeners |->
                                          IF l \in entries[s] THEN "ready" ELSE "none"]]
            /\ pc' = [pc EXCEPT ![s]["serve"] = "run", ![s]["watch"] = "armed"]
       ELSE Goto(s, "serve", "cancel") /\ UNCHANGED <<listenWG, gor>>
    /\ UNCHANGED <<files, ctxDone, flags, serving, resolving, ln, entries, shut, stream,
                   snap, result>>

\* http.Server.Serve: refuses after Shutdown, returns when its listener closes.
ListenerGoroutine(s, l) ==
    /\ \/ /\ gor[s][l] = "ready" /\ l \notin shut[s]
          /\ gor' = [gor EXCEPT ![s][l] = "serving"] /\ UNCHANGED <<ln, listenWG>>
       \/ /\ \/ gor[s][l] = "ready" /\ l \in shut[s]
             \/ gor[s][l] = "serving" /\ ln[s][l] = "closed"
          /\ gor' = [gor EXCEPT ![s][l] = "done"]
          /\ ln' = [ln EXCEPT ![s][l] = "closed"]
          /\ listenWG' = [listenWG EXCEPT ![s] = @ - 1]
    /\ UNCHANGED <<files, ctxDone, flags, serving, resolving, entries, shut, stream, pc,
                   snap, result>>

ServeReturns(s) ==
    /\ pc[s]["serve"] = "run" /\ \A l \in entries[s] : gor[s][l] = "done"
    /\ Goto(s, "serve", "returned")
    /\ result' = [result EXCEPT ![s] = "nil"]
    /\ UNCHANGED <<files, ctxDone, flags, work, snap>>

-----------------------------------------------------------------------------
\* Close, by a caller or by the goroutine that watches Serve's context.

CloseEnter(s, t) ==
    /\ \/ t \in Callers /\ s \in Stopped /\ pc[s][t] = "idle"
       \/ t = "watch" /\ pc[s][t] = "armed" /\ ctxDone[s]
    /\ closed' = [closed EXCEPT ![s] = TRUE]
    /\ Goto(s, t, IF closed[s] THEN "wait" ELSE "drain")
    /\ UNCHANGED <<files, ctxDone, closeDone, draining, work, snap, result>>

\* A flag with nothing to wait for.
FinishedAtOnce(s) == TRUE

\* A later Close waits for the teardown of the first.
Finished(s) == closeDone[s]

CloseWait(s, t) ==
    /\ pc[s][t] = "wait" /\ Finished(s)
    /\ Goto(s, t, "returned")
    /\ UNCHANGED <<files, ctxDone, flags, work, snap, result>>

\* readyz answers draining from here on; DrainGrace then passes.
Announce(s) == draining' = [draining EXCEPT ![s] = TRUE]

Drain(s, t) ==
    /\ pc[s][t] = "drain"
    /\ Announce(s) /\ Goto(s, t, "cancel")
    /\ UNCHANGED <<files, ctxDone, closed, closeDone, work, snap, result>>

WatchStops(s) ==
    /\ pc[s]["watch"] = "armed" /\ pc[s]["serve"] = "returned"
    /\ Goto(s, "watch", "returned")
    /\ UNCHANGED <<files, ctxDone, flags, work, snap, result>>

-----------------------------------------------------------------------------
\* teardown, by the first Close or by a Serve that finds itself closed.

\* The unlink comes last, when the listener no longer keeps its inode.
UnlinkLast ==
    <<"cancel", "shutdown", "quiesce", "close", "stat", "remove", "join", "resolvers",
      "settle", "torn">>

\* closeTransports, from stat to join, unlinks while its listeners are open.
TeardownOrder ==
    <<"cancel", "stat", "remove", "shutdown", "quiesce", "close", "join", "resolvers",
      "settle", "torn">>

After(step) ==
    LET i == CHOOSE j \in 1 .. 9 : TeardownOrder[j] = step IN TeardownOrder[i + 1]

\* Handlers are left to notice the shutdown by themselves.
CancelNothing(s) == UNCHANGED serving

CancelServing(s) == serving' = [serving EXCEPT ![s] = IF @ = "none" THEN @ ELSE "done"]

\* servingCancel, and the snapshot of the entries: with none, no transports.
TdCancel(s, t) ==
    /\ pc[s][t] = "cancel" /\ CancelServing(s)
    /\ snap' = [snap EXCEPT ![s][t] = [entries |-> entries[s], mine |-> FALSE]]
    /\ Goto(s, t, IF entries[s] = {} THEN "resolvers" ELSE After("cancel"))
    /\ UNCHANGED <<files, ctxDone, flags, resolving, ln, entries, shut, gor, listenWG,
                   stream, result>>

\* removeOwnedSocket reads the file's identity and then unlinks by name.
TdStat(s, t) ==
    /\ pc[s][t] = "stat"
    /\ snap' = [snap EXCEPT ![s][t].mine =
                   "unix" \in snap[s][t].entries /\ ident[s] # 0 /\ path = ident[s]]
    /\ Goto(s, t, After("stat"))
    /\ UNCHANGED <<files, ctxDone, flags, work, result>>

TdRemove(s, t) ==
    /\ pc[s][t] = "remove"
    /\ path' = IF snap[s][t].mine THEN 0 ELSE path
    /\ Goto(s, t, After("remove"))
    /\ UNCHANGED <<holder, own, ident, ctxDone, flags, work, snap, result>>

\* http.Server.Shutdown closes the listeners it accepts on, then waits for the
\* handlers; the grace that bounds the wait is left out.
TdShutdown(s, t) ==
    /\ pc[s][t] = "shutdown"
    /\ shut' = [shut EXCEPT ![s] = @ \cup snap[s][t].entries]
    /\ ln' = [ln EXCEPT ![s] = [l \in Listeners |->
                 IF l \in snap[s][t].entries /\ gor[s][l] = "serving" THEN "closed" ELSE @[l]]]
    /\ Goto(s, t, After("shutdown"))
    /\ UNCHANGED <<files, ctxDone, flags, serving, resolving, entries, gor, listenWG, stream,
                   snap, result>>

TdQuiesce(s, t) ==
    /\ pc[s][t] = "quiesce" /\ ~stream[s]
    /\ Goto(s, t, After("quiesce"))
    /\ UNCHANGED <<files, ctxDone, flags, work, snap, result>>

TdClose(s, t) ==
    /\ pc[s][t] = "close"
    /\ ln' = [ln EXCEPT ![s] = [l \in Listeners |->
                 IF l \in snap[s][t].entries THEN "closed" ELSE @[l]]]
    /\ Goto(s, t, After("close"))
    /\ UNCHANGED <<files, ctxDone, flags, serving, resolving, entries, shut, gor, listenWG,
                   stream, snap, result>>

TdJoin(s, t) ==
    /\ pc[s][t] = "join" /\ listenWG[s] = 0
    /\ Goto(s, t, After("join"))
    /\ UNCHANGED <<files, ctxDone, flags, work, snap, result>>

TdResolvers(s, t) ==
    /\ pc[s][t] = "resolvers"
    /\ resolving' = [resolving EXCEPT ![s] = IF @ = "live" THEN "done" ELSE @]
    /\ Goto(s, t, After("resolvers"))
    /\ UNCHANGED <<files, ctxDone, flags, serving, ln, entries, shut, gor, listenWG, stream,
                   snap, result>>

TdSettle(s, t) ==
    /\ pc[s][t] = "settle" /\ resolving[s] \in {"none", "gone"}
    /\ Goto(s, t, After("settle"))
    /\ UNCHANGED <<files, ctxDone, flags, work, snap, result>>

\* Close closes closeDone and returns; Serve returns errClosed.
TdReturn(s, t) ==
    /\ pc[s][t] = "torn" /\ Goto(s, t, "returned")
    /\ IF t = "serve"
       THEN result' = [result EXCEPT ![s] = "errClosed"] /\ UNCHANGED closeDone
       ELSE closeDone' = [closeDone EXCEPT ![s] = TRUE] /\ UNCHANGED result
    /\ UNCHANGED <<files, ctxDone, closed, draining, work, snap>>

Teardown(s, t) ==
    \/ TdCancel(s, t) \/ TdStat(s, t) \/ TdRemove(s, t) \/ TdShutdown(s, t)
    \/ TdQuiesce(s, t) \/ TdClose(s, t) \/ TdJoin(s, t) \/ TdResolvers(s, t)
    \/ TdSettle(s, t) \/ TdReturn(s, t)

-----------------------------------------------------------------------------
\* The world around a server.

\* The caller cancels Serve's context, the parent of both of start's.
CtxCancel(s) ==
    /\ s \in Stopped /\ ~ctxDone[s] /\ ctxDone' = [ctxDone EXCEPT ![s] = TRUE]
    /\ CancelServing(s)
    /\ resolving' = [resolving EXCEPT ![s] = IF @ = "live" THEN "done" ELSE @]
    /\ UNCHANGED <<files, flags, ln, entries, shut, gor, listenWG, stream, pc, snap, result>>

\* The watch goroutines of the bindings see their context done.
ResolversExit(s) ==
    /\ resolving[s] = "done" /\ resolving' = [resolving EXCEPT ![s] = "gone"]
    /\ UNCHANGED <<files, ctxDone, flags, serving, ln, entries, shut, gor, listenWG, stream,
                   pc, snap, result>>

\* A client opens a watch; handleWatch returns when servingCtx is done, and a
\* client may leave before.
Connect(s) ==
    /\ s \in Stopped /\ \E l \in Listeners : gor[s][l] = "serving" /\ ln[s][l] = "open"
    /\ ~stream[s] /\ stream' = [stream EXCEPT ![s] = TRUE]
    /\ UNCHANGED <<files, ctxDone, flags, serving, resolving, ln, entries, shut, gor,
                   listenWG, pc, snap, result>>

HandlerReturns(s) ==
    /\ stream[s] /\ serving[s] = "done" /\ stream' = [stream EXCEPT ![s] = FALSE]
    /\ UNCHANGED <<files, ctxDone, flags, serving, resolving, ln, entries, shut, gor,
                   listenWG, pc, snap, result>>

ServeStep(s) ==
    \/ Start(s) \/ BindUnlink(s) \/ BindListen(s) \/ BindIdentify(s) \/ BindTCP(s)
    \/ BeginListening(s) \/ ServeReturns(s)

CloseStep(s, t) == CloseWait(s, t) \/ Drain(s, t)

Next ==
    \/ \E s \in Servers :
          \/ ServeStep(s) \/ WatchStops(s) \/ CtxCancel(s) \/ ResolversExit(s)
          \/ Connect(s) \/ HandlerReturns(s)
          \/ \E l \in Listeners : ListenerGoroutine(s, l)
          \/ \E t \in Threads : CloseEnter(s, t) \/ CloseStep(s, t) \/ Teardown(s, t)

Spec == Init /\ [][Next]_vars

\* The Go scheduler runs every goroutine that can run.  Nobody has to call
\* Serve or Close, cancel a context or open or drop a connection.
FairSpec ==
    /\ Spec
    /\ \A s \in Servers :
          /\ WF_vars(pc[s]["serve"] # "idle" /\ ServeStep(s))
          /\ WF_vars(ResolversExit(s)) /\ WF_vars(HandlerReturns(s))
          /\ \A l \in Listeners : WF_vars(ListenerGoroutine(s, l))
          /\ \A t \in Threads : WF_vars(CloseStep(s, t)) /\ WF_vars(Teardown(s, t))

-----------------------------------------------------------------------------

\* Nothing of the server is left: no listener, goroutine, handler or watch.
Quiet(s) ==
    /\ \A l \in Listeners : ln[s][l] # "open" /\ gor[s][l] \in {"none", "done"}
    /\ ~stream[s] /\ resolving[s] \in {"none", "gone"}

\* Any Close that returned, and not only the one that did the teardown, leaves
\* nothing of the server behind once Serve is out of its setup, unless Serve
\* failed to bind a listener after the Close; and whoever closes a listener that
\* served requests, readyz was answering draining before (server/resolve.go Close).
CloseMeansClosed ==
    \A s \in Servers :
        /\ /\ \E t \in Callers : pc[s][t] = "returned"
           /\ pc[s]["serve"] \in {"idle", "run", "returned"}
           /\ result[s] # "bindAfterClose"
           => Quiet(s)
        /\ \A l \in Listeners : gor[s][l] # "none" /\ ln[s][l] = "closed" => draining[s]

\* A server that took the path over and is open finds its own socket there: the
\* teardown of its predecessor does not unlink it, even when the kernel gives
\* the new socket an old inode number.  (Not so when the predecessor's Serve
\* tears down a second time, after a Close during its setup.)
SocketKept ==
    \A s \in Servers :
        /\ holder = s /\ ln[s]["unix"] = "open" /\ ~closed[s]
        /\ \A r \in Servers \ {s} : result[r] # "errClosed"
                                    /\ \A i \in 1 .. 10 : pc[r]["serve"] # TeardownOrder[i]
        => path = own[s]

\* No listener goroutine is counted while a teardown waits for the count: an
\* Add concurrent with a Wait is a data race on the WaitGroup.
NoAddDuringWait ==
    [][\A s \in Servers : listenWG'[s] > listenWG[s] =>
            \A t \in Threads : pc[s][t] # "join"]_vars

\* Every Close returns, without the shutdown grace: handlers are told to stop
\* before they are waited for.  And a Serve that was called returns once the
\* server is closed, whenever the Close came.
CloseReturns ==
    \A s \in Servers :
        /\ \A t \in Callers : pc[s][t] # "idle" ~> pc[s][t] = "returned"
        /\ closed[s] /\ pc[s]["serve"] # "idle" ~> pc[s]["serve"] = "returned"
=============================================================================
