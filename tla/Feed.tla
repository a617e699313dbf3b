-------------------------------- MODULE Feed --------------------------------
(***************************************************************************)
(* One binding on its way through a replicated config server: each replica *)
(* polls the upstream and keeps the last known-good value                  *)
(* (server/resolve.go), handleWatch streams its snapshot to a client       *)
(* (server/handler.go), and the client's watch loop rotates over the       *)
(* replicas and drops updates dated before one it already delivered        *)
(* (providers/mamori).                                                     *)
(***************************************************************************)
EXTENDS Integers, Sequences

CONSTANTS
    Endpoints,  \* the replicas, in the order the client is configured with
    Skew,       \* how far each replica's clock is ahead, at most
    MaxSkew,
    Tolerance,  \* resolvedAtSkewTolerance
    Floor, Cap, \* watchBackoffFloor, watchBackoffCap
    Flips,      \* the upstream may return to an earlier value
    MaxValue, MaxTime, MaxFaults, MaxWire

Replicas == {Endpoints[i] : i \in DOMAIN Endpoints}

ASSUME FeedAssumption ==
    /\ Tolerance \in Nat /\ MaxSkew \in Nat /\ Cap \in Nat /\ Floor \in 1 .. Cap
    /\ \A r \in Replicas : Skew[r] \in 0 .. MaxSkew
    /\ {MaxValue, MaxTime, MaxFaults, MaxWire} \subseteq Nat /\ Flips \in BOOLEAN

VARIABLES
    upstream,   \* the value the replicas resolve
    reachable,  \* the upstream answers
    now,
    alive,      \* the replicas that are up
    snapshot,   \* each replica's bindingSnapshot
    stream,     \* the replica that serves the client's watch, and what it last saw
    wire,       \* frames on the connection
    current, backoff, phase,   \* watchLoop
    watermark,  \* freshnessGuard.delivered, -1 when the binding has none
    got,        \* the last value the consumer received
    newest,     \* history: when the newest value delivered so far was read
    faults      \* crashes, outages and cut connections so far

upVars == <<upstream, reachable, now>>
repVars == <<alive, snapshot>>
loopVars == <<current, backoff, phase>>
guardVars == <<watermark, got, newest>>
vars == <<upVars, repVars, stream, wire, loopVars, guardVars, faults>>

Larger(a, b) == IF a >= b THEN a ELSE b

-----------------------------------------------------------------------------
\* A replica's snapshot.  value 0 is hasValue = false; read is when the value
\* was resolved, by the true clock, and resolvedAt by the replica's.
Pending == [value |-> 0, resolvedAt |-> -1, read |-> -1, kind |-> "pending"]

Resolved(r) ==
    [value |-> upstream, resolvedAt |-> now + Skew[r], read |-> now, kind |-> ""]

\* A failed update is stored as it came, without the value before it.
FailedAlone(s) == [Pending EXCEPT !.kind = "unavailable"]

\* A failed update does not count as the upstream's answer.
FailedUnsettled(s) == [s EXCEPT !.kind = "pending"]

\* A failure replaces the error and carries the last known-good value on.
Failed(s) == [s EXCEPT !.kind = "unavailable"]

\* pollWatch reports an error, and a value only when it changed.
Poll(r) ==
    /\ r \in alive
    /\ \/ reachable /\ snapshot[r].value # upstream
          /\ snapshot' = [snapshot EXCEPT ![r] = Resolved(r)]
       \/ ~reachable /\ snapshot' = [snapshot EXCEPT ![r] = Failed(@)]
    /\ UNCHANGED <<upVars, alive, stream, wire, loopVars, guardVars, faults>>

\* lookupFresh and sendWatchSnapshot: an error frame only for a binding that
\* never resolved.
Frame(s) ==
    IF s.value = 0 THEN [event |-> "error", value |-> 0, resolvedAt |-> -1, read |-> -1]
    ELSE [event |-> "update", value |-> s.value, resolvedAt |-> s.resolvedAt, read |-> s.read]

Seen(s) == [value |-> s.value, kind |-> s.kind]

\* Only the kind is compared.
KindChanged(seen, s) == seen.kind # s.kind

SnapshotChanged(seen, s) == seen.kind # s.kind \/ seen.value # s.value

NoStream == [replica |-> 0, seen |-> Seen(Pending)]

\* A tick of handleWatch's poll.
StreamPoll ==
    /\ phase = "stream" /\ stream.replica \in alive /\ Len(wire) < MaxWire
    /\ LET s == snapshot[stream.replica] IN
          /\ SnapshotChanged(stream.seen, s)
          /\ stream' = [stream EXCEPT !.seen = Seen(s)]
          /\ wire' = Append(wire, Frame(s))
    /\ UNCHANGED <<upVars, repVars, loopVars, guardVars, faults>>

-----------------------------------------------------------------------------
\* The client's watch loop.

\* nextWatchBackoff
NextBackoff(b) == IF b * 2 > Cap THEN Cap ELSE b * 2

\* The end of an iteration: on to the next endpoint, with a sleep when the
\* rotation wraps.
Rotate(established) ==
    /\ current' = (current % Len(Endpoints)) + 1
    /\ backoff' = IF established THEN Floor ELSE backoff
    /\ phase' = IF current = Len(Endpoints) THEN "sleep" ELSE "dial"
    /\ stream' = NoStream /\ wire' = <<>>

\* A guard per connection.
GuardForgets == watermark' = -1

\* watchLoop creates the guard once, so a reconnect finds the old watermark.
GuardKept == UNCHANGED watermark

\* watchOnce against a replica that is up: handleWatch sends its snapshot.
Connect ==
    /\ phase = "dial" /\ Endpoints[current] \in alive
    /\ LET r == Endpoints[current] IN
          /\ stream' = [replica |-> r, seen |-> Seen(snapshot[r])]
          /\ wire' = <<Frame(snapshot[r])>>
    /\ phase' = "stream" /\ GuardKept
    /\ UNCHANGED <<upVars, repVars, current, backoff, got, newest, faults>>

\* Against one that is down: an error for the consumer, and the loop moves on.
ConnectFails ==
    /\ phase = "dial" /\ Endpoints[current] \notin alive
    /\ Rotate(FALSE)
    /\ UNCHANGED <<upVars, repVars, guardVars, faults>>

\* time.After fires.
Wake ==
    /\ phase = "sleep" /\ phase' = "dial" /\ backoff' = NextBackoff(backoff)
    /\ UNCHANGED <<upVars, repVars, stream, wire, current, guardVars, faults>>

\* freshnessGuard.allows and record.
Allows(f) == watermark = -1 \/ f.resolvedAt >= watermark - Tolerance

Record(f) == watermark' = Larger(watermark, f.resolvedAt)

\* dispatchSSEFrame.
Dispatch ==
    /\ phase = "stream" /\ wire # <<>> /\ wire' = Tail(wire)
    /\ LET f == Head(wire) IN
          \/ /\ f.event = "update" /\ Allows(f) /\ Record(f)
             /\ got' = [value |-> f.value, read |-> f.read]
             /\ newest' = Larger(newest, f.read)
          \/ f.event = "update" /\ ~Allows(f) /\ UNCHANGED guardVars
          \/ f.event = "error" /\ UNCHANGED guardVars   \* forwarded as it is
    /\ UNCHANGED <<upVars, repVars, stream, loopVars, faults>>

\* The replica is gone, or the connection is cut; unread frames are lost.
Disconnect ==
    /\ phase = "stream" /\ Rotate(TRUE)
    /\ \/ stream.replica \notin alive /\ UNCHANGED faults
       \/ faults < MaxFaults /\ faults' = faults + 1
    /\ UNCHANGED <<upVars, repVars, guardVars>>

-----------------------------------------------------------------------------
\* The upstream and the replicas' hosts.
Move ==
    /\ \E v \in 1 .. MaxValue :
          /\ v = upstream + 1 \/ (Flips /\ v # upstream)
          /\ upstream' = v
    /\ UNCHANGED <<reachable, now, repVars, stream, wire, loopVars, guardVars, faults>>

Outage ==
    /\ \/ reachable /\ faults < MaxFaults /\ faults' = faults + 1
       \/ ~reachable /\ UNCHANGED faults
    /\ reachable' = ~reachable
    /\ UNCHANGED <<upstream, now, repVars, stream, wire, loopVars, guardVars>>

Tick ==
    /\ now < MaxTime /\ now' = now + 1
    /\ UNCHANGED <<upstream, reachable, repVars, stream, wire, loopVars, guardVars, faults>>

Crash(r) ==
    /\ r \in alive /\ faults < MaxFaults /\ faults' = faults + 1
    /\ alive' = alive \ {r} /\ snapshot' = [snapshot EXCEPT ![r] = Pending]
    /\ UNCHANGED <<upVars, stream, wire, loopVars, guardVars>>

\* start: the binding is pending until its first update.
Restart(r) ==
    /\ r \notin alive /\ alive' = alive \cup {r} /\ stream.replica # r
    /\ UNCHANGED <<upVars, snapshot, stream, wire, loopVars, guardVars, faults>>

Init ==
    /\ upstream = 1 /\ reachable = TRUE /\ now = 0
    /\ alive = Replicas /\ snapshot = [r \in Replicas |-> Pending]
    /\ stream = NoStream /\ wire = <<>>
    /\ current = 1 /\ backoff = Floor /\ phase = "dial"
    /\ watermark = -1 /\ newest = -1 /\ faults = 0
    /\ got = [value |-> 0, read |-> -1]

Next ==
    \/ \E r \in Replicas : Poll(r) \/ Crash(r) \/ Restart(r)
    \/ StreamPoll \/ Connect \/ ConnectFails \/ Wake \/ Dispatch \/ Disconnect
    \/ Move \/ Outage \/ Tick

Spec == Init /\ [][Next]_vars

\* Every goroutine runs, and a broken connection is noticed.  Nothing makes a
\* crashed replica come back, a value change or a connection last.
FairSpec ==
    /\ Spec
    /\ \A r \in Replicas : WF_vars(Poll(r))
    /\ WF_vars(StreamPoll) /\ WF_vars(Connect) /\ WF_vars(ConnectFails) /\ WF_vars(Wake)
    /\ WF_vars(Dispatch) /\ WF_vars(stream.replica \notin alive /\ Disconnect)

-----------------------------------------------------------------------------

\* What the consumer holds was read from the upstream at most the tolerance and
\* the clocks' skew before the newest value it was ever given, across
\* reconnects, crashes and replicas that lag (providers/mamori freshnessGuard).
NoTimeTravel == got.value # 0 => got.read >= newest - (Tolerance + MaxSkew)

\* A replica whose stream has shown a value goes on having one: an outage of the
\* upstream never turns a served binding into an error (resolverState.apply).
KeepsServing ==
    stream.replica \in alive /\ stream.seen.value # 0 => snapshot[stream.replica].value # 0

\* When the upstream settles and some replica stays up, the consumer ends up with
\* the upstream's value, whatever crashed, lagged or was cut before.
Converges ==
    \A v \in 1 .. MaxValue :
        <>[](upstream = v /\ reachable /\ alive # {}) => <>[](got.value = v)
=============================================================================
