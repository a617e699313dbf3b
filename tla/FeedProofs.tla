----------------------------- MODULE FeedProofs -----------------------------
(***************************************************************************)
(* A client of a replicated config server never travels back in time, and  *)
(* a replica that serves a binding goes on serving it, for any number of   *)
(* replicas, any rotation order, any skews within the bound and any        *)
(* tolerance.                                                              *)
(***************************************************************************)
EXTENDS Feed, TLAPS

Snapshots == [value : Nat, resolvedAt : Int, read : Int,
              kind : {"", "pending", "unavailable"}]
Frames == [event : {"update", "error"}, value : Nat, resolvedAt : Int, read : Int]

\* A date is the time of the read, seen through a clock that is ahead.
Dated(x) == x.read >= 0 /\ x.read <= x.resolvedAt /\ x.resolvedAt <= x.read + MaxSkew

Streams == [replica : Replicas \cup {0},
            seen : [value : Nat, kind : {"", "pending", "unavailable"}]]

Typed ==
    /\ upstream \in Nat \ {0} /\ now \in Nat /\ alive \subseteq Replicas
    /\ stream \in Streams
    /\ snapshot \in [Replicas -> Snapshots]
    /\ wire \in Seq(Frames)
    /\ watermark \in Int /\ newest \in Int
    /\ got \in [value : Nat, read : Int]

\* Why the guard works: every value on its way carries its own date, and the
\* watermark is at least as late as the newest read that was delivered.
IInv ==
    /\ Typed
    /\ \A r \in Replicas : snapshot[r].value # 0 => Dated(snapshot[r])
    /\ \A i \in DOMAIN wire : wire[i].event = "update" => Dated(wire[i])
    /\ newest <= watermark /\ (watermark = -1 \/ watermark >= 0)
    /\ NoTimeTravel
    /\ KeepsServing

\* The frame of a snapshot is dated as the snapshot is.
LEMMA FrameDated ==
    ASSUME NEW s \in Snapshots, s.value # 0 => Dated(s)
    PROVE  Frame(s) \in Frames /\ (Frame(s).event = "update" => Dated(Frame(s)))
<1>1. CASE s.value = 0
  BY <1>1 DEF Frame, Frames
<1>2. CASE s.value # 0
  <2>1. Frame(s) = [event |-> "update", value |-> s.value, resolvedAt |-> s.resolvedAt,
                    read |-> s.read]
    BY <1>2 DEF Frame
  <2>2. s.value \in Nat /\ s.resolvedAt \in Int /\ s.read \in Int
    BY Zenon DEF Snapshots
  <2> QED
    BY <1>2, <2>1, <2>2 DEF Frames, Dated
<1> QED
  BY <1>1, <1>2

\* The initial state satisfies the invariant.
LEMMA InitInv == Init => IInv
<1> SUFFICES ASSUME Init PROVE IInv
  OBVIOUS
<1>1. Pending \in Snapshots
  BY DEF Pending, Snapshots
<1>2. snapshot \in [Replicas -> Snapshots]
  BY <1>1 DEF Init
<1>a. NoStream \in Streams /\ NoStream.seen.value = 0
  BY DEF NoStream, Streams, Seen, Pending
<1>3. Typed
  BY <1>2, <1>a DEF Init, Typed
<1>4. \A r \in Replicas : snapshot[r].value = 0
  BY DEF Init, Pending
<1>5. NoTimeTravel /\ newest <= watermark /\ watermark = -1
  BY DEF Init, NoTimeTravel
<1>6. KeepsServing
  BY <1>a DEF Init, KeepsServing
<1>7. DOMAIN wire = {}
  BY DEF Init
<1> QED
  BY <1>3, <1>4, <1>5, <1>6, <1>7 DEF IInv

\* A replica's poll dates what it reads and loses no value.
LEMMA PollInv == ASSUME IInv, NEW r \in Replicas, Poll(r) PROVE IInv'
<1>1. Skew[r] \in 0 .. MaxSkew /\ MaxSkew \in Nat
  BY FeedAssumption
<1>2. UNCHANGED <<upVars, alive, stream, wire, loopVars, guardVars, faults>>
  BY DEF Poll
<1>3. CASE reachable /\ snapshot' = [snapshot EXCEPT ![r] = Resolved(r)]
  <2>0. upstream \in Nat \ {0} /\ now \in Nat /\ Skew[r] \in Nat
    BY <1>1 DEF IInv, Typed
  <2>a. Resolved(r) \in Snapshots
    BY <2>0 DEF Resolved, Snapshots
  <2>1. Resolved(r) \in Snapshots /\ Dated(Resolved(r)) /\ Resolved(r).value # 0
    <3>1. Resolved(r).read = now /\ Resolved(r).resolvedAt = now + Skew[r]
          /\ Resolved(r).value = upstream
      BY DEF Resolved
    <3>2. Skew[r] <= MaxSkew
      BY <1>1
    <3>3. Dated(Resolved(r))
      BY <1>1, <2>0, <3>1, <3>2 DEF Dated
    <3> QED
      BY <2>0, <2>a, <3>1, <3>3
  <2>2. snapshot' \in [Replicas -> Snapshots]
    BY <1>3, <2>1 DEF IInv, Typed
  <2>3. Typed'
    BY <1>2, <2>2 DEF IInv, Typed, upVars, guardVars
  <2>4. \A q \in Replicas : snapshot'[q].value # 0 => Dated(snapshot'[q])
    BY <1>3, <2>1 DEF IInv, Typed
  <2>5. NoTimeTravel' /\ newest' <= watermark' /\ (watermark' = -1 \/ watermark' >= 0)
    BY <1>2 DEF IInv, NoTimeTravel, guardVars
  <2>6. KeepsServing'
    BY <1>2, <1>3, <2>1 DEF IInv, Typed, KeepsServing
  <2>7. \A i \in DOMAIN wire' : wire'[i].event = "update" => Dated(wire'[i])
    BY <1>2 DEF IInv
  <2> QED
    BY <2>3, <2>4, <2>5, <2>6, <2>7 DEF IInv, Dated
<1>4. CASE snapshot' = [snapshot EXCEPT ![r] = Failed(@)]
  <2>1. Failed(snapshot[r]) \in Snapshots /\ Failed(snapshot[r]).value = snapshot[r].value
        /\ (Dated(snapshot[r]) => Dated(Failed(snapshot[r])))
    BY Zenon DEF IInv, Typed, Failed, Snapshots, Dated
  <2>2. snapshot' \in [Replicas -> Snapshots]
    BY <1>4, <2>1 DEF IInv, Typed
  <2>3. Typed'
    BY <1>2, <2>2 DEF IInv, Typed, upVars, guardVars
  <2>4. \A q \in Replicas : snapshot'[q].value # 0 => Dated(snapshot'[q])
    BY <1>4, <2>1 DEF IInv, Typed
  <2>5. NoTimeTravel' /\ newest' <= watermark' /\ (watermark' = -1 \/ watermark' >= 0)
    BY <1>2 DEF IInv, NoTimeTravel, guardVars
  <2>6. KeepsServing'
    BY <1>2, <1>4, <2>1 DEF IInv, Typed, KeepsServing
  <2>7. \A i \in DOMAIN wire' : wire'[i].event = "update" => Dated(wire'[i])
    BY <1>2 DEF IInv
  <2> QED
    BY <2>3, <2>4, <2>5, <2>6, <2>7 DEF IInv, Dated
<1> QED
  BY <1>3, <1>4 DEF Poll

\* The parts of the invariant a step outside the client's loop leaves alone.
LEMMA GuardUnchanged ==
    ASSUME IInv, UNCHANGED guardVars
    PROVE  /\ watermark' \in Int /\ newest' \in Int /\ got' \in [value : Nat, read : Int]
           /\ NoTimeTravel' /\ newest' <= watermark' /\ (watermark' = -1 \/ watermark' >= 0)
BY DEF IInv, Typed, NoTimeTravel, guardVars

\* A frame that is appended to the wire is dated, and so are the ones before it.
LEMMA AppendDated ==
    ASSUME IInv, NEW f \in Frames, f.event = "update" => Dated(f), NEW w, w = Append(wire, f)
    PROVE  w \in Seq(Frames) /\ \A i \in DOMAIN w : w[i].event = "update" => Dated(w[i])
<1>1. wire \in Seq(Frames)
  BY DEF IInv, Typed
<1>2. w \in Seq(Frames) /\ DOMAIN w = 1 .. Len(wire) + 1 /\ Len(wire) \in Nat
      /\ w[Len(wire) + 1] = f /\ \A i \in 1 .. Len(wire) : w[i] = wire[i]
  BY <1>1
<1>3. DOMAIN wire = 1 .. Len(wire)
  BY <1>1
<1> QED
  BY <1>2, <1>3 DEF IInv

\* A poll of the stream sends a dated frame.
LEMMA StreamPollInv == ASSUME IInv, StreamPoll PROVE IInv'
<1> DEFINE s == snapshot[stream.replica]
<1>1. stream.replica \in alive
      /\ stream' = [stream EXCEPT !.seen = Seen(s)] /\ wire' = Append(wire, Frame(s))
      /\ UNCHANGED <<upVars, repVars, loopVars, guardVars, faults>>
  BY DEF StreamPoll
<1>2. s \in Snapshots /\ (s.value # 0 => Dated(s))
  BY <1>1 DEF IInv, Typed
<1>3. Frame(s) \in Frames /\ (Frame(s).event = "update" => Dated(Frame(s)))
  BY <1>2, FrameDated
<1>4. wire' \in Seq(Frames) /\ \A i \in DOMAIN wire' : wire'[i].event = "update" => Dated(wire'[i])
  BY Zenon, <1>1, <1>3, AppendDated
<1>5. Seen(s) \in [value : Nat, kind : {"", "pending", "unavailable"}] /\ Seen(s).value = s.value
  BY Zenon, <1>2 DEF Seen, Snapshots
<1>6. stream' \in Streams /\ stream'.replica = stream.replica /\ stream'.seen = Seen(s)
  BY Zenon, <1>1, <1>5 DEF IInv, Typed, Streams
<1>7. Typed'
  BY Zenon, <1>1, <1>4, <1>6, GuardUnchanged DEF IInv, Typed, upVars, repVars
<1>8. KeepsServing'
  BY Zenon, <1>1, <1>5, <1>6 DEF KeepsServing, repVars
<1>9. \A r \in Replicas : snapshot'[r].value # 0 => Dated(snapshot'[r])
  BY <1>1 DEF IInv, repVars
<1> QED
  BY <1>1, <1>4, <1>7, <1>8, <1>9, GuardUnchanged DEF IInv, Dated

\* A new connection starts with the replica's snapshot and the old watermark.
LEMMA ConnectInv == ASSUME IInv, Connect PROVE IInv'
<1> DEFINE r == Endpoints[current]
           s == snapshot[r]
<1>1. r \in alive /\ stream' = [replica |-> r, seen |-> Seen(s)] /\ wire' = <<Frame(s)>>
      /\ UNCHANGED <<upVars, repVars>> /\ UNCHANGED guardVars
  BY DEF Connect, GuardKept, guardVars
<1>2. s \in Snapshots /\ (s.value # 0 => Dated(s))
  BY <1>1 DEF IInv, Typed
<1>3. Frame(s) \in Frames /\ (Frame(s).event = "update" => Dated(Frame(s)))
  BY <1>2, FrameDated
<1>4. wire' \in Seq(Frames) /\ DOMAIN wire' = {1} /\ wire'[1] = Frame(s)
  BY <1>1, <1>3
<1>5. Seen(s) \in [value : Nat, kind : {"", "pending", "unavailable"}] /\ Seen(s).value = s.value
  BY Zenon, <1>2 DEF Seen, Snapshots
<1>6. stream' \in Streams /\ stream'.replica = r /\ stream'.seen = Seen(s)
  BY Zenon, <1>1, <1>5 DEF IInv, Typed, Streams
<1>7. Typed'
  BY <1>1, <1>4, <1>6, GuardUnchanged DEF IInv, Typed, upVars, repVars
<1>8. KeepsServing'
  BY Zenon, <1>1, <1>5, <1>6 DEF KeepsServing, repVars
<1>9. \A q \in Replicas : snapshot'[q].value # 0 => Dated(snapshot'[q])
  BY <1>1 DEF IInv, repVars
<1>10. \A i \in DOMAIN wire' : wire'[i].event = "update" => Dated(wire'[i])
  BY <1>3, <1>4
<1> QED
  BY <1>1, <1>7, <1>8, <1>9, <1>10, GuardUnchanged DEF IInv, Dated

\* A lost connection leaves nothing on the wire.
LEMMA RotateInv ==
    ASSUME IInv, NEW e, Rotate(e), UNCHANGED <<upVars, repVars, guardVars>> PROVE IInv'
<1>1. stream' = NoStream /\ wire' = <<>>
  BY DEF Rotate
<1>2. NoStream \in Streams /\ NoStream.seen.value = 0
  BY DEF NoStream, Streams, Seen, Pending
<1>3. wire' \in Seq(Frames) /\ DOMAIN wire' = {}
  BY <1>1
<1>4. Typed'
  BY <1>1, <1>2, <1>3, GuardUnchanged DEF IInv, Typed, upVars, repVars
<1>5. KeepsServing'
  BY <1>1, <1>2 DEF KeepsServing
<1>6. \A r \in Replicas : snapshot'[r].value # 0 => Dated(snapshot'[r])
  BY DEF IInv, repVars
<1> QED
  BY <1>3, <1>4, <1>5, <1>6, GuardUnchanged DEF IInv, Dated

\* What is delivered is within the guard's reach of the newest delivery.
LEMMA DispatchInv == ASSUME IInv, Dispatch PROVE IInv'
<1> DEFINE f == Head(wire)
<1>1. wire # <<>> /\ wire' = Tail(wire) /\ UNCHANGED <<upVars, repVars, stream>>
  BY DEF Dispatch
<1>2. wire \in Seq(Frames)
  BY DEF IInv, Typed
<1>3. f \in Frames /\ f = wire[1] /\ 1 \in DOMAIN wire
  BY <1>1, <1>2
<1>4. wire' \in Seq(Frames) /\ \A i \in DOMAIN wire' : i + 1 \in DOMAIN wire /\ wire'[i] = wire[i + 1]
  BY <1>1, <1>2
<1>5. \A i \in DOMAIN wire' : wire'[i].event = "update" => Dated(wire'[i])
  BY <1>4 DEF IInv
<1>6. \A r \in Replicas : snapshot'[r].value # 0 => Dated(snapshot'[r])
  BY <1>1 DEF IInv, repVars
<1>7. KeepsServing'
  BY <1>1 DEF IInv, KeepsServing, repVars
<1>8. CASE UNCHANGED guardVars
  <2>1. Typed'
    BY Zenon, <1>1, <1>4, <1>8, GuardUnchanged DEF IInv, Typed, upVars, repVars
  <2> QED
    BY <1>5, <1>6, <1>7, <1>8, <2>1, GuardUnchanged DEF IInv, Dated
<1>9. CASE /\ f.event = "update" /\ Allows(f) /\ Record(f)
           /\ got' = [value |-> f.value, read |-> f.read]
           /\ newest' = Larger(newest, f.read)
  <2>1. Dated(f)
    BY <1>3, <1>9 DEF IInv
  <2>2. f.read \in Int /\ f.resolvedAt \in Int /\ f.value \in Nat
    BY <1>3 DEF Frames
  <2>3. f.read >= 0 /\ f.read <= f.resolvedAt /\ f.resolvedAt <= f.read + MaxSkew
    BY <2>1 DEF Dated
  <2>4. watermark \in Int /\ newest \in Int /\ newest <= watermark
        /\ (watermark = -1 \/ watermark >= 0) /\ MaxSkew \in Nat /\ Tolerance \in Nat
    BY FeedAssumption DEF IInv, Typed
  <2>5. watermark' = Larger(watermark, f.resolvedAt) /\ newest' = Larger(newest, f.read)
    BY <1>9 DEF Record
  <2>6. watermark' \in Int /\ newest' \in Int /\ newest' <= watermark' /\ watermark' >= 0
    BY <2>2, <2>3, <2>4, <2>5 DEF Larger
  <2>7. watermark = -1 \/ f.resolvedAt >= watermark - Tolerance
    BY <1>9 DEF Allows
  <2>8. f.read >= newest' - (Tolerance + MaxSkew)
    BY <2>2, <2>3, <2>4, <2>5, <2>7 DEF Larger
  <2>9. got' \in [value : Nat, read : Int] /\ got'.read = f.read
    BY <1>9, <2>2
  <2>10. Typed'
    BY <1>1, <1>4, <2>6, <2>9 DEF IInv, Typed, upVars, repVars
  <2>11. NoTimeTravel'
    BY <2>8, <2>9 DEF NoTimeTravel
  <2> QED
    BY <1>5, <1>6, <1>7, <2>6, <2>10, <2>11 DEF IInv, Dated
<1> QED
  BY <1>8, <1>9 DEF Dispatch

\* A crashed replica forgets its snapshot, and its stream with it.
LEMMA CrashInv == ASSUME IInv, NEW r \in Replicas, Crash(r) PROVE IInv'
<1>1. alive' = alive \ {r} /\ snapshot' = [snapshot EXCEPT ![r] = Pending]
      /\ UNCHANGED <<upVars, stream, wire, guardVars>>
  BY DEF Crash
<1>2. Pending \in Snapshots /\ Pending.value = 0
  BY DEF Pending, Snapshots
<1>3. snapshot' \in [Replicas -> Snapshots]
  BY <1>1, <1>2 DEF IInv, Typed
<1>4. Typed'
  BY <1>1, <1>3, GuardUnchanged DEF IInv, Typed, upVars
<1>5. \A q \in Replicas : snapshot'[q].value # 0 => Dated(snapshot'[q])
  BY <1>1, <1>2 DEF IInv, Typed
<1>6. KeepsServing'
  BY <1>1 DEF IInv, Typed, KeepsServing
<1>7. \A i \in DOMAIN wire' : wire'[i].event = "update" => Dated(wire'[i])
  BY <1>1 DEF IInv
<1> QED
  BY <1>1, <1>4, <1>5, <1>6, <1>7, GuardUnchanged DEF IInv, Dated

\* A restart, a sleep, a move of the upstream, an outage or the clock: nothing
\* that is dated or delivered changes.
LEMMA OtherInv ==
    ASSUME IInv, UNCHANGED <<snapshot, stream, wire, guardVars>>,
           upstream' \in Nat \ {0}, now' \in Nat, alive' \subseteq Replicas,
           stream.replica \in alive' => stream.replica \in alive
    PROVE  IInv'
<1>1. Typed'
  BY Zenon, GuardUnchanged DEF IInv, Typed
<1>2. KeepsServing'
  BY DEF IInv, KeepsServing
<1> QED
  BY <1>1, <1>2, GuardUnchanged DEF IInv, Dated

\* Every step preserves the invariant.
LEMMA StepInv == IInv /\ [Next]_vars => IInv'
<1> SUFFICES ASSUME IInv, [Next]_vars PROVE IInv'
  OBVIOUS
<1>1. ASSUME NEW r \in Replicas, Poll(r) PROVE IInv'
  BY <1>1, PollInv
<1>2. ASSUME NEW r \in Replicas, Crash(r) PROVE IInv'
  BY <1>2, CrashInv
<1>3. ASSUME NEW r \in Replicas, Restart(r) PROVE IInv'
  BY <1>3, OtherInv DEF Restart, IInv, Typed, upVars, guardVars
<1>4. CASE StreamPoll
  BY <1>4, StreamPollInv
<1>5. CASE Connect
  BY <1>5, ConnectInv
<1>6. CASE ConnectFails
  BY Zenon, <1>6, RotateInv DEF ConnectFails
<1>7. CASE Wake
  BY Zenon, <1>7, OtherInv DEF Wake, IInv, Typed, upVars, repVars, guardVars
<1>8. CASE Dispatch
  BY <1>8, DispatchInv
<1>9. CASE Disconnect
  BY Zenon, <1>9, RotateInv DEF Disconnect
<1>10. CASE Move
  <2>1. upstream' \in Nat \ {0}
    BY <1>10, FeedAssumption DEF Move
  <2> QED
    BY <1>10, <2>1, OtherInv DEF Move, IInv, Typed, repVars, guardVars
<1>11. CASE Outage
  BY <1>11, OtherInv DEF Outage, IInv, Typed, repVars, guardVars
<1>12. CASE Tick
  BY <1>12, OtherInv DEF Tick, IInv, Typed, repVars, guardVars
<1>13. CASE UNCHANGED vars
  BY Zenon, <1>13, OtherInv DEF vars, upVars, repVars, guardVars, IInv, Typed
<1> QED
  BY <1>1, <1>2, <1>3, <1>4, <1>5, <1>6, <1>7, <1>8, <1>9, <1>10, <1>11, <1>12, <1>13
     DEF Next

\* The invariant holds in every reachable state.
THEOREM FeedInvariant == Spec => []IInv
BY InitInv, StepInv, PTL DEF Spec

\* The freshness guard bounds how far a consumer can be taken back: by the
\* tolerance and the clocks' skew, whatever the replicas and connections do.
THEOREM GuardHolds == Spec => []NoTimeTravel
<1>1. IInv => NoTimeTravel
  BY DEF IInv
<1> QED
  BY <1>1, FeedInvariant, PTL

\* A replica that has shown a value on a stream keeps one to show, through any
\* failures of the upstream.
THEOREM LastKnownGood == Spec => []KeepsServing
<1>1. IInv => KeepsServing
  BY DEF IInv
<1> QED
  BY <1>1, FeedInvariant, PTL
=============================================================================
