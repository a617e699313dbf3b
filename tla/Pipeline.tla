------------------------------ MODULE Pipeline ------------------------------
(***************************************************************************)
(* A change's way from a backend to Get: every chain position has a watch  *)
(* source (poll.go, or the provider's own), a forwarder goroutine holding  *)
(* at most one update, and the reconciler (watchref.go, reconciler.go).    *)
(* Values sit in the source and in the forwarder while the backend moves   *)
(* on, and a refresh reads the backend past both.                          *)
(***************************************************************************)
EXTENDS Reconciler

CONSTANTS
    Native,    \* positions <<f, p>> whose provider watches natively
    Faulty,    \* positions whose backend may fail or lose its value
    NoUpdate,  \* nothing to hand over
    MaxMoves   \* bound: changes of the backends in one behaviour

ChainPositions == {<<f, p>> : f \in Fields, p \in UNION {Positions(g) : g \in Fields}}
Refs == {x \in ChainPositions : x[2] \in Positions(x[1])}

ASSUME PipelineAssumption ==
    /\ Native \subseteq Refs /\ Faulty \subseteq Refs /\ MaxMoves \in Nat
    /\ NoUpdate \notin Answers

VARIABLES
    backend,    \* what resolving each ref returns now
    last,       \* a poller's last value; NoValue for a native watch with news to read
    out,        \* the update a source is waiting to send
    forwarding, \* the update a forwarder is waiting to send
    moves,      \* how often the backends changed
    ahead       \* history: polled positions of which a refresh read what their poller has not

sourceVars == <<backend, last, out, forwarding, moves, ahead>>
pipelineVars == <<vars, sourceVars>>

-----------------------------------------------------------------------------
(* Backends: a change is an event for a native watch *)

Move(x, a) ==
    /\ moves < MaxMoves
    /\ a # backend[x] /\ (a \in Vals \/ x \in Faulty)
    /\ backend' = [backend EXCEPT ![x] = a]
    /\ moves' = moves + 1
    /\ last' = IF x \in Native THEN [last EXCEPT ![x] = NoValue] ELSE last
    /\ UNCHANGED <<vars, out, forwarding, ahead>>

\* One resolve of every position of every chain.
BackendWalk == [f \in Fields |->
                  SeedChainSources([p \in Positions(f) |-> backend[<<f, p>>]])]

-----------------------------------------------------------------------------
(* Watch sources *)

\* pollWatch remembers the last value, never an error or an absence.
PollRemembers(seen, a) == IF a \in Vals THEN a ELSE seen

\* pollWatch reports an error every time, a value when it changed, and nothing for
\* an absence.
PollReports(seen, a) ==
    \/ a = "failed"
    \/ a \in Vals /\ (seen = NoValue \/ Changed(seen, a))

Poll(x) ==
    LET a == backend[x]
        report == PollReports(last[x], a)
    IN  /\ running /\ x \notin Native /\ out[x] = NoUpdate
        /\ last' = [last EXCEPT ![x] = IF report THEN PollRemembers(@, a) ELSE @]
        /\ out' = [out EXCEPT ![x] = IF report THEN a ELSE NoUpdate]
        /\ ahead' = IF report THEN ahead \ {x} ELSE ahead
        /\ UNCHANGED <<vars, backend, forwarding, moves>>

\* watchFilePath reads the file again after an event, and reports whatever it finds.
NativeWatch(x) ==
    /\ running /\ x \in Native /\ out[x] = NoUpdate
    /\ last[x] = NoValue
    /\ last' = [last EXCEPT ![x] = backend[x]]
    /\ out' = [out EXCEPT ![x] = backend[x]]
    /\ UNCHANGED <<vars, backend, forwarding, moves, ahead>>

\* The source's channel is unbuffered: the forwarder takes when its hands are free.
Take(x) ==
    /\ running /\ out[x] # NoUpdate /\ forwarding[x] = NoUpdate
    /\ out' = [out EXCEPT ![x] = NoUpdate]
    /\ forwarding' = [forwarding EXCEPT ![x] = out[x]]
    /\ UNCHANGED <<vars, backend, last, moves, ahead>>

\* The updates channel is unbuffered: loop's select receives one update.
Receive(x) ==
    /\ forwarding[x] # NoUpdate
    /\ Update(x[1], x[2], forwarding[x])
    /\ forwarding' = [forwarding EXCEPT ![x] = NoUpdate]
    /\ UNCHANGED <<backend, last, out, moves, ahead>>

\* refreshNow resolves every ref itself; no poller learns what it read.
RefreshNow ==
    /\ Refresh(BackendWalk)
    /\ ahead' = {x \in Refs \ Native : backend[x] # last[x]}
    /\ UNCHANGED <<backend, last, out, forwarding, moves>>

-----------------------------------------------------------------------------

\* Watch just loaded what the backends hold; every source still has its baseline
\* to read.
PipelineInit ==
    /\ backend \in [Refs -> Answers]
    /\ \A x \in Refs : backend[x] \in Vals \/ x \in Faulty
    /\ last = [x \in Refs |-> NoValue]
    /\ out = [x \in Refs |-> NoUpdate]
    /\ forwarding = [x \in Refs |-> NoUpdate]
    /\ moves = 0 /\ ahead = {}
    /\ \A f \in Fields : RecomputeWinner(BackendWalk[f]) \in Vals
    /\ LET c == [f \in Fields |-> RecomputeWinner(BackendWalk[f])]
       IN  c \in Acceptable /\ Booted(c, BackendWalk, FALSE)
    /\ disk = NoConfig

PipelineNext ==
    \/ \E x \in Refs, a \in Answers : Move(x, a)
    \/ \E x \in Refs : Poll(x)
    \/ \E x \in Refs : NativeWatch(x)
    \/ \E x \in Refs : Take(x)
    \/ \E x \in Refs : Receive(x)
    \/ TimerFires /\ UNCHANGED sourceVars
    \/ RefreshNow
    \/ ContextDone /\ UNCHANGED sourceVars

\* Every goroutine keeps running: pollers' timers fire, and select does not starve
\* a ready branch.
PipelineFairness ==
    /\ \A x \in Refs : WF_pipelineVars(Poll(x)) /\ WF_pipelineVars(NativeWatch(x))
                        /\ WF_pipelineVars(Take(x)) /\ WF_pipelineVars(Receive(x))
    /\ WF_pipelineVars(TimerFires /\ UNCHANGED sourceVars)

PipelineSpec == PipelineInit /\ [][PipelineNext]_pipelineVars /\ PipelineFairness

-----------------------------------------------------------------------------
(* Properties *)

\* What the backends' current state makes a field's winner.
Winner(f) == RecomputeWinner(BackendWalk[f])

\* A refresh overtook the poller of some ref of f, which has reported nothing since.
Overtaken(f) == \E p \in Positions(f) : <<f, p>> \in ahead

\* Every field whose chain now yields a value has it applied.
Current == \A f \in Fields :
             Yield(f, Winner(f)) # NoValue => lastGood[f] = Yield(f, Winner(f)) \/ Overtaken(f)

\* A change made in a backend reaches the live configuration: once the backends stop
\* moving, the engine settles on what their chains yield, unless a field's failure
\* blocks every update or the candidate was refused (pollWatch, start, loop).  The one
\* change that may stay unseen: a refresh applied a value its poller never read, and
\* the backend then returned to the value the poller last reported.
Converges == <>[](~running \/ refused \/ Current
                    \/ \E f \in Fields : Blocks(f, Winner(f)))

\* loop: "a resolving field can never stay blocked".
ResolvingUnblocks ==
    \A f \in Fields :
        <>[](Winner(f) \in Vals) => <>[](~running \/ f \notin blocked)
=============================================================================
