------------------------------ MODULE Reconciler ------------------------------
(***************************************************************************)
(* The engine behind Watch[T]: the single reconciler goroutine that turns  *)
(* watch updates, debounce-timer ticks and control commands into applied   *)
(* configuration snapshots (reconciler.go).                                *)
(*                                                                         *)
(* One action is one iteration of engine.loop's select.  The reconciler    *)
(* goroutine owns every variable below except the dispatch queue, so an    *)
(* iteration is atomic for everything but lock-free readers, whose view of *)
(* the intermediate stores is the subject of Watcher.                      *)
(*                                                                         *)
(* A configuration is a function from fields to values: the decoded T is   *)
(* determined by the bytes observed for each field.  Decoding, the derive  *)
(* hooks and the validator are pure, so together they are the set          *)
(* Acceptable of configurations that pass; PreApply may ask a live backend *)
(* and is a nondeterministic verdict.                                      *)
(***************************************************************************)
EXTENDS Integers, Sequences

CONSTANTS
    NumFields,       \* specs[0 .. n-1], in struct declaration order
    ChainLen,        \* len(spec.Refs), by field
    OnFail,          \* the field's `onfail` policy
    HasDefault,      \* fields with a `default:` tag
    Optional,        \* fields with an `optional` tag
    Default,         \* the value of the `default:` tag, by field
    Vals,            \* values a provider may return (bytes and version)
    Faults,          \* how the backends may fail: "absent", "failed"
    Version,         \* Value.Version, by value, defaults included
    NoValue,         \* no value was ever observed; the field keeps its zero
    NoVersion,       \* the empty version string
    DefaultVersion,  \* defaultValueVersion, the version of a default
    Acceptable,      \* configurations that decode, derive and validate
    DerivedOf(_),    \* what the derive hooks write, as a function of the rest
    HistoryN,        \* WithHistory(n)
    QueueDepth,      \* WithQueueDepth(n), at least 1
    BootstrapOn,     \* WithBootstrapCache is configured
    Writes,          \* outcomes of a snapshot write: TRUE (replaced), FALSE (failed)
    NoConfig,        \* no bootstrap snapshot file
    MaxVersion       \* bound: snapshots applied in one behaviour

Fields == 1 .. NumFields
Derived == 0         \* the path of the declared derive write
Tolerated == HasDefault \cup Optional
Positions(f) == 1 .. ChainLen[f]
Answers == Vals \cup Faults                   \* what one resolve can return
AllVals == Vals \cup {Default[f] : f \in Fields}
Configs == [Fields -> AllVals \cup {NoValue}]
Versions == {Version[v] : v \in AllVals} \cup {NoVersion}

ASSUME ReconcilerAssumption ==
    /\ NumFields \in Nat /\ HistoryN \in Nat
    /\ QueueDepth \in Nat \ {0} /\ MaxVersion \in Nat
    /\ ChainLen \in [Fields -> Nat \ {0}]
    /\ OnFail \in [Fields -> {"keeplast", "fail", "default"}]
    /\ HasDefault \subseteq Fields /\ Optional \subseteq Fields
    /\ \A f \in Fields : OnFail[f] = "default" => f \in HasDefault
    /\ DOMAIN Default = Fields /\ DOMAIN Version = AllVals
    /\ Faults \subseteq {"absent", "failed"}
    /\ NoValue \notin AllVals
    /\ {"absent", "failed", "unseen"} \cap AllVals = {}
    /\ BootstrapOn \in BOOLEAN /\ Writes \subseteq BOOLEAN
    /\ Acceptable \subseteq Configs
    /\ NoConfig \notin Configs

VARIABLES
    sources,      \* sources[f][p]: last outcome of chain position p
    observed,     \* latest value seen per field
    applied,      \* version per field at the last successful apply
    erring,       \* fields with an entry in lastErr
    blocked,      \* onfail:"fail" fields now rejecting every flush
    pending,      \* the debounce batch
    timer,        \* the debounce timer is armed
    updatesOpen,  \* loop's updates channel is not yet nil
    running,      \* the reconciler goroutine has not returned
    lastGood,     \* newest accepted configuration
    version,      \* its snapshot version
    history,      \* retained snapshots, newest last
    pin,          \* pinned, pinnedVersion, pinnedConfig, pinnedApplied
    cfg,          \* what Get returns
    queue,        \* the dispatch channel
    unconfirmed,  \* restored fields whose backend has not answered yet
    disk,         \* the bootstrap snapshot file
    refused       \* auxiliary: the last flush refused exactly what is observed

engineVars == <<sources, observed, applied, erring, blocked>>
batchVars  == <<pending, timer, updatesOpen, running>>
snapVars   == <<lastGood, version, history, pin, cfg, queue>>
bootVars   == <<unconfirmed, disk>>
vars == <<engineVars, batchVars, snapVars, bootVars, refused>>

-----------------------------------------------------------------------------
(* Values *)

VersionOf(v) == IF v = NoValue THEN NoVersion ELSE Version[v]

\* Value.changed: by version when either side has one, by bytes otherwise.
Changed(v, o) ==
    IF VersionOf(v) # NoVersion \/ VersionOf(o) # NoVersion
    THEN VersionOf(v) # VersionOf(o)
    ELSE v # o

\* Fields whose observed value has not been applied, as the diff sees them.
Unapplied(obs, app) ==
    {f \in Fields : obs[f] # NoValue /\ app[f] # VersionOf(obs[f])}

-----------------------------------------------------------------------------
(* Precedence chains *)

\* The outcome of the first position that is neither unseen nor absent.
RecomputeWinner(src) ==
    LET stops == {p \in DOMAIN src : src[p] \notin {"unseen", "absent"}}
    IN  IF stops = {} THEN "absent"
        ELSE src[CHOOSE p \in stops : \A q \in stops : p <= q]

\* One synchronous walk: it stops at the first value or hard error, and the
\* positions it does not reach stay unseen.
SeedChainSources(answer) ==
    [p \in DOMAIN answer |->
        IF \A q \in DOMAIN answer : q < p => answer[q] = "absent"
        THEN answer[p] ELSE "unseen"]

\* recordSourceUpdate: a position holds what its source last said, a value that does
\* not decode being a failure.
RecordSourceUpdate(src, p, r) == [src EXCEPT ![p] = r]

\* A refresh merges what its walk saw into what the watches reported.
MergeSources(old, fresh) ==
    [p \in DOMAIN old |-> IF fresh[p] = "unseen" THEN old[p] ELSE fresh[p]]

-----------------------------------------------------------------------------
(* Classification of a field's winning outcome w *)

\* The value a winning outcome yields, if it yields one.
Yield(f, w) == CASE w \in Vals -> w
                 [] w = "failed" /\ OnFail[f] = "default" -> Default[f]
                 [] OTHER -> NoValue

\* markChanged / observe: an unchanged value is not stored.
Observe(obs, f, w) ==
    LET v == Yield(f, w)
    IN  IF v # NoValue /\ (obs[f] = NoValue \/ Changed(obs[f], v))
        THEN v ELSE obs[f]

\* The outcome leaves an error in lastErr.
Errs(f, w) == \/ w = "absent" /\ f \notin Tolerated
              \/ w = "failed" /\ OnFail[f] # "default"

Blocks(f, w) == w = "failed" /\ OnFail[f] = "fail"

\* The backend answered, so the field no longer rests on a restored value.
Confirms(f, w) == ~Errs(f, w)

-----------------------------------------------------------------------------
(* The bootstrap snapshot *)

\* Variant: the configuration being superseded is written.
PersistSuperseded(file, obs, ok) == IF BootstrapOn /\ ok THEN lastGood ELSE file

\* writeSnapshotFile replaces the file or, on failure, leaves it alone.
PersistBootstrap(file, obs, ok) == IF BootstrapOn /\ ok THEN obs ELSE file

\* markBootstrapReconciled for a set of fields: the snapshot is rewritten when
\* the last restored field is confirmed.
LastConfirmed(fs) == unconfirmed # {} /\ unconfirmed \subseteq fs

-----------------------------------------------------------------------------
(* Flushing a batch *)

\* A derived path has no version to compare: the values themselves are.
DerivedFieldChanges(oldCfg, newCfg) ==
    IF DerivedOf(oldCfg) # DerivedOf(newCfg) THEN {Derived} ELSE {}

\* The candidate's diff against what was last applied, derived path included.
CandidateFields(obs) == Unapplied(obs, applied) \cup DerivedFieldChanges(lastGood, obs)

\* buildCandidate advances applied to every observed version.
Advance(obs) ==
    [f \in Fields |-> IF obs[f] = NoValue THEN applied[f] ELSE VersionOf(obs[f])]

\* Variant: the diff is left advanced past a refused value.
RollbackNothing(adv, fields) == adv

\* A refusal by PreApply puts back the old version of every field of the diff.
Rollback(adv, fields) ==
    [f \in Fields |-> IF f \in fields THEN applied[f] ELSE adv[f]]

\* Variant: one snapshot too many is retained.
RecordOneMore(h, snap) ==
    LET all == Append(h, snap)
        max == HistoryN + 2
    IN  IF Len(all) > max THEN SubSeq(all, Len(all) - max + 1, Len(all)) ELSE all

\* recordSnapshot: keep HistoryN prior snapshots and the current one.
RecordSnapshot(h, snap) ==
    LET all == Append(h, snap)
        max == HistoryN + 1
    IN  IF Len(all) > max THEN SubSeq(all, Len(all) - max + 1, Len(all)) ELSE all

\* Variant: a full queue drops the newest change.
EnqueueDropNewest(q, ev) == IF Len(q) < QueueDepth THEN Append(q, ev) ELSE q

\* enqueue: bounded, dropping the oldest.
Enqueue(q, ev) ==
    IF Len(q) < QueueDepth THEN Append(q, ev) ELSE Append(Tail(q), ev)

\* buildCandidate: every observed value decodes, every derive hook succeeds and
\* the validator accepts the result.
Builds(obs) == obs \in Acceptable

\* flush's last step: Get and OnChange stay as they are while pinned.
Publish(obs, fields) ==
    IF pin.on THEN UNCHANGED <<cfg, queue>>
    ELSE /\ cfg' = obs
         /\ queue' = Enqueue(queue, [old |-> lastGood, new |-> obs, fields |-> fields])

\* A flush that changes nothing observable.
NothingApplied == UNCHANGED <<lastGood, version, history, pin, cfg, queue>>

\* flush over the observed values obs with the blocked set blk; file is the
\* bootstrap file as the calling handler left it before flushing.
Flush(obs, blk, file) ==
    LET fields == CandidateFields(obs)
        snap   == [version |-> version + 1, config |-> obs,
                   fields |-> fields, applied |-> Advance(obs)]
    IN  \/ /\ blk # {}                          \* blockedErr
           /\ NothingApplied /\ disk' = file
           /\ refused' = (refused /\ obs = observed)
           /\ UNCHANGED applied
        \/ /\ blk = {} /\ ~Builds(obs)            \* decode, derive or validate
           /\ NothingApplied /\ disk' = file
           /\ refused' = TRUE
           /\ UNCHANGED applied
        \/ /\ blk = {} /\ Builds(obs) /\ fields = {}
           /\ NothingApplied /\ disk' = file
           /\ refused' = FALSE
           /\ UNCHANGED applied
        \/ /\ blk = {} /\ Builds(obs) /\ fields # {}
           /\ NothingApplied /\ disk' = file    \* refused by PreApply
           /\ applied' = Rollback(Advance(obs), fields)
           /\ refused' = TRUE
        \/ /\ blk = {} /\ Builds(obs) /\ fields # {}
           /\ version < MaxVersion
           /\ applied' = Advance(obs)
           /\ version' = version + 1
           /\ lastGood' = obs
           /\ history' = RecordSnapshot(history, snap)
           /\ \E ok \in Writes : disk' = PersistBootstrap(file, obs, ok)
           /\ Publish(obs, fields)
           /\ refused' = FALSE
           /\ UNCHANGED pin

-----------------------------------------------------------------------------
(* The branches of loop's select *)

\* unblock: only a real block -> unblock transition re-arms a flush, for every
\* field whose observed version is not applied.
Rearm(f, w) ==
    IF f \in blocked /\ w # "failed" THEN Unapplied(observed, applied) ELSE {}

\* Variant: joining a batch does not arm the timer.
ArmNever(added) == timer

\* addPending then arm: a field joining the batch arms the timer.
Arm(added) == timer \/ added # {}

\* One watch source reports answer r for position p of field f.
Update(f, p, r) ==
    LET src     == RecordSourceUpdate(sources[f], p, r)
        w       == RecomputeWinner(src)
        obs     == Observe(observed, f, w)
        marked  == IF obs # observed[f] THEN {f} ELSE {}
        joining == Rearm(f, w) \cup marked
        confirm == Confirms(f, w)
    IN  /\ running /\ updatesOpen
        /\ sources' = [sources EXCEPT ![f] = src]
        /\ observed' = [observed EXCEPT ![f] = obs]
        /\ erring' = IF Errs(f, w) THEN erring \cup {f} ELSE erring \ {f}
        /\ blocked' = IF Blocks(f, w) THEN blocked \cup {f} ELSE blocked \ {f}
        /\ pending' = pending \cup joining
        /\ timer' = Arm(joining)
        /\ unconfirmed' = IF confirm THEN unconfirmed \ {f} ELSE unconfirmed
        /\ IF confirm /\ LastConfirmed({f})
           THEN \E ok \in Writes : disk' = PersistBootstrap(disk, observed, ok)
           ELSE UNCHANGED disk
        /\ refused' = (refused /\ marked = {})
        /\ UNCHANGED <<applied, updatesOpen, running, snapVars>>

\* Every forwarder exited: loop stops at once, or after the pending batch.
UpdatesClosed ==
    /\ running /\ updatesOpen
    /\ updatesOpen' = FALSE
    /\ running' = (pending # {})
    /\ UNCHANGED <<engineVars, pending, timer, snapVars, bootVars, refused>>

TimerFires ==
    /\ running /\ timer
    /\ Flush(observed, blocked, disk)
    /\ pending' = {}
    /\ timer' = FALSE
    /\ running' = updatesOpen
    /\ UNCHANGED <<sources, observed, erring, blocked, updatesOpen, unconfirmed>>

\* Close, or the caller's context ending.
ContextDone ==
    /\ running
    /\ running' = FALSE
    /\ timer' = FALSE
    /\ UNCHANGED <<engineVars, pending, updatesOpen, snapVars, bootVars, refused>>

-----------------------------------------------------------------------------
(* Control commands *)

\* The snapshot Get serves: the pinned one if any, else the live one.
Served ==
    IF pin.on THEN pin
    ELSE [on |-> TRUE, version |-> version, config |-> lastGood, applied |-> applied]

PinCurrent ==
    /\ running
    /\ pin' = Served
    /\ cfg' = Served.config
    /\ UNCHANGED <<engineVars, batchVars, lastGood, version, history, queue,
                   bootVars, refused>>

\* Variant: the diff's baseline is the live map.
BaselineLive(snap) == applied

\* The baseline of Unpin's diff is the version map as of the pinned snapshot.
Baseline(snap) == snap.applied

\* Pin(v) of a retained snapshot; any other v is ErrNoSuchSnapshot, a no-op.
PinAt(i) ==
    /\ running /\ i \in DOMAIN history
    /\ pin' = [on |-> TRUE, version |-> history[i].version,
               config |-> history[i].config, applied |-> Baseline(history[i])]
    /\ cfg' = history[i].config
    /\ UNCHANGED <<engineVars, batchVars, lastGood, version, history, queue,
                   bootVars, refused>>

\* diffApplied: everything that changed between two applied-version maps.
DiffApplied(before, after, oldCfg, newCfg) ==
    {f \in Fields : before[f] # after[f]}
        \cup DerivedFieldChanges(oldCfg, newCfg)

Unpinned == [on |-> FALSE, version |-> 0, config |-> NoConfig, applied |-> NoConfig]

Unpin ==
    LET fields == DiffApplied(pin.applied, applied, pin.config, lastGood)
    IN  /\ running /\ pin.on
        /\ pin' = Unpinned
        /\ cfg' = lastGood
        /\ queue' = IF fields = {} THEN queue
                    ELSE Enqueue(queue, [old |-> pin.config, new |-> lastGood,
                                         fields |-> fields])
        /\ UNCHANGED <<engineVars, batchVars, lastGood, version, history,
                       bootVars, refused>>

\* refreshNow: re-resolve every field, classify each winner as an update would,
\* and flush at once; walk[f] is what one walk of f's chain sees.  The loop's own
\* batch and timer are left alone.
Refresh(walk) ==
    LET src  == [f \in Fields |-> MergeSources(sources[f], walk[f])]
        w    == [f \in Fields |-> RecomputeWinner(src[f])]
        obs  == [f \in Fields |-> Observe(observed, f, w[f])]
        blk  == {f \in Fields : Blocks(f, w[f])}
        \* only the tolerated-absence branch confirms a restored field here
        cnf  == {f \in Tolerated : w[f] = "absent"}
        \* what is observed when the last restored field is confirmed
        mid  == [f \in Fields |-> IF \E g \in unconfirmed : f < g
                                  THEN obs[f] ELSE observed[f]]
    IN  /\ running
        /\ sources' = src
        /\ observed' = obs
        /\ erring' = {f \in Fields : Errs(f, w[f])}
        /\ blocked' = blk
        /\ unconfirmed' = unconfirmed \ cnf
        /\ IF LastConfirmed(cnf)
           THEN \E ok \in Writes :
                    Flush(obs, blk, PersistBootstrap(disk, mid, ok))
           ELSE Flush(obs, blk, disk)
        /\ UNCHANGED batchVars

-----------------------------------------------------------------------------
(* The dispatch goroutine *)

\* It delivers queued changes in order, and drains the queue after the
\* reconciler has returned and closed it.
Deliver ==
    /\ queue # <<>>
    /\ queue' = Tail(queue)
    /\ UNCHANGED <<engineVars, batchVars, lastGood, version, history, pin, cfg,
                   bootVars, refused>>

-----------------------------------------------------------------------------
(* Watch: the initial load, then start's seeding of the chains *)

\* What one walk of every field's chain can return.
Walks == {w \in [Fields -> UNION {[1 .. n -> Answers \cup {"unseen"}] :
                                    n \in {ChainLen[f] : f \in Fields}}] :
            \A f \in Fields :
                w[f] \in {SeedChainSources(a) : a \in [Positions(f) -> Answers]}}

\* What a load that succeeded can leave in each field.
Loaded(c) ==
    \A f \in Fields : c[f] \in Vals \cup
        IF f \in HasDefault THEN {Default[f]}
        ELSE IF f \in Optional THEN {NoValue} ELSE {}

\* The engine Watch starts from c, restored from the bootstrap snapshot or not, when
\* start's own walk of the chains sees walk.
Booted(c, walk, restored) ==
    /\ Loaded(c)
    /\ sources = [f \in Fields |->
                    IF ChainLen[f] > 1 THEN walk[f]
                    ELSE [p \in Positions(f) |-> "unseen"]]
    /\ observed = c /\ lastGood = c /\ cfg = c
    /\ applied = [f \in Fields |-> VersionOf(c[f])]
    /\ erring = {} /\ blocked = {}
    /\ pending = {} /\ timer = FALSE /\ updatesOpen = TRUE /\ running = TRUE
    /\ version = 1
    /\ history = <<[version |-> 1, config |-> c, fields |-> {}, applied |-> applied]>>
    /\ pin = Unpinned
    /\ queue = <<>>
    /\ unconfirmed = IF restored
                     THEN {f \in Fields : c[f] # NoValue
                                           /\ VersionOf(c[f]) # DefaultVersion}
                     ELSE {}
    /\ refused = FALSE

\* A load that resolved persists its configuration if it can; one that restored
\* found it on disk.
Init ==
    \E c \in Acceptable, walk \in Walks, restored \in {FALSE, BootstrapOn} :
        /\ Booted(c, walk, restored)
        /\ IF restored THEN disk = c
           ELSE \E ok \in Writes : disk = PersistBootstrap(NoConfig, c, ok)

Next ==
    \/ \E f \in Fields : \E p \in Positions(f), r \in Answers : Update(f, p, r)
    \/ UpdatesClosed
    \/ TimerFires
    \/ ContextDone
    \/ PinCurrent
    \/ \E i \in DOMAIN history : PinAt(i)
    \/ Unpin
    \/ \E walk \in Walks : Refresh(walk)
    \/ Deliver

\* The reconciler goroutine alone, under a caller that never pins: a delivery only
\* takes from the queue, which no step of this goroutine waits for.
NextUnpinned ==
    \/ \E f \in Fields : \E p \in Positions(f), r \in Answers : Update(f, p, r)
    \/ UpdatesClosed
    \/ TimerFires
    \/ ContextDone
    \/ \E walk \in Walks : Refresh(walk)

Spec == Init /\ [][Next]_vars

-----------------------------------------------------------------------------
(* Properties *)

Snapshots == [version : Nat, config : Configs, fields : SUBSET (Fields \cup {Derived}),
              applied : [Fields -> Versions]]
Changes == [old : Configs, new : Configs, fields : SUBSET (Fields \cup {Derived})]
Pins == [on : {TRUE}, version : Nat, config : Configs, applied : [Fields -> Versions]]
            \cup {Unpinned}

\* Type invariant of the engine's state.
TypeOK ==
    /\ DOMAIN sources = Fields
    /\ \A f \in Fields : sources[f] \in [Positions(f) -> Answers \cup {"unseen"}]
    /\ observed \in Configs
    /\ applied \in [Fields -> Versions]
    /\ erring \in SUBSET Fields /\ blocked \in SUBSET Fields
    /\ pending \in SUBSET Fields /\ timer \in BOOLEAN
    /\ updatesOpen \in BOOLEAN /\ running \in BOOLEAN
    /\ lastGood \in Configs /\ version \in Nat /\ cfg \in Configs
    /\ history \in Seq(Snapshots)
    /\ pin \in Pins
    /\ queue \in Seq(Changes)
    /\ unconfirmed \in SUBSET Fields
    /\ disk \in Configs \cup {NoConfig} /\ refused \in BOOLEAN

\* Watcher.Get: "always returns the last valid configuration (never a partially-
\* updated or validation-failing one)", through flushes, pins of any retained
\* snapshot, unpins and refreshes alike.
GetServesAccepted == cfg \in Acceptable

\* applied is the version map of the newest accepted configuration: a refused
\* candidate is rolled back completely (flush), so it is diffed and retried.
AppliedDescribesLastGood == \A f \in Fields : applied[f] = VersionOf(lastGood[f])

\* Paths whose value differs between two configurations.
Differing(a, b) ==
    {f \in Fields : a[f] # b[f]}
        \cup (IF DerivedOf(a) # DerivedOf(b) THEN {Derived} ELSE {})

\* Change.Fields names exactly the paths whose value differs between Old and New,
\* for a flush's change and for the one change Unpin coalesces.
ChangeFieldsExact ==
    \A i \in DOMAIN queue : queue[i].fields = Differing(queue[i].old, queue[i].new)

\* Retained snapshots are consecutive, end with the live one, are within the
\* WithHistory bound, and each names exactly what it changed.
HistoryIsTheAppliedPast ==
    /\ Len(history) \in 1 .. HistoryN + 1
    /\ history[Len(history)].version = version
    /\ history[Len(history)].config = lastGood
    /\ \A i \in 1 .. Len(history) - 1 :
          /\ history[i + 1].version = history[i].version + 1
          /\ history[i + 1].fields = Differing(history[i].config, history[i + 1].config)

\* Status agrees with Get: the snapshot version the report names (the pinned one
\* while pinned, the live one otherwise) is the configuration Get serves.
ServedVersion == IF pin.on THEN pin.version ELSE version
ReportNamesServed ==
    /\ ~pin.on => cfg = lastGood
    /\ \A i \in DOMAIN history :
          history[i].version = ServedVersion => history[i].config = cfg

\* A watched change is never stranded: while nothing is blocked, an observed value
\* that is not applied has a timer to flush it, unless a flush has just refused
\* exactly the candidate now observed (loop's unblock, refreshNow).
NoStrandedChange ==
    running /\ blocked = {} /\ Unapplied(observed, applied) # {}
        => timer \/ refused

\* Quiescence is convergence: with nothing blocked, no flush due and nothing refused,
\* the configuration applied is the one observed (loop, flush, refreshNow).
SettledIsApplied ==
    running /\ blocked = {} /\ ~timer /\ ~refused => lastGood = observed

\* A batch always has a timer to flush it, and a timer always has a batch.
BatchHasTimer == running => (timer <=> pending # {})

\* blockedErr: blocked and lastErr move together, and only a field whose chain
\* currently stops at a hard error blocks the others.
BlockedIsJustified ==
    \A f \in blocked : /\ f \in erring
                        /\ OnFail[f] = "fail"
                        /\ RecomputeWinner(sources[f]) = "failed"

\* A pin freezes Get: unless a control command moves the pin, no flush, refresh or
\* update changes what Get returns while pinned.
PinFreezesGet == [][pin.on /\ pin' = pin => cfg' = cfg]_vars

\* OnChange hears of every move of Get that is not a pin: the newest queued change
\* leads from what Get returned before to what it returns now (flush, Unpin).
EveryMoveAnnounced ==
    [][cfg' # cfg /\ ~pin'.on
        => /\ queue' # <<>>
           /\ queue'[Len(queue')].old = cfg
           /\ queue'[Len(queue')].new = cfg']_vars
=============================================================================
