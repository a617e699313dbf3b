--------------------------- MODULE ReconcilerProofs ---------------------------
(***************************************************************************)
(* Proofs about Reconciler, for every number of fields, chain length,      *)
(* policy, value set, validator, history bound and queue depth.            *)
(***************************************************************************)
EXTENDS Reconciler, SequenceTheorems, TLAPS

-----------------------------------------------------------------------------
(* Helpers on the two bounded sequences and on one field's outcome *)

\* enqueue keeps the dispatch queue a sequence over whatever the queued changes
\* and the new one have in common, whether or not it drops the oldest.
LEMMA EnqueueInSeq ==
    ASSUME NEW S, NEW q \in Seq(S), NEW ev \in S
    PROVE  Enqueue(q, ev) \in Seq(S)
<1>1. CASE Len(q) < QueueDepth
  BY <1>1, AppendProperties DEF Enqueue
<1>2. CASE ~(Len(q) < QueueDepth)
  <2>1. q # <<>>
    BY <1>2, EmptySeq, LenProperties, ReconcilerAssumption
  <2>2. Tail(q) \in Seq(S)
    BY <2>1, HeadTailProperties
  <2> QED
    BY <1>2, <2>2, AppendProperties DEF Enqueue
<1> QED
  BY <1>1, <1>2

\* recordSnapshot keeps the history a sequence over whatever the retained
\* snapshots and the new one have in common.
LEMMA RecordInSeq ==
    ASSUME NEW S, NEW h \in Seq(S), NEW snap \in S
    PROVE  RecordSnapshot(h, snap) \in Seq(S)
<1> DEFINE all == Append(h, snap)
           max == HistoryN + 1
<1>1. all \in Seq(S) /\ Len(all) \in Nat
  BY AppendProperties, LenProperties
<1>2. CASE Len(all) > max
  <2>1. \A i \in (Len(all) - max + 1) .. Len(all) : all[i] \in S
    BY <1>1, <1>2, ElementOfSeq, ReconcilerAssumption
  <2>2. SubSeq(all, Len(all) - max + 1, Len(all)) \in Seq(S)
    <3> HIDE DEF all
    <3> QED BY <1>1, <2>1, SubSeqProperties, ReconcilerAssumption
  <2> QED
    BY Zenon, <1>2, <2>2 DEF RecordSnapshot
<1>3. CASE ~(Len(all) > max)
  BY <1>1, <1>3 DEF RecordSnapshot
<1> QED
  BY <1>2, <1>3

\* A walk of one chain, and its merge into what the watches reported, are chain
\* outcomes again.
LEMMA MergeType ==
    ASSUME TypeOK, NEW walk \in Walks, NEW f \in Fields
    PROVE  MergeSources(sources[f], walk[f]) \in [Positions(f) -> Answers \cup {"unseen"}]
<1>1. PICK a \in [Positions(f) -> Answers] : walk[f] = SeedChainSources(a)
  BY DEF Walks
<1>2. walk[f] \in [Positions(f) -> Answers \cup {"unseen"}]
  BY <1>1 DEF SeedChainSources
<1> QED
  BY <1>2 DEF MergeSources, TypeOK

\* Folding an outcome into a field's observed value yields a configuration value.
LEMMA ObserveType ==
    ASSUME NEW obs \in Configs, NEW f \in Fields, NEW w
    PROVE  Observe(obs, f, w) \in AllVals \cup {NoValue}
<1>1. Yield(f, w) \in AllVals \cup {NoValue}
  BY DEF Yield, AllVals
<1> QED
  BY <1>1 DEF Observe, Configs

\* The version of a value is a version.
LEMMA VersionType ==
    ASSUME NEW v \in AllVals \cup {NoValue}
    PROVE  VersionOf(v) \in Versions
  BY DEF VersionOf, Versions

-----------------------------------------------------------------------------
(* Type correctness *)

\* What a flush writes is well typed.
LEMMA FlushType ==
    ASSUME TypeOK, NEW obs \in Configs, NEW blk,
           NEW file \in Configs \cup {NoConfig}, Flush(obs, blk, file)
    PROVE  /\ applied' \in [Fields -> Versions]
           /\ lastGood' \in Configs /\ version' \in Nat /\ cfg' \in Configs
           /\ history' \in Seq(Snapshots) /\ pin' \in Pins
           /\ queue' \in Seq(Changes)
           /\ disk' \in Configs \cup {NoConfig} /\ refused' \in BOOLEAN
<1> DEFINE fields == CandidateFields(obs)
           snap == [version |-> version + 1, config |-> obs,
                    fields |-> fields, applied |-> Advance(obs)]
<1>1. fields \in SUBSET (Fields \cup {Derived})
  BY DEF CandidateFields, DerivedFieldChanges, Unapplied
<1>2. Advance(obs) \in [Fields -> Versions]
  BY VersionType DEF Advance, TypeOK, Configs
<1>3. Rollback(Advance(obs), fields) \in [Fields -> Versions]
  BY <1>2 DEF Rollback, TypeOK
<1>4. snap \in Snapshots
  BY <1>1, <1>2 DEF Snapshots, TypeOK
<1>5. [old |-> lastGood, new |-> obs, fields |-> fields] \in Changes
  BY <1>1 DEF Changes, TypeOK
<1>6. RecordSnapshot(history, snap) \in Seq(Snapshots)
  BY <1>4, RecordInSeq DEF TypeOK
<1>7. Enqueue(queue, [old |-> lastGood, new |-> obs, fields |-> fields]) \in Seq(Changes)
  BY <1>5, EnqueueInSeq DEF TypeOK
<1> HIDE DEF fields, snap
<1>8. CASE NothingApplied /\ disk' = file
  <2>1. applied' \in [Fields -> Versions]
    BY Zenon, <1>8, <1>2, <1>3 DEF Flush, TypeOK, fields
  <2>2. refused' \in BOOLEAN
    BY Zenon, <1>8 DEF Flush, TypeOK
  <2> QED
    BY <1>8, <2>1, <2>2 DEF NothingApplied, TypeOK
<1>9. CASE ~(NothingApplied /\ disk' = file)
  <2>1. /\ applied' = Advance(obs) /\ version' = version + 1 /\ lastGood' = obs
        /\ history' = RecordSnapshot(history, snap)
        /\ \E ok \in Writes : disk' = PersistBootstrap(file, obs, ok)
        /\ Publish(obs, fields) /\ refused' = FALSE /\ UNCHANGED pin
    BY <1>9 DEF Flush, fields, snap
  <2>2. cfg' \in Configs /\ queue' \in Seq(Changes)
    BY <2>1, <1>7 DEF Publish, TypeOK
  <2>3. disk' \in Configs \cup {NoConfig}
    BY <2>1 DEF PersistBootstrap
  <2>4. refused' \in BOOLEAN
    BY <2>1, Zenon
  <2>5. version' = version + 1 /\ pin' = pin
    BY <2>1, Zenon
  <2>6. version' \in Nat /\ pin' \in Pins
    BY <2>5 DEF TypeOK
  <2> QED
    BY <2>1, <2>2, <2>3, <2>4, <2>6, <1>2, <1>6
<1> QED
  BY <1>8, <1>9

\* The initial load, with or without a restored snapshot, is well typed.
LEMMA InitType == Init => TypeOK
<1> SUFFICES ASSUME Init PROVE TypeOK
  OBVIOUS
<1>1. PICK c \in Acceptable, walk \in Walks, restored \in {FALSE, BootstrapOn} :
        /\ Booted(c, walk, restored)
        /\ IF restored THEN disk = c
           ELSE \E ok \in Writes : disk = PersistBootstrap(NoConfig, c, ok)
  BY Zenon DEF Init
<1>2. c \in Configs
  BY ReconcilerAssumption
<1>3. \A f \in Fields : walk[f] \in [Positions(f) -> Answers \cup {"unseen"}]
  BY DEF Walks, SeedChainSources
<1>4. /\ DOMAIN sources = Fields
      /\ \A f \in Fields : sources[f] \in [Positions(f) -> Answers \cup {"unseen"}]
  BY <1>1, <1>3 DEF Booted
<1>5. applied \in [Fields -> Versions]
  BY Zenon, <1>1, <1>2, VersionType DEF Configs, Booted
<1>6. history \in Seq(Snapshots)
  <2>1. [version |-> 1, config |-> c, fields |-> {}, applied |-> applied] \in Snapshots
    BY Zenon, <1>2, <1>5 DEF Snapshots
  <2> QED
    BY <1>1, <2>1 DEF Booted
<1>7. queue \in Seq(Changes) /\ pin \in Pins /\ version \in Nat
  BY <1>1 DEF Booted, Pins
<1>8. /\ erring \in SUBSET Fields /\ blocked \in SUBSET Fields /\ pending \in SUBSET Fields
      /\ timer \in BOOLEAN /\ updatesOpen \in BOOLEAN /\ running \in BOOLEAN
      /\ refused \in BOOLEAN
  BY Zenon, <1>1 DEF Booted
<1>9. unconfirmed \in SUBSET Fields /\ disk \in Configs \cup {NoConfig}
  BY <1>1, <1>2 DEF Booted, PersistBootstrap
<1> QED
  BY <1>1, <1>2, <1>4, <1>5, <1>6, <1>7, <1>8, <1>9 DEF TypeOK, Booted

\* Update keeps the chain state and the observed configuration well typed.
LEMMA UpdateType ==
    ASSUME TypeOK, NEW f \in Fields, NEW p \in Positions(f), NEW r \in Answers,
           Update(f, p, r)
    PROVE  TypeOK'
<1> DEFINE src == [sources[f] EXCEPT ![p] = r]
           w   == RecomputeWinner(src)
<1>1. src \in [Positions(f) -> Answers \cup {"unseen"}]
  BY DEF TypeOK
<1>3. Observe(observed, f, w) \in AllVals \cup {NoValue}
  BY ObserveType DEF TypeOK
<1> HIDE DEF w, src
<1>4. /\ DOMAIN sources' = Fields
      /\ \A g \in Fields : sources'[g] \in [Positions(g) -> Answers \cup {"unseen"}]
  BY <1>1 DEF Update, RecordSourceUpdate, TypeOK, src
<1>5. observed' \in Configs
  <2>1. observed' = [observed EXCEPT ![f] = Observe(observed, f, w)]
    BY DEF Update, RecordSourceUpdate, w, src
  <2> QED
    BY <2>1, <1>3 DEF TypeOK, Configs
<1>6. erring' \in SUBSET Fields /\ blocked' \in SUBSET Fields
  BY DEF Update, RecordSourceUpdate, TypeOK
<1>7. pending' \in SUBSET Fields
  BY DEF Update, RecordSourceUpdate, TypeOK, Rearm, Unapplied
<1>8. timer' \in BOOLEAN
  BY DEF Update, RecordSourceUpdate, TypeOK, Arm
<1>9. refused' \in BOOLEAN
  BY DEF Update, RecordSourceUpdate, TypeOK
<1>10. unconfirmed' \in SUBSET Fields
  BY DEF Update, RecordSourceUpdate, TypeOK
<1>11. disk' \in Configs \cup {NoConfig}
  BY DEF Update, RecordSourceUpdate, TypeOK, PersistBootstrap
<1>12. UNCHANGED <<applied, updatesOpen, running, snapVars>>
  BY DEF Update, RecordSourceUpdate
<1> QED
  BY <1>4, <1>5, <1>6, <1>7, <1>8, <1>9, <1>10, <1>11, <1>12 DEF TypeOK, snapVars

\* Refresh folds a whole walk into the chain state and the observed configuration.
LEMMA RefreshType ==
    ASSUME TypeOK, NEW walk \in Walks, Refresh(walk)
    PROVE  TypeOK'
<1> DEFINE src == [f \in Fields |-> MergeSources(sources[f], walk[f])]
           w   == [f \in Fields |-> RecomputeWinner(src[f])]
           obs == [f \in Fields |-> Observe(observed, f, w[f])]
           blk == {f \in Fields : Blocks(f, w[f])}
           mid  == [f \in Fields |-> IF \E g \in unconfirmed : f < g
                                     THEN obs[f] ELSE observed[f]]
<1>1. \A f \in Fields : src[f] \in [Positions(f) -> Answers \cup {"unseen"}]
  BY MergeType
<1>3. obs \in Configs
  <2> HIDE DEF w
  <2> QED
    BY Zenon, ObserveType DEF TypeOK, Configs
<1>4. mid \in Configs
  <2> HIDE DEF obs
  <2> QED
    BY Zenon, <1>3 DEF TypeOK, Configs
<1>5. /\ sources' = src /\ observed' = obs /\ blocked' = blk
      /\ erring' = {f \in Fields : Errs(f, w[f])}
      /\ unconfirmed' \in SUBSET Fields /\ UNCHANGED batchVars
  BY Zenon DEF Refresh, TypeOK
<1>6. \E file \in Configs \cup {NoConfig} : Flush(obs, blk, file)
  <2>1. \/ \E ok \in Writes : Flush(obs, blk, PersistBootstrap(disk, mid, ok))
        \/ Flush(obs, blk, disk)
    BY Zenon DEF Refresh
  <2> HIDE DEF obs, blk, mid
  <2> QED
    BY <2>1, <1>3, <1>4 DEF PersistBootstrap, TypeOK
<1> HIDE DEF src, obs, blk, mid
<1>7. sources' = src /\ DOMAIN src = Fields
  BY <1>5 DEF src
<1>8. PICK file \in Configs \cup {NoConfig} : Flush(obs, blk, file)
  BY <1>6
<1>9. /\ applied' \in [Fields -> Versions]
      /\ lastGood' \in Configs /\ version' \in Nat /\ cfg' \in Configs
      /\ history' \in Seq(Snapshots) /\ pin' \in Pins
      /\ queue' \in Seq(Changes)
      /\ disk' \in Configs \cup {NoConfig} /\ refused' \in BOOLEAN
  BY <1>8, <1>3, FlushType
<1>10. blocked' \in SUBSET Fields /\ erring' \in SUBSET Fields
  BY <1>5 DEF blk
<1>11. pending' \in SUBSET Fields /\ timer' \in BOOLEAN
       /\ updatesOpen' \in BOOLEAN /\ running' \in BOOLEAN
  BY <1>5 DEF batchVars, TypeOK
<1> QED
  BY Zenon, <1>1, <1>3, <1>5, <1>7, <1>9, <1>10, <1>11 DEF TypeOK

\* A pin that is on holds a snapshot.
LEMMA PinnedType ==
    ASSUME TypeOK, pin.on
    PROVE  pin \in [on : {TRUE}, version : Nat, config : Configs,
                   applied : [Fields -> Versions]]
<1>1. Unpinned.on = FALSE
  BY DEF Unpinned
<1>2. pin # Unpinned
  BY <1>1, Zenon
<1> QED
  BY Zenon, <1>2 DEF TypeOK, Pins

\* The served snapshot is a pin, pinned or not.
LEMMA ServedType ==
    ASSUME TypeOK
    PROVE  Served \in Pins /\ Served.config \in Configs
<1>1. CASE pin.on
  <2>1. Served = pin
    BY <1>1 DEF Served
  <2> QED
    BY Zenon, <1>1, <2>1, PinnedType DEF Pins
<1>2. CASE ~pin.on
  <2>1. Served = [on |-> TRUE, version |-> version, config |-> lastGood,
                  applied |-> applied]
    BY <1>2 DEF Served
  <2> QED
    BY <2>1 DEF Pins, TypeOK
<1> QED
  BY <1>1, <1>2

\* Every branch of the select keeps the type invariant.
LEMMA NextType == TypeOK /\ [Next]_vars => TypeOK'
<1> SUFFICES ASSUME TypeOK, [Next]_vars PROVE TypeOK'
  OBVIOUS
<1>1. ASSUME NEW f \in Fields, NEW p \in Positions(f), NEW r \in Answers, Update(f, p, r)
      PROVE  TypeOK'
  BY <1>1, UpdateType
<1>2. CASE UpdatesClosed
  BY Zenon, <1>2 DEF UpdatesClosed, TypeOK, engineVars, snapVars, bootVars
<1>3. CASE TimerFires
  <2>1. /\ applied' \in [Fields -> Versions]
        /\ lastGood' \in Configs /\ version' \in Nat /\ cfg' \in Configs
        /\ history' \in Seq(Snapshots) /\ pin' \in Pins
        /\ queue' \in Seq(Changes)
        /\ disk' \in Configs \cup {NoConfig} /\ refused' \in BOOLEAN
    BY Zenon, <1>3, FlushType DEF TimerFires, TypeOK
  <2>2. timer' \in BOOLEAN /\ running' \in BOOLEAN /\ updatesOpen' \in BOOLEAN
    BY <1>3, Zenon DEF TimerFires, TypeOK
  <2>3. pending' \in SUBSET Fields
        /\ UNCHANGED <<sources, observed, erring, blocked, unconfirmed>>
    BY <1>3 DEF TimerFires
  <2> QED
    BY <2>1, <2>2, <2>3 DEF TypeOK
<1>4. CASE ContextDone
  BY Zenon, <1>4 DEF ContextDone, TypeOK, engineVars, snapVars, bootVars
<1>5. CASE PinCurrent
  <2>1. Served \in Pins /\ Served.config \in Configs
    BY ServedType
  <2> QED
    BY Zenon, <1>5, <2>1 DEF PinCurrent, TypeOK, engineVars, batchVars, bootVars
<1>6. ASSUME NEW i \in DOMAIN history, PinAt(i)
      PROVE  TypeOK'
  <2>1. history[i] \in Snapshots
    BY ElementOfSeq DEF TypeOK
  <2>2. pin' \in Pins /\ cfg' \in Configs
    BY Zenon, <1>6, <2>1 DEF PinAt, Pins, Snapshots, Baseline
  <2>3. UNCHANGED <<engineVars, batchVars, lastGood, version, history, queue,
                    bootVars, refused>>
    BY <1>6 DEF PinAt
  <2> QED
    BY <2>2, <2>3 DEF TypeOK, engineVars, batchVars, bootVars
<1>7. CASE Unpin
  <2> DEFINE fields == DiffApplied(pin.applied, applied, pin.config, lastGood)
             ev == [old |-> pin.config, new |-> lastGood, fields |-> fields]
  <2>1. fields \in SUBSET (Fields \cup {Derived})
    BY DEF DiffApplied, DerivedFieldChanges
  <2>2. pin.config \in Configs
    BY <1>7, PinnedType DEF Unpin
  <2>3. ev \in Changes
    BY Zenon, <2>1, <2>2 DEF Changes, TypeOK
  <2>4. Enqueue(queue, ev) \in Seq(Changes)
    BY Zenon, <2>3, EnqueueInSeq DEF TypeOK
  <2>5. queue' \in Seq(Changes) /\ pin' \in Pins
    BY Zenon, <1>7, <2>4 DEF Unpin, TypeOK, Pins
  <2> QED
    BY Zenon, <1>7, <2>5 DEF Unpin, TypeOK, engineVars, batchVars, bootVars
<1>8. ASSUME NEW walk \in Walks, Refresh(walk)
      PROVE  TypeOK'
  BY <1>8, RefreshType
<1>9. CASE Deliver
  <2>1. queue' \in Seq(Changes)
    BY Zenon, <1>9, HeadTailProperties DEF Deliver, TypeOK
  <2> QED
    BY Zenon, <1>9, <2>1 DEF Deliver, TypeOK, engineVars, batchVars, bootVars
<1>10. CASE UNCHANGED vars
  BY Zenon, <1>10 DEF vars, TypeOK, engineVars, batchVars, snapVars, bootVars
<1> QED
  BY <1>1, <1>2, <1>3, <1>4, <1>5, <1>6, <1>7, <1>8, <1>9, <1>10 DEF Next

\* Every reachable state of the engine is well typed, for every configuration
\* struct, policy, history bound and queue depth.
THEOREM TypeCorrect == Spec => []TypeOK
  BY InitType, NextType, PTL DEF Spec

-----------------------------------------------------------------------------
(* What a step does to the snapshot state *)

\* PreApply's refusal restores the version map exactly: the fields outside the diff
\* were not moved by the candidate.
LEMMA RollbackComplete ==
    ASSUME TypeOK, NEW obs \in Configs
    PROVE  Rollback(Advance(obs), CandidateFields(obs)) = applied
<1>1. ASSUME NEW f \in Fields
      PROVE  Rollback(Advance(obs), CandidateFields(obs))[f] = applied[f]
  BY Zenon DEF Rollback, Advance, CandidateFields, DerivedFieldChanges, Unapplied
<1>2. DOMAIN Rollback(Advance(obs), CandidateFields(obs)) = Fields
  BY Zenon DEF Rollback
<1> QED
  BY Zenon, <1>1, <1>2 DEF TypeOK, Rollback

\* The two outcomes of a flush: nothing moves, or the whole candidate is applied.
Kept(obs, blk) ==
    /\ UNCHANGED <<applied, lastGood, version, history, pin, cfg, queue>>
    /\ blk # {} \/ refused' \/ Unapplied(obs, applied) = {}

Taken(obs) ==
    /\ obs \in Acceptable
    /\ CandidateFields(obs) # {}
    /\ applied' = Advance(obs)
    /\ lastGood' = obs
    /\ version' = version + 1
    /\ history' = RecordSnapshot(history,
                     [version |-> version + 1, config |-> obs,
                      fields |-> CandidateFields(obs), applied |-> Advance(obs)])
    /\ Publish(obs, CandidateFields(obs))
    /\ UNCHANGED pin

\* A flush keeps everything back or applies what it validated.
LEMMA FlushCases ==
    ASSUME TypeOK, NEW obs \in Configs, NEW blk, NEW file, Flush(obs, blk, file)
    PROVE  Kept(obs, blk) \/ Taken(obs)
<1> DEFINE fields == CandidateFields(obs)
<1>1. CASE blk # {} /\ NothingApplied /\ UNCHANGED applied
  BY <1>1 DEF Kept, NothingApplied
<1>2. CASE NothingApplied /\ refused' = TRUE /\ UNCHANGED applied
  BY <1>2 DEF Kept, NothingApplied
<1>3. CASE fields = {} /\ NothingApplied /\ UNCHANGED applied
  BY <1>3 DEF Kept, NothingApplied, CandidateFields, DerivedFieldChanges
<1>4. CASE /\ NothingApplied /\ refused' = TRUE
           /\ applied' = Rollback(Advance(obs), fields)
  BY <1>4, RollbackComplete DEF Kept, NothingApplied
<1>5. CASE /\ Builds(obs) /\ fields # {} /\ applied' = Advance(obs)
           /\ version' = version + 1 /\ lastGood' = obs
           /\ history' = RecordSnapshot(history,
                            [version |-> version + 1, config |-> obs,
                             fields |-> fields, applied |-> Advance(obs)])
           /\ Publish(obs, fields) /\ UNCHANGED pin
  BY <1>5 DEF Taken, Builds
<1> QED
  BY Zenon, <1>1, <1>2, <1>3, <1>4, <1>5 DEF Flush

\* A step that leaves the snapshots to a flush of obs.  No observation is undone.
Flushes(obs, blk) ==
    /\ Kept(obs, blk) \/ Taken(obs)
    /\ observed' = obs /\ blocked' = blk
    /\ \A f \in Fields : obs[f] = NoValue => observed[f] = NoValue
    /\ \A f \in blk : OnFail[f] = "fail"

\* An outcome never erases an observed value.
LEMMA ObserveKeeps ==
    ASSUME NEW obs \in Configs, NEW f \in Fields, NEW w, Observe(obs, f, w) = NoValue
    PROVE  obs[f] = NoValue
  BY DEF Observe

\* A refresh is a flush of what its walk observed.
LEMMA RefreshFlushes ==
    ASSUME TypeOK, NEW walk \in Walks, Refresh(walk)
    PROVE  \E obs \in Configs, blk \in SUBSET Fields : Flushes(obs, blk)
<1> DEFINE src == [f \in Fields |-> MergeSources(sources[f], walk[f])]
           w   == [f \in Fields |-> RecomputeWinner(src[f])]
           obs == [f \in Fields |-> Observe(observed, f, w[f])]
           blk == {f \in Fields : Blocks(f, w[f])}
<1>1. observed' = obs /\ blocked' = blk
  BY Zenon DEF Refresh
<1>2. obs \in Configs
  BY Zenon, <1>1, RefreshType DEF TypeOK
<1>3. \E file : Flush(obs, blk, file)
  BY Zenon DEF Refresh
<1>4. \A f \in Fields : obs[f] = NoValue => observed[f] = NoValue
  <2> HIDE DEF w
  <2> QED
    BY Zenon, ObserveKeeps DEF TypeOK
<1>5. \A f \in blk : OnFail[f] = "fail"
  BY Zenon DEF Blocks
<1>6. blk \in SUBSET Fields
  OBVIOUS
<1> HIDE DEF obs, blk
<1>7. Kept(obs, blk) \/ Taken(obs)
  BY <1>2, <1>3, FlushCases
<1> QED
  BY Zenon, <1>1, <1>2, <1>4, <1>5, <1>6, <1>7 DEF Flushes

\* The timer flushes what was observed.
LEMMA TimerFlushes ==
    ASSUME TypeOK, TimerFires, \A f \in blocked : OnFail[f] = "fail"
    PROVE  Flushes(observed, blocked)
<1>1. Kept(observed, blocked) \/ Taken(observed)
  BY Zenon, FlushCases DEF TimerFires, TypeOK
<1> QED
  BY <1>1 DEF Flushes, TimerFires

-----------------------------------------------------------------------------
(* Refused candidates are rolled back, and no change is stranded *)

\* The strengthening: only onfail:"fail" fields block, and no field of the last
\* accepted configuration has a value that was never observed.
EngineInv ==
    /\ TypeOK
    /\ \A f \in blocked : OnFail[f] = "fail"
    /\ \A f \in Fields : observed[f] = NoValue => lastGood[f] = NoValue
    /\ AppliedDescribesLastGood
    /\ NoStrandedChange

\* A step of the dispatch goroutine or of a pin command, and the end of the watch,
\* leave what the engine observed and applied alone.
Aside ==
    /\ UNCHANGED <<observed, applied, blocked, lastGood, version, history>>
    /\ running' => running /\ timer' = timer /\ refused' = refused

\* Every step is an update, a flush, or leaves the engine alone.
LEMMA StepCases ==
    ASSUME TypeOK, \A f \in blocked : OnFail[f] = "fail", [Next]_vars
    PROVE  \/ \E f \in Fields : \E p \in Positions(f), r \in Answers : Update(f, p, r)
           \/ \E obs \in Configs, blk \in SUBSET Fields : Flushes(obs, blk)
           \/ Aside
<1>1. CASE UpdatesClosed
  BY <1>1 DEF UpdatesClosed, Aside, engineVars, snapVars
<1>2. CASE TimerFires
  <2>1. observed \in Configs /\ blocked \in SUBSET Fields
    BY Zenon DEF TypeOK
  <2>2. Flushes(observed, blocked)
    BY Zenon, <1>2, TimerFlushes
  <2> QED
    BY Zenon, <2>1, <2>2
<1>3. CASE ContextDone
  BY <1>3 DEF ContextDone, Aside, engineVars, snapVars
<1>4. CASE PinCurrent
  BY <1>4 DEF PinCurrent, Aside, engineVars, batchVars
<1>5. CASE \E i \in DOMAIN history : PinAt(i)
  BY <1>5 DEF PinAt, Aside, engineVars, batchVars
<1>6. CASE Unpin
  BY <1>6 DEF Unpin, Aside, engineVars, batchVars
<1>7. CASE \E walk \in Walks : Refresh(walk)
  BY <1>7, RefreshFlushes
<1>8. CASE Deliver
  BY <1>8 DEF Deliver, Aside, engineVars, batchVars
<1>9. CASE UNCHANGED vars
  BY <1>9 DEF vars, Aside, engineVars, batchVars, snapVars
<1> QED
  BY Zenon, <1>1, <1>2, <1>3, <1>4, <1>5, <1>6, <1>7, <1>8, <1>9 DEF Next

\* Everything observed is applied once a candidate is taken.
LEMMA TakenSettles ==
    ASSUME TypeOK, NEW obs \in Configs
    PROVE  Unapplied(obs, Advance(obs)) = {}
  BY DEF Unapplied, Advance

\* A started engine has applied what it loaded.
LEMMA EngineInit == Init => EngineInv
<1> SUFFICES ASSUME Init PROVE EngineInv
  OBVIOUS
<1>1. PICK c \in Acceptable, walk \in Walks, restored \in {FALSE, BootstrapOn} :
        Booted(c, walk, restored)
  BY Zenon DEF Init
<1>2. blocked = {} /\ observed = lastGood
      /\ applied = [f \in Fields |-> VersionOf(lastGood[f])]
  BY Zenon, <1>1 DEF Booted
<1>3. Unapplied(observed, applied) = {}
  BY <1>2 DEF Unapplied
<1> QED
  BY <1>2, <1>3, InitType DEF EngineInv, AppliedDescribesLastGood, NoStrandedChange

\* Every step keeps the engine consistent.
LEMMA EngineNext == EngineInv /\ [Next]_vars => EngineInv'
<1> SUFFICES ASSUME EngineInv, [Next]_vars PROVE EngineInv'
  OBVIOUS
<1>1. TypeOK'
  BY Zenon, NextType DEF EngineInv
<1>2. ASSUME NEW f \in Fields, NEW p \in Positions(f), NEW r \in Answers, Update(f, p, r)
      PROVE  EngineInv'
  <2> DEFINE w == RecomputeWinner([sources[f] EXCEPT ![p] = r])
             new == Observe(observed, f, w)
             marked == IF new # observed[f] THEN {f} ELSE {}
  <2>1. /\ running /\ observed' = [observed EXCEPT ![f] = new]
        /\ blocked' = IF Blocks(f, w) THEN blocked \cup {f} ELSE blocked \ {f}
        /\ timer' = (timer \/ (Rearm(f, w) \cup marked) # {})
        /\ refused' = (refused /\ marked = {})
        /\ UNCHANGED <<applied, lastGood>>
    BY Zenon, <1>2 DEF Update, RecordSourceUpdate, snapVars, Arm
  <2> HIDE DEF w
  <2>2. \A g \in blocked' : OnFail[g] = "fail"
    BY <2>1 DEF EngineInv, Blocks
  <2>3. \A g \in Fields : observed'[g] = NoValue => lastGood'[g] = NoValue
    <3>1. new = NoValue => observed[f] = NoValue
      BY Zenon, ObserveKeeps DEF EngineInv, TypeOK
    <3> HIDE DEF new
    <3> QED
      BY Zenon, <2>1, <3>1 DEF EngineInv, TypeOK, Configs
  <2>4. AppliedDescribesLastGood'
    BY <2>1 DEF EngineInv, AppliedDescribesLastGood
  <2>5. ASSUME blocked' = {}, Unapplied(observed', applied') # {}, marked = {}
        PROVE  timer' \/ refused'
    <3>1. observed' = observed
      BY Zenon, <2>1, <2>5 DEF EngineInv, TypeOK, Configs
    <3>2. Unapplied(observed, applied) # {}
      BY <2>1, <2>5, <3>1
    <3>3. CASE blocked = {}
      BY Zenon, <3>3, <3>2, <2>1, <2>5 DEF EngineInv, NoStrandedChange
    <3>4. CASE blocked # {}
      <4>1. blocked = {f} /\ ~Blocks(f, w)
        BY <3>4, <2>1, <2>5
      <4>2. w # "failed" /\ f \in blocked
        BY <4>1 DEF Blocks, EngineInv
      <4>3. Rearm(f, w) = Unapplied(observed, applied)
        BY <4>2 DEF Rearm
      <4> QED
        BY Zenon, <4>3, <3>2, <2>1
    <3> QED
      BY <3>3, <3>4
  <2>6. ASSUME marked # {} PROVE timer'
    BY Zenon, <2>6, <2>1
  <2>7. NoStrandedChange'
    BY <2>5, <2>6 DEF NoStrandedChange
  <2> QED
    BY Zenon, <1>1, <2>2, <2>3, <2>4, <2>7 DEF EngineInv
<1>3. ASSUME NEW obs \in Configs, NEW blk \in SUBSET Fields, Flushes(obs, blk)
      PROVE  EngineInv'
  <2>1. /\ observed' = obs /\ blocked' = blk
        /\ \A f \in Fields : obs[f] = NoValue => observed[f] = NoValue
        /\ \A f \in blk : OnFail[f] = "fail"
    BY <1>3 DEF Flushes
  <2>2. CASE Kept(obs, blk)
    <3>1. /\ UNCHANGED <<applied, lastGood>>
          /\ blk # {} \/ refused' \/ Unapplied(obs, applied) = {}
      BY <2>2 DEF Kept
    <3>2. NoStrandedChange'
      BY <2>1, <3>1 DEF NoStrandedChange
    <3>3. AppliedDescribesLastGood'
      BY <3>1 DEF AppliedDescribesLastGood, EngineInv
    <3> QED
      BY <1>1, <2>1, <3>1, <3>2, <3>3 DEF EngineInv
  <2>3. CASE Taken(obs)
    <3>1. applied' = Advance(obs) /\ lastGood' = obs
      BY Zenon, <2>3 DEF Taken
    <3>2. NoStrandedChange'
      BY Zenon, <2>1, <3>1, TakenSettles DEF NoStrandedChange, EngineInv
    <3>3. \A f \in Fields : Advance(obs)[f] = VersionOf(obs[f])
      <4> SUFFICES ASSUME NEW f \in Fields, obs[f] = NoValue
                   PROVE  applied[f] = VersionOf(NoValue)
        BY DEF Advance
      <4>1. lastGood[f] = NoValue
        BY <2>1 DEF EngineInv
      <4> QED
        BY <4>1 DEF EngineInv, AppliedDescribesLastGood
    <3>4. AppliedDescribesLastGood'
      BY Zenon, <3>1, <3>3 DEF AppliedDescribesLastGood
    <3> QED
      BY Zenon, <1>1, <2>1, <3>1, <3>2, <3>4 DEF EngineInv
  <2> QED
    BY <1>3, <2>2, <2>3 DEF Flushes
<1>4. CASE Aside
  <2>1. AppliedDescribesLastGood'
    BY Zenon, <1>4 DEF Aside, EngineInv, AppliedDescribesLastGood
  <2>2. NoStrandedChange'
    BY <1>4 DEF Aside, EngineInv, NoStrandedChange
  <2> QED
    BY <1>1, <1>4, <2>1, <2>2 DEF Aside, EngineInv
<1> QED
  BY Zenon, <1>2, <1>3, <1>4, StepCases DEF EngineInv

\* flush's rollback is complete: after every step the version map the next diff is
\* taken against is that of the newest accepted configuration.
THEOREM AppliedIsAccepted == Spec => []AppliedDescribesLastGood
<1>1. EngineInv => AppliedDescribesLastGood
  BY DEF EngineInv
<1> QED
  BY <1>1, EngineInit, EngineNext, PTL DEF Spec

\* No watched change waits without a timer once nothing is blocked: the re-arming
\* in loop's unblock covers every field, however the block came about.
THEOREM NothingStranded == Spec => []NoStrandedChange
<1>1. EngineInv => NoStrandedChange
  BY DEF EngineInv
<1> QED
  BY <1>1, EngineInit, EngineNext, PTL DEF Spec

-----------------------------------------------------------------------------
(* What Get serves, and what Status calls it *)

\* The snapshots a process may hand out again through Pin.
Held == {s \in Snapshots : /\ s.config \in Acceptable /\ s.version <= version}

\* The strengthening: every configuration the watcher retains passed the
\* validator, and a snapshot version names one configuration.
ServeInv ==
    /\ TypeOK
    /\ lastGood \in Acceptable
    /\ history \in Seq(Held)
    /\ \A i, j \in DOMAIN history :
          history[i].version = history[j].version => history[i].config = history[j].config
    /\ \A i \in DOMAIN history :
          history[i].version = version => history[i].config = lastGood
    /\ pin.on => /\ pin.config \in Acceptable /\ pin.version <= version
                  /\ \A i \in DOMAIN history :
                        history[i].version = pin.version => history[i].config = pin.config
    /\ cfg = IF pin.on THEN pin.config ELSE lastGood

\* recordSnapshot retains only what was retained and the new snapshot.
LEMMA RecordElements ==
    ASSUME NEW S, NEW h \in Seq(S), NEW snap, NEW i \in DOMAIN RecordSnapshot(h, snap)
    PROVE  \/ RecordSnapshot(h, snap)[i] = snap
           \/ \E j \in DOMAIN h : RecordSnapshot(h, snap)[i] = h[j]
<1> DEFINE T == {h[j] : j \in DOMAIN h} \cup {snap}
<1>1. h \in Seq(T)
  BY ElementOfSeq, LenProperties
<1>2. RecordSnapshot(h, snap) \in Seq(T)
  BY <1>1, RecordInSeq
<1>3. RecordSnapshot(h, snap)[i] \in T
  <2> HIDE DEF T
  <2> QED BY <1>2, ElementOfSeq, LenProperties
<1> QED
  BY <1>3

\* A started engine serves what it loaded.
LEMMA ServeInit == Init => ServeInv
<1> SUFFICES ASSUME Init PROVE ServeInv
  OBVIOUS
<1>1. PICK c \in Acceptable, walk \in Walks, restored \in {FALSE, BootstrapOn} :
        Booted(c, walk, restored)
  BY Zenon DEF Init
<1>2. TypeOK
  BY InitType
<1>3. /\ lastGood = c /\ cfg = c /\ version = 1 /\ pin = Unpinned
      /\ history = <<[version |-> 1, config |-> c, fields |-> {}, applied |-> applied]>>
  BY Zenon, <1>1 DEF Booted
<1>4. ~pin.on
  BY Zenon, <1>3 DEF Unpinned
<1>5. [version |-> 1, config |-> c, fields |-> {}, applied |-> applied] \in Held
  <2>1. [version |-> 1, config |-> c, fields |-> {}, applied |-> applied] \in Snapshots
    BY Zenon, <1>2, <1>3 DEF TypeOK, Snapshots
  <2>2. 1 <= version
    BY <1>3
  <2> QED
    BY Zenon, <2>1, <2>2 DEF Held
<1>6. history \in Seq(Held)
  BY <1>3, <1>5
<1>7. \A i \in DOMAIN history : history[i].config = lastGood
  BY <1>3
<1> QED
  BY Zenon, <1>2, <1>3, <1>4, <1>6, <1>7 DEF ServeInv

\* Every step keeps history, pin and Get in agreement.
LEMMA ServeNext == ServeInv /\ EngineInv /\ [Next]_vars => ServeInv'
<1> SUFFICES ASSUME ServeInv, EngineInv, [Next]_vars PROVE ServeInv'
  OBVIOUS
<1>1. TypeOK'
  BY Zenon, NextType DEF ServeInv
<1>2. CASE UNCHANGED <<lastGood, version, history, pin, cfg>>
  <2>1. Held' = Held
    BY <1>2 DEF Held
  <2> QED
    BY Zenon, <1>1, <1>2, <2>1 DEF ServeInv
<1>3. ASSUME NEW obs \in Configs, Taken(obs)
      PROVE  ServeInv'
  <2> DEFINE snap == [version |-> version + 1, config |-> obs,
                      fields |-> CandidateFields(obs), applied |-> Advance(obs)]
  <2>1. /\ obs \in Acceptable /\ lastGood' = obs /\ version' = version + 1
        /\ history' = RecordSnapshot(history, snap) /\ pin' = pin
    BY <1>3 DEF Taken
  <2>2. version \in Nat /\ history \in Seq(Held)
    BY Zenon DEF ServeInv, TypeOK
  <2>3. snap \in Held'
    <3>1. CandidateFields(obs) \in SUBSET (Fields \cup {Derived})
      BY DEF CandidateFields, DerivedFieldChanges, Unapplied
    <3>2. Advance(obs) \in [Fields -> Versions]
      BY Zenon, VersionType DEF Advance, ServeInv, TypeOK, Configs
    <3>3. snap \in Snapshots
      BY <3>1, <3>2, <2>2 DEF Snapshots
    <3> QED
      BY <3>3, <2>1, <2>2 DEF Held
  <2>4. Held \subseteq Held'
    BY <2>1, <2>2 DEF Held, Snapshots
  <2>5. history \in Seq(Held')
    BY <2>2, <2>4, ElementOfSeq, LenProperties
  <2>6. history' \in Seq(Held')
    BY Zenon, <2>1, <2>3, <2>5, RecordInSeq
  <2>7. \A i \in DOMAIN history' :
           \/ history'[i] = snap
           \/ \E j \in DOMAIN history : history'[i] = history[j]
    BY <2>1, <2>2, RecordElements
  <2>8. \A j \in DOMAIN history : history[j].version \in Nat /\ history[j].version <= version
    BY <2>2, ElementOfSeq, LenProperties DEF Held, Snapshots
  <2>9. snap.version = version + 1 /\ snap.config = obs
    OBVIOUS
  <2> HIDE DEF snap
  <2>10. \A i, j \in DOMAIN history' :
           history'[i].version = history'[j].version
             => history'[i].config = history'[j].config
    <3>1. \A i, j \in DOMAIN history :
            history[i].version = history[j].version => history[i].config = history[j].config
      BY Zenon DEF ServeInv
    <3> SUFFICES ASSUME NEW i \in DOMAIN history', NEW j \in DOMAIN history',
                        history'[i].version = history'[j].version
                 PROVE  history'[i].config = history'[j].config
      OBVIOUS
    <3>2. CASE history'[i] = snap /\ history'[j] = snap
      BY <3>2
    <3>3. ASSUME history'[i] = snap \/ history'[j] = snap,
                 history'[i] # snap \/ history'[j] # snap
          PROVE  FALSE
      BY <3>3, <2>2, <2>7, <2>8, <2>9
    <3>4. CASE history'[i] # snap /\ history'[j] # snap
      BY Zenon, <3>4, <3>1, <2>7
    <3> QED
      BY <3>2, <3>3, <3>4
  <2>11. \A i \in DOMAIN history' :
           history'[i].version = version' => history'[i].config = lastGood'
    BY <2>1, <2>2, <2>7, <2>8, <2>9
  <2>12. pin'.on => /\ pin'.config \in Acceptable /\ pin'.version <= version'
                   /\ \A i \in DOMAIN history' :
                        history'[i].version = pin'.version => history'[i].config = pin'.config
    <3> SUFFICES ASSUME pin.on
                 PROVE  /\ pin.config \in Acceptable /\ pin.version <= version + 1
                        /\ \A i \in DOMAIN history' :
                             history'[i].version = pin.version => history'[i].config = pin.config
      BY Zenon, <2>1
    <3>1. pin.version \in Nat
      BY Zenon, PinnedType DEF ServeInv
    <3> QED
      BY <3>1, <2>2, <2>7, <2>8, <2>9 DEF ServeInv
  <2>13. cfg' = IF pin'.on THEN pin'.config ELSE lastGood'
    BY Zenon, <1>3, <2>1 DEF Taken, Publish, ServeInv
  <2> QED
    BY Zenon, <1>1, <2>1, <2>6, <2>10, <2>11, <2>12, <2>13 DEF ServeInv
<1>4. CASE PinCurrent
  <2>1. UNCHANGED <<lastGood, version, history>> /\ pin' = Served /\ cfg' = Served.config
    BY <1>4 DEF PinCurrent
  <2>2. Held' = Held
    BY <2>1 DEF Held
  <2>3. CASE pin.on
    <3>1. pin' = pin /\ cfg' = pin.config
      BY <2>1, <2>3 DEF Served
    <3> QED
      BY Zenon, <1>1, <1>2, <2>1, <2>2, <2>3, <3>1 DEF ServeInv
  <2>4. CASE ~pin.on
    <3>1. /\ pin' = [on |-> TRUE, version |-> version, config |-> lastGood,
                     applied |-> applied]
          /\ cfg' = lastGood
      BY <2>1, <2>4 DEF Served
    <3>2. pin'.on /\ pin'.version = version /\ pin'.config = lastGood
      BY <3>1
    <3>3. version <= version
      <4>1. version \in Nat
        BY Zenon DEF ServeInv, TypeOK
      <4> QED
        BY <4>1
    <3> QED
      BY Zenon, <1>1, <2>1, <2>2, <3>1, <3>2, <3>3 DEF ServeInv
  <2> QED
    BY <2>3, <2>4
<1>5. ASSUME NEW i \in DOMAIN history, PinAt(i)
      PROVE  ServeInv'
  <2>1. /\ UNCHANGED <<lastGood, version, history>> /\ cfg' = history[i].config
        /\ pin' = [on |-> TRUE, version |-> history[i].version,
                   config |-> history[i].config, applied |-> Baseline(history[i])]
    BY Zenon, <1>5 DEF PinAt
  <2>2. Held' = Held
    BY <2>1 DEF Held
  <2>3. history[i] \in Held
    BY Zenon, ElementOfSeq, LenProperties DEF ServeInv
  <2>4. pin'.on /\ pin'.version = history[i].version /\ pin'.config = history[i].config
    BY <2>1
  <2> QED
    BY Zenon, <1>1, <2>1, <2>2, <2>3, <2>4 DEF ServeInv, Held
<1>6. CASE Unpin
  <2>1. UNCHANGED <<lastGood, version, history>> /\ cfg' = lastGood /\ ~pin'.on
    BY Zenon, <1>6 DEF Unpin, Unpinned
  <2>2. Held' = Held
    BY <2>1 DEF Held
  <2> QED
    BY Zenon, <1>1, <2>1, <2>2 DEF ServeInv
<1>7. CASE Deliver \/ UpdatesClosed \/ ContextDone \/ UNCHANGED vars
  BY Zenon, <1>2, <1>7 DEF Deliver, UpdatesClosed, ContextDone, vars, snapVars
<1>8. ASSUME NEW f \in Fields, NEW p \in Positions(f), NEW r \in Answers, Update(f, p, r)
      PROVE  ServeInv'
  BY Zenon, <1>2, <1>8 DEF Update, RecordSourceUpdate, snapVars
<1>9. ASSUME NEW obs \in Configs, NEW blk \in SUBSET Fields, Flushes(obs, blk)
      PROVE  ServeInv'
  BY Zenon, <1>2, <1>3, <1>9 DEF Flushes, Kept
<1>10. CASE TimerFires
  BY Zenon, <1>9, <1>10, TimerFlushes DEF EngineInv, TypeOK
<1>11. ASSUME NEW walk \in Walks, Refresh(walk)
       PROVE  ServeInv'
  BY Zenon, <1>9, <1>11, RefreshFlushes DEF EngineInv
<1> QED
  BY <1>4, <1>5, <1>6, <1>7, <1>8, <1>10, <1>11 DEF Next

\* Get never serves a configuration the validator did not accept, whatever is
\* pinned, unpinned or refreshed in between.
THEOREM GetIsAccepted == Spec => []GetServesAccepted
<1>1. ServeInv => GetServesAccepted
  BY DEF ServeInv, GetServesAccepted
<1> QED
  BY <1>1, EngineInit, EngineNext, ServeInit, ServeNext, PTL DEF Spec

\* The snapshot version Status reports is that of the configuration Get serves.
THEOREM ReportIsServed == Spec => []ReportNamesServed
<1>1. ServeInv => ReportNamesServed
  BY Zenon DEF ServeInv, ReportNamesServed, ServedVersion
<1> QED
  BY <1>1, EngineInit, EngineNext, ServeInit, ServeNext, PTL DEF Spec

\* While pinned, only a control command moves what Get returns: a flush or refresh
\* applies behind the pin.
THEOREM PinFreezes == Spec => PinFreezesGet
<1>1. ServeInv /\ EngineInv /\ [Next]_vars => [pin.on /\ pin' = pin => cfg' = cfg]_vars
  <2> SUFFICES ASSUME ServeInv, ServeInv', pin.on, pin' = pin
               PROVE  cfg' = cfg
    BY ServeNext
  <2> QED
    BY Zenon DEF ServeInv
<1> QED
  BY <1>1, EngineInit, EngineNext, ServeInit, ServeNext, PTL DEF Spec, PinFreezesGet

-----------------------------------------------------------------------------
(* Blocking and batching *)

BlockInv == TypeOK /\ BlockedIsJustified

\* Every step keeps the blocked fields justified.
LEMMA BlockNext == BlockInv /\ [Next]_vars => BlockInv'
<1> SUFFICES ASSUME BlockInv, [Next]_vars PROVE BlockInv'
  OBVIOUS
<1>1. TypeOK'
  BY NextType DEF BlockInv
<1>2. CASE UNCHANGED <<sources, erring, blocked>>
  BY Zenon, <1>1, <1>2 DEF BlockInv, BlockedIsJustified
<1>3. ASSUME NEW f \in Fields, NEW p \in Positions(f), NEW r \in Answers, Update(f, p, r)
      PROVE  BlockInv'
  <2> DEFINE src == [sources[f] EXCEPT ![p] = r]
             w == RecomputeWinner(src)
  <2>1. /\ sources' = [sources EXCEPT ![f] = src]
        /\ erring' = IF Errs(f, w) THEN erring \cup {f} ELSE erring \ {f}
        /\ blocked' = IF Blocks(f, w) THEN blocked \cup {f} ELSE blocked \ {f}
    BY Zenon, <1>3 DEF Update, RecordSourceUpdate
  <2> HIDE DEF src
  <2>2. ASSUME NEW g \in blocked'
        PROVE  g \in erring' /\ OnFail[g] = "fail"
               /\ RecomputeWinner(sources'[g]) = "failed"
    <3>1. CASE g = f
      <4>1. w = "failed" /\ OnFail[f] = "fail"
        BY <3>1, <2>1, <2>2 DEF Blocks
      <4>2. Errs(f, w)
        BY <4>1 DEF Errs
      <4>3. sources'[f] = src
        BY Zenon, <2>1 DEF BlockInv, TypeOK
      <4> QED
        BY Zenon, <3>1, <4>1, <4>2, <4>3, <2>1
    <3>2. CASE g # f
      BY Zenon, <3>2, <2>1, <2>2 DEF BlockInv, BlockedIsJustified, TypeOK
    <3> QED
      BY Zenon, <3>1, <3>2
  <2> QED
    BY Zenon, <1>1, <2>2 DEF BlockInv, BlockedIsJustified
<1>4. ASSUME NEW walk \in Walks, Refresh(walk)
      PROVE  BlockInv'
  <2> DEFINE src == [f \in Fields |-> MergeSources(sources[f], walk[f])]
             w   == [f \in Fields |-> RecomputeWinner(src[f])]
  <2>1. /\ sources' = src /\ blocked' = {f \in Fields : Blocks(f, w[f])}
        /\ erring' = {f \in Fields : Errs(f, w[f])}
    BY Zenon, <1>4 DEF Refresh
  <2> HIDE DEF src
  <2>2. \A f \in Fields : Blocks(f, w[f]) =>
          Errs(f, w[f]) /\ OnFail[f] = "fail" /\ RecomputeWinner(src[f]) = "failed"
    BY Zenon DEF Blocks, Errs
  <2> QED
    BY Zenon, <1>1, <2>1, <2>2 DEF BlockInv, BlockedIsJustified
<1> QED
  BY Zenon, <1>2, <1>3, <1>4 DEF Next, UpdatesClosed, TimerFires, ContextDone, PinCurrent,
     PinAt, Unpin, Deliver, vars, engineVars

\* A field blocks the others only while its chain stops at a hard error that
\* onfail:"fail" declares fatal, and the error is reported for as long.
THEOREM BlockingIsJustified == Spec => []BlockedIsJustified
<1>1. Init => BlockInv
  BY Zenon, InitType DEF Init, Booted, BlockInv, BlockedIsJustified
<1>2. BlockInv => BlockedIsJustified
  BY DEF BlockInv
<1> QED
  BY <1>1, <1>2, BlockNext, PTL DEF Spec

\* The debounce timer is armed exactly while a batch is open, refreshes and pins in
\* between notwithstanding.
THEOREM BatchesAreTimed == Spec => []BatchHasTimer
<1>1. Init => TypeOK /\ BatchHasTimer
  BY Zenon, InitType DEF Init, Booted, BatchHasTimer
<1>2. TypeOK /\ BatchHasTimer /\ [Next]_vars => BatchHasTimer'
  <2> SUFFICES ASSUME TypeOK, BatchHasTimer, [Next]_vars PROVE BatchHasTimer'
    OBVIOUS
  <2>1. ASSUME NEW f \in Fields, NEW p \in Positions(f), NEW r \in Answers, Update(f, p, r)
        PROVE  BatchHasTimer'
    <3>1. PICK joining : /\ pending' = pending \cup joining
                         /\ timer' = (timer \/ joining # {}) /\ running
      BY Zenon, <2>1 DEF Update, RecordSourceUpdate, Arm
    <3> QED
      BY Zenon, <3>1 DEF BatchHasTimer
  <2>2. CASE TimerFires
    BY <2>2 DEF TimerFires, BatchHasTimer
  <2>3. CASE UpdatesClosed
    BY <2>3 DEF UpdatesClosed, BatchHasTimer
  <2>4. CASE ContextDone
    BY <2>4 DEF ContextDone, BatchHasTimer
  <2>5. CASE UNCHANGED batchVars
    BY <2>5 DEF batchVars, BatchHasTimer
  <2> QED
    BY Zenon, <2>1, <2>2, <2>3, <2>4, <2>5 DEF Next, PinCurrent, PinAt, Unpin, Refresh,
       Deliver, vars
<1> QED
  BY <1>1, <1>2, NextType, PTL DEF Spec

-----------------------------------------------------------------------------
(* What OnChange and History are told: the changes the engine queues and the  *)
(* snapshots it retains name exactly what moved, and every move is announced,  *)
(* provided versions identify values.                                          *)


\* The values field f can hold.
ValuesOf(f) == Vals \cup {NoValue} \cup (IF f \in HasDefault THEN {Default[f]} ELSE {})

\* Providers give every value a version of its own (Value.Version), and a default's
\* version is none of theirs.
Versioned ==
    \A f \in Fields : \A a, b \in ValuesOf(f) : VersionOf(a) = VersionOf(b) => a = b

FieldConfigs == {c \in Configs : \A f \in Fields : c[f] \in ValuesOf(f)}

\* Snapshots whose version map is the version map of their configuration.
Described == {s \in Snapshots : /\ s.config \in FieldConfigs
                                /\ \A f \in Fields : s.applied[f] = VersionOf(s.config[f])}

ExactChanges == {ev \in Changes : ev.fields = Differing(ev.old, ev.new)}

\* The strengthening: every version map the engine diffs against, live, retained or
\* pinned, describes the configuration it stands for.
ChangeInv ==
    /\ observed \in FieldConfigs /\ lastGood \in FieldConfigs
    /\ history \in Seq(Described)
    /\ pin.on => /\ pin.config \in FieldConfigs
                 /\ \A f \in Fields : pin.applied[f] = VersionOf(pin.config[f])
    /\ queue \in Seq(ExactChanges)

\* An outcome leaves a field with a value of its own.
LEMMA ObserveOwn ==
    ASSUME NEW obs \in FieldConfigs, NEW f \in Fields, NEW w
    PROVE  Observe(obs, f, w) \in ValuesOf(f)
<1>1. Yield(f, w) \in ValuesOf(f)
  BY ReconcilerAssumption DEF Yield, ValuesOf
<1> QED
  BY <1>1 DEF Observe, FieldConfigs

\* Two version maps that describe their configurations differ exactly where the
\* configurations do.
LEMMA DiffExact ==
    ASSUME Versioned, NEW a \in FieldConfigs, NEW b \in FieldConfigs,
           NEW va, NEW vb,
           \A f \in Fields : va[f] = VersionOf(a[f]),
           \A f \in Fields : vb[f] = VersionOf(b[f])
    PROVE  DiffApplied(va, vb, a, b) = Differing(a, b)
<1>1. \A f \in Fields : va[f] # vb[f] <=> a[f] # b[f]
  BY DEF Versioned, FieldConfigs
<1> QED
  BY Zenon, <1>1 DEF DiffApplied, DerivedFieldChanges, Differing

\* A candidate's diff names exactly the paths on which it differs from the last
\* accepted configuration.
LEMMA CandidateExact ==
    ASSUME Versioned, EngineInv, NEW obs \in FieldConfigs, lastGood \in FieldConfigs,
           \A f \in Fields : obs[f] = NoValue => lastGood[f] = NoValue
    PROVE  CandidateFields(obs) = Differing(lastGood, obs)
<1>1. ASSUME NEW f \in Fields
      PROVE  (obs[f] # NoValue /\ applied[f] # VersionOf(obs[f])) <=> lastGood[f] # obs[f]
  <2>1. applied[f] = VersionOf(lastGood[f])
    BY Zenon DEF EngineInv, AppliedDescribesLastGood
  <2>2. obs[f] \in ValuesOf(f) /\ lastGood[f] \in ValuesOf(f)
    BY DEF FieldConfigs
  <2> QED
    BY Zenon, <2>1, <2>2 DEF Versioned
<1>2. Unapplied(obs, applied) = {f \in Fields : lastGood[f] # obs[f]}
  BY <1>1 DEF Unapplied
<1> QED
  BY <1>2 DEF CandidateFields, DerivedFieldChanges, Differing

\* A sequence over a set is one over any larger set.
LEMMA SeqWiden ==
    ASSUME NEW S, NEW T, NEW h \in Seq(S), S \subseteq T
    PROVE  h \in Seq(T)
  OBVIOUS

\* Places of a ring of m snapshots that one of n follows, moved by d.
LEMMA Shifted ==
    ASSUME NEW m \in Nat, NEW n \in Nat, NEW d \in {0, 1}, m = n - 1 + d,
           NEW i \in 1 .. n - 1, i # n - 1
    PROVE  i + d \in 1 .. m - 1 /\ i + 1 \in 1 .. n - 1 /\ (i + 1) + d = (i + d) + 1
  OBVIOUS

\* Ring r ends with snap, and the others are those of h, moved down by one place when
\* it was full.
Recorded(r, h, snap) ==
    /\ Len(r) \in 1 .. HistoryN + 1 /\ r[Len(r)] = snap
    /\ \E d \in {0, 1} : /\ Len(h) = Len(r) - 1 + d
                         /\ \A i \in 1 .. Len(r) - 1 : r[i] = h[i + d]

\* What recordSnapshot makes of the ring.
LEMMA RecordRing ==
    ASSUME NEW S, NEW h \in Seq(S), NEW snap \in S, Len(h) \in 1 .. HistoryN + 1,
           NEW r, r = RecordSnapshot(h, snap)
    PROVE  Recorded(r, h, snap)
<1> DEFINE all == Append(h, snap)
           max == HistoryN + 1
           ring == SubSeq(all, Len(all) - max + 1, Len(all))
<1>1. max \in Nat /\ Len(h) \in Nat
  BY ReconcilerAssumption, LenProperties
<1>2. /\ all \in Seq(S) /\ Len(all) = Len(h) + 1 /\ all[Len(h) + 1] = snap
      /\ \A i \in 1 .. Len(h) : all[i] = h[i]
  BY AppendProperties
<1> HIDE DEF all
<1>3. CASE Len(all) > max
  <2>1. Len(all) = max + 1
    BY <1>1, <1>2, <1>3
  <2>2. Len(ring) = max /\ \A i \in 1 .. max : ring[i] = all[i + 1]
    <3>1. Len(all) - max + 1 = 2
      BY <1>1, <2>1
    <3>2. \A i \in 2 .. max + 1 : all[i] \in S
      BY <1>1, <1>2, <2>1, ElementOfSeq
    <3>3. /\ Len(SubSeq(all, 2, max + 1)) = max
          /\ \A i \in 1 .. max : SubSeq(all, 2, max + 1)[i] = all[2 + i - 1]
      BY <1>1, <3>2, SubSeqProperties, SMT
    <3>4. \A i \in 1 .. max : 2 + i - 1 = i + 1
      OBVIOUS
    <3> QED
      BY Zenon, <2>1, <3>1, <3>3, <3>4
  <2>3. r = ring
    BY Zenon, <1>3 DEF RecordSnapshot, all
  <2> HIDE DEF ring
  <2> QED
    BY <1>1, <1>2, <2>1, <2>2, <2>3 DEF Recorded
<1>4. CASE ~(Len(all) > max)
  <2>1. r = all
    BY <1>4 DEF RecordSnapshot, all
  <2> QED
    BY <1>1, <1>2, <1>4, <2>1 DEF Recorded
<1> QED
  BY <1>3, <1>4

\* Nothing is queued at the start.
LEMMA ChangeInit == Init => ChangeInv
<1> SUFFICES ASSUME Init PROVE ChangeInv
  OBVIOUS
<1>1. PICK c \in Acceptable, walk \in Walks, restored \in {FALSE, BootstrapOn} :
        Booted(c, walk, restored)
  BY Zenon DEF Init
<1>2. c \in FieldConfigs
  <2>1. Loaded(c)
    BY Zenon, <1>1 DEF Booted
  <2> QED
    BY Zenon, <2>1, ReconcilerAssumption DEF Loaded, FieldConfigs, ValuesOf
<1>3. /\ observed = c /\ lastGood = c /\ ~pin.on /\ queue = <<>>
      /\ applied = [f \in Fields |-> VersionOf(c[f])]
      /\ history = <<[version |-> 1, config |-> c, fields |-> {}, applied |-> applied]>>
  BY Zenon, <1>1 DEF Booted, Unpinned
<1>4. [version |-> 1, config |-> c, fields |-> {}, applied |-> applied] \in Described
  <2>1. applied \in [Fields -> Versions] /\ c \in Configs
    BY Zenon, <1>3, InitType DEF TypeOK
  <2>2. [version |-> 1, config |-> c, fields |-> {}, applied |-> applied] \in Snapshots
    BY Zenon, <2>1 DEF Snapshots
  <2> QED
    BY Zenon, <2>2, <1>2, <1>3 DEF Described
<1> QED
  BY <1>2, <1>3, <1>4 DEF ChangeInv

\* What is observed stays a configuration of each field's own values.
LEMMA ObservedOwn ==
    ASSUME TypeOK, observed \in FieldConfigs, [Next]_vars
    PROVE  observed' \in FieldConfigs
<1>1. observed' \in Configs
  BY Zenon, NextType DEF TypeOK
<1>2. ASSUME NEW f \in Fields, NEW p \in Positions(f), NEW r \in Answers, Update(f, p, r)
      PROVE  observed' \in FieldConfigs
  <2>1. PICK w : observed' = [observed EXCEPT ![f] = Observe(observed, f, w)]
    BY Zenon, <1>2 DEF Update, RecordSourceUpdate
  <2>2. Observe(observed, f, w) \in ValuesOf(f)
    BY ObserveOwn
  <2> QED
    BY <1>1, <2>1, <2>2 DEF FieldConfigs, Configs
<1>3. ASSUME NEW walk \in Walks, Refresh(walk)
      PROVE  observed' \in FieldConfigs
  <2> DEFINE w == [f \in Fields |->
                     RecomputeWinner([g \in Fields |->
                                        MergeSources(sources[g], walk[g])][f])]
  <2>1. observed' = [f \in Fields |-> Observe(observed, f, w[f])]
    BY Zenon, <1>3 DEF Refresh
  <2> HIDE DEF w
  <2>2. \A f \in Fields : observed'[f] \in ValuesOf(f)
    BY <2>1, ObserveOwn
  <2> QED
    BY <1>1, <2>2 DEF FieldConfigs
<1>4. CASE UNCHANGED observed
  BY <1>4
<1> QED
  BY Zenon, <1>2, <1>3, <1>4 DEF Next, UpdatesClosed, TimerFires, ContextDone, PinCurrent,
     PinAt, Unpin, Deliver, vars, engineVars

\* Unpin's coalesced diff is exact.
LEMMA UnpinExact ==
    ASSUME Versioned, EngineInv, ChangeInv, pin.on
    PROVE  DiffApplied(pin.applied, applied, pin.config, lastGood)
             = Differing(pin.config, lastGood)
  BY Zenon, DiffExact DEF EngineInv, AppliedDescribesLastGood, ChangeInv

\* Every step keeps the version maps true and the queued changes exact.
LEMMA ChangeNext ==
    ASSUME Versioned
    PROVE  ChangeInv /\ EngineInv /\ [Next]_vars => ChangeInv'
<1> SUFFICES ASSUME ChangeInv, EngineInv, [Next]_vars PROVE ChangeInv'
  OBVIOUS
<1>1. observed' \in FieldConfigs
  BY ObservedOwn DEF ChangeInv, EngineInv
<1>2. CASE UNCHANGED <<lastGood, history, pin, queue>>
  BY Zenon, <1>1, <1>2 DEF ChangeInv
<1>3. ASSUME NEW obs \in Configs, Taken(obs), observed' = obs,
             \A f \in Fields : obs[f] = NoValue => observed[f] = NoValue
      PROVE  ChangeInv'
  <2> DEFINE fields == CandidateFields(obs)
             snap == [version |-> version + 1, config |-> obs,
                      fields |-> fields, applied |-> Advance(obs)]
             ev == [old |-> lastGood, new |-> obs, fields |-> fields]
  <2>1. obs \in FieldConfigs
    BY Zenon, <1>1, <1>3
  <2>2. \A f \in Fields : obs[f] = NoValue => lastGood[f] = NoValue
    BY <1>3 DEF EngineInv
  <2>3. fields = Differing(lastGood, obs)
    BY Zenon, <2>1, <2>2, CandidateExact DEF ChangeInv
  <2>4. fields \in SUBSET (Fields \cup {Derived})
    BY Zenon DEF CandidateFields, DerivedFieldChanges, Unapplied
  <2>5. /\ lastGood' = obs /\ pin' = pin /\ history' = RecordSnapshot(history, snap)
        /\ Publish(obs, fields)
    BY Zenon, <1>3 DEF Taken
  <2>6. snap \in Described
    <3>1. Advance(obs) \in [Fields -> Versions]
      BY Zenon, VersionType DEF Advance, EngineInv, TypeOK, Configs
    <3>2. snap \in Snapshots
      BY <2>4, <3>1 DEF Snapshots, EngineInv, TypeOK
    <3>3. \A f \in Fields : Advance(obs)[f] = VersionOf(obs[f])
      BY Zenon, <2>2 DEF Advance, EngineInv, AppliedDescribesLastGood
    <3> QED
      BY Zenon, <3>2, <3>3, <2>1 DEF Described
  <2>7. ev \in ExactChanges
    <3>1. ev \in Changes
      BY Zenon, <2>4 DEF Changes, EngineInv, TypeOK
    <3> QED
      BY Zenon, <3>1, <2>3 DEF ExactChanges
  <2> HIDE DEF snap, ev, fields
  <2>8. history' \in Seq(Described)
    BY Zenon, <2>5, <2>6, RecordInSeq DEF ChangeInv
  <2>9. queue' \in Seq(ExactChanges)
    <3>1. Enqueue(queue, ev) \in Seq(ExactChanges)
      BY Zenon, <2>7, EnqueueInSeq DEF ChangeInv
    <3> QED
      BY Zenon, <2>5, <3>1 DEF Publish, ChangeInv, ev
  <2> QED
    BY Zenon, <1>1, <2>1, <2>5, <2>8, <2>9 DEF ChangeInv
<1>4. CASE PinCurrent
  <2>1. UNCHANGED <<lastGood, history, queue>> /\ pin' = Served
    BY <1>4 DEF PinCurrent
  <2>2. CASE pin.on
    <3>1. pin' = pin
      BY <2>1, <2>2 DEF Served
    <3> QED
      BY <1>2, <2>1, <3>1
  <2>3. CASE ~pin.on
    <3>1. pin'.config = lastGood /\ pin'.applied = applied
      BY Zenon, <2>1, <2>3 DEF Served
    <3> QED
      BY Zenon, <1>1, <2>1, <3>1 DEF ChangeInv, EngineInv, AppliedDescribesLastGood
  <2> QED
    BY <2>2, <2>3
<1>5. ASSUME NEW i \in DOMAIN history, PinAt(i)
      PROVE  ChangeInv'
  <2>1. /\ UNCHANGED <<lastGood, history, queue>>
        /\ pin'.config = history[i].config /\ pin'.applied = history[i].applied
    BY Zenon, <1>5 DEF PinAt, Baseline
  <2>2. history[i] \in Described
    BY Zenon, ElementOfSeq, LenProperties DEF ChangeInv
  <2> QED
    BY Zenon, <1>1, <2>1, <2>2 DEF ChangeInv, Described
<1>6. CASE Unpin
  <2> DEFINE fields == DiffApplied(pin.applied, applied, pin.config, lastGood)
             ev == [old |-> pin.config, new |-> lastGood, fields |-> fields]
  <2>1. /\ UNCHANGED <<lastGood, history>> /\ ~pin'.on /\ pin.on
        /\ queue' = IF fields = {} THEN queue ELSE Enqueue(queue, ev)
    BY Zenon, <1>6 DEF Unpin, Unpinned
  <2>2. ev \in ExactChanges
    <3>1. fields = Differing(pin.config, lastGood)
      BY Zenon, <2>1, UnpinExact
    <3>2. fields \in SUBSET (Fields \cup {Derived})
      BY DEF DiffApplied, DerivedFieldChanges
    <3>3. pin.config \in Configs
      BY Zenon, <2>1 DEF ChangeInv, FieldConfigs
    <3>4. ev \in Changes
      BY Zenon, <3>2, <3>3 DEF Changes, EngineInv, TypeOK
    <3> QED
      BY Zenon, <3>1, <3>4 DEF ExactChanges
  <2> HIDE DEF ev, fields
  <2>3. queue' \in Seq(ExactChanges)
    BY Zenon, <2>1, <2>2, EnqueueInSeq DEF ChangeInv
  <2> QED
    BY Zenon, <1>1, <2>1, <2>3 DEF ChangeInv
<1>7. CASE Deliver
  <2>1. UNCHANGED <<lastGood, history, pin>> /\ queue # <<>> /\ queue' = Tail(queue)
    BY <1>7 DEF Deliver
  <2>2. queue' \in Seq(ExactChanges)
    BY Zenon, <2>1, HeadTailProperties DEF ChangeInv
  <2> QED
    BY Zenon, <1>1, <2>1, <2>2 DEF ChangeInv
<1>8. CASE UpdatesClosed \/ ContextDone \/ UNCHANGED vars
  BY Zenon, <1>2, <1>8 DEF UpdatesClosed, ContextDone, vars, snapVars
<1>9. ASSUME NEW f \in Fields, NEW p \in Positions(f), NEW r \in Answers, Update(f, p, r)
      PROVE  ChangeInv'
  BY Zenon, <1>2, <1>9 DEF Update, RecordSourceUpdate, snapVars
<1>10. ASSUME NEW obs \in Configs, NEW blk \in SUBSET Fields, Flushes(obs, blk)
      PROVE  ChangeInv'
  BY Zenon, <1>2, <1>3, <1>10 DEF Flushes, Kept
<1>11. CASE TimerFires
  BY Zenon, <1>10, <1>11, TimerFlushes DEF EngineInv, TypeOK
<1>12. ASSUME NEW walk \in Walks, Refresh(walk)
       PROVE  ChangeInv'
  BY Zenon, <1>10, <1>12, RefreshFlushes DEF EngineInv
<1> QED
  BY Zenon, <1>4, <1>5, <1>6, <1>7, <1>8, <1>9, <1>11, <1>12 DEF Next

\* Change.Fields is exact, for flushed changes and for the one Unpin coalesces, with
\* any number of fields, defaults, pins and refused candidates in between.
THEOREM ChangesAreExact ==
    ASSUME Versioned
    PROVE  Spec => []ChangeFieldsExact
<1>1. ChangeInv => ChangeFieldsExact
  <2> SUFFICES ASSUME ChangeInv, NEW i \in DOMAIN queue
               PROVE  queue[i].fields = Differing(queue[i].old, queue[i].new)
    BY DEF ChangeFieldsExact
  <2>1. queue[i] \in ExactChanges
    BY Zenon, ElementOfSeq, LenProperties DEF ChangeInv
  <2> QED
    BY <2>1 DEF ExactChanges
<1>2. ChangeInv /\ EngineInv /\ [Next]_vars => ChangeInv'
  BY ChangeNext
<1> QED
  BY <1>1, <1>2, EngineInit, EngineNext, ChangeInit, PTL DEF Spec

\* Drop-oldest never drops the change being queued.
LEMMA EnqueueLast ==
    ASSUME NEW S, NEW q \in Seq(S), NEW ev \in S
    PROVE  Enqueue(q, ev) # <<>> /\ Enqueue(q, ev)[Len(Enqueue(q, ev))] = ev
<1>1. ASSUME NEW t \in Seq(S)
      PROVE  Append(t, ev) # <<>> /\ Append(t, ev)[Len(Append(t, ev))] = ev
  BY AppendProperties, LenProperties
<1>2. CASE Len(q) < QueueDepth
  BY <1>1, <1>2 DEF Enqueue
<1>3. CASE ~(Len(q) < QueueDepth)
  <2>1. q # <<>>
    BY <1>3, EmptySeq, LenProperties, ReconcilerAssumption
  <2>2. Tail(q) \in Seq(S)
    BY <2>1, HeadTailProperties
  <2> QED
    BY Zenon, <1>1, <1>3, <2>2 DEF Enqueue
<1> QED
  BY <1>2, <1>3

\* The newest queued change leads from what Get returned to what it returns.
Announced == /\ queue' # <<>>
             /\ queue'[Len(queue')].old = cfg
             /\ queue'[Len(queue')].new = cfg'

\* A step that moves Get and leaves no pin queues a change to where it moved.
LEMMA MoveAnnounced ==
    ASSUME Versioned, ServeInv, EngineInv, ChangeInv, [Next]_vars, cfg' # cfg, ~pin'.on
    PROVE  Announced
<1>1. ASSUME NEW obs \in Configs, Taken(obs)
      PROVE  Announced
  <2> DEFINE fields == CandidateFields(obs)
             ev == [old |-> lastGood, new |-> obs, fields |-> fields]
  <2>1. ~pin.on /\ cfg' = obs /\ queue' = Enqueue(queue, ev)
    BY Zenon, <1>1 DEF Taken, Publish
  <2>2. cfg = lastGood
    BY Zenon, <2>1 DEF ServeInv
  <2>3. fields \in SUBSET (Fields \cup {Derived})
    BY Zenon DEF CandidateFields, DerivedFieldChanges, Unapplied
  <2>4. ev \in Changes
    BY Zenon, <2>3 DEF Changes, EngineInv, TypeOK
  <2>5. ev.old = lastGood /\ ev.new = obs
    OBVIOUS
  <2> HIDE DEF ev
  <2>6. Enqueue(queue, ev) # <<>> /\ Enqueue(queue, ev)[Len(Enqueue(queue, ev))] = ev
    BY <2>4, EnqueueLast DEF EngineInv, TypeOK
  <2> QED
    BY Zenon, <2>1, <2>2, <2>5, <2>6 DEF Announced
<1>2. CASE Unpin
  <2> DEFINE fields == DiffApplied(pin.applied, applied, pin.config, lastGood)
             ev == [old |-> pin.config, new |-> lastGood, fields |-> fields]
  <2>1. pin.on /\ cfg' = lastGood /\ cfg = pin.config
        /\ queue' = IF fields = {} THEN queue ELSE Enqueue(queue, ev)
    BY Zenon, <1>2 DEF Unpin, ServeInv
  <2>2. fields = Differing(pin.config, lastGood)
    BY Zenon, <2>1, UnpinExact
  <2>3. fields # {}
    <3>1. \E f \in Fields : pin.config[f] # lastGood[f]
      <4>1. pin.config \in Configs /\ lastGood \in Configs
        BY Zenon, <2>1 DEF ChangeInv, FieldConfigs
      <4> QED
        BY <4>1, <2>1 DEF Configs
    <3> QED
      BY <2>2, <3>1 DEF Differing
  <2>4. ev \in Changes
    <3>1. fields \in SUBSET (Fields \cup {Derived})
      BY Zenon DEF DiffApplied, DerivedFieldChanges
    <3>2. pin.config \in Configs
      BY Zenon, <2>1 DEF ChangeInv, FieldConfigs
    <3> QED
      BY Zenon, <3>1, <3>2 DEF Changes, EngineInv, TypeOK
  <2>5. ev.old = pin.config /\ ev.new = lastGood
    OBVIOUS
  <2> HIDE DEF ev, fields
  <2>6. Enqueue(queue, ev) # <<>> /\ Enqueue(queue, ev)[Len(Enqueue(queue, ev))] = ev
    BY <2>4, EnqueueLast DEF EngineInv, TypeOK
  <2> QED
    BY Zenon, <2>1, <2>3, <2>5, <2>6 DEF Announced
<1>3. CASE PinCurrent
  <2>1. Served.on
    BY Zenon DEF Served
  <2> QED
    BY <1>3, <2>1 DEF PinCurrent
<1>4. ASSUME NEW i \in DOMAIN history, PinAt(i)
      PROVE  FALSE
  BY Zenon, <1>4 DEF PinAt
<1>5. ASSUME NEW obs \in Configs, NEW blk \in SUBSET Fields, Flushes(obs, blk)
      PROVE  Announced
  BY Zenon, <1>1, <1>5 DEF Flushes, Kept
<1>6. CASE TimerFires
  BY Zenon, <1>5, <1>6, TimerFlushes DEF EngineInv, TypeOK
<1>7. ASSUME NEW walk \in Walks, Refresh(walk)
      PROVE  Announced
  BY Zenon, <1>5, <1>7, RefreshFlushes DEF EngineInv
<1>8. CASE UNCHANGED cfg
  BY <1>8
<1>9. ASSUME NEW f \in Fields, NEW p \in Positions(f), NEW r \in Answers, Update(f, p, r)
      PROVE  UNCHANGED cfg
  BY Zenon, <1>9 DEF Update, RecordSourceUpdate, snapVars
<1>10. CASE UpdatesClosed \/ ContextDone \/ Deliver \/ UNCHANGED vars
  BY Zenon, <1>8, <1>10 DEF UpdatesClosed, ContextDone, Deliver, vars, snapVars
<1> QED
  BY <1>2, <1>3, <1>4, <1>6, <1>7, <1>8, <1>9, <1>10 DEF Next

\* OnChange hears of every move of Get that is not a pin, the one an Unpin makes
\* after any number of hidden applies included.
THEOREM MovesAreAnnounced ==
    ASSUME Versioned
    PROVE  Spec => EveryMoveAnnounced
<1>1. ServeInv /\ EngineInv /\ ChangeInv /\ [Next]_vars =>
        [cfg' # cfg /\ ~pin'.on
           => /\ queue' # <<>>
              /\ queue'[Len(queue')].old = cfg
              /\ queue'[Len(queue')].new = cfg']_vars
  BY Zenon, MoveAnnounced DEF Announced
<1>2. ChangeInv /\ EngineInv /\ [Next]_vars => ChangeInv'
  BY ChangeNext
<1> QED
  BY <1>1, <1>2, EngineInit, EngineNext, ServeInit, ServeNext, ChangeInit, PTL
     DEF Spec, EveryMoveAnnounced

\* Once nothing is blocked, due or refused, what is applied is what was observed:
\* no change is lost between the watches and the application.
THEOREM SettledApplies ==
    ASSUME Versioned
    PROVE  Spec => []SettledIsApplied
<1>1. ChangeInv /\ EngineInv => SettledIsApplied
  <2> SUFFICES ASSUME ChangeInv, EngineInv, Unapplied(observed, applied) = {}
               PROVE  lastGood = observed
    BY DEF SettledIsApplied, EngineInv, NoStrandedChange
  <2>1. ASSUME NEW f \in Fields PROVE lastGood[f] = observed[f]
    <3>1. applied[f] = VersionOf(lastGood[f])
      BY Zenon DEF EngineInv, AppliedDescribesLastGood
    <3>2. observed[f] = NoValue \/ applied[f] = VersionOf(observed[f])
      BY Zenon DEF Unapplied
    <3>3. observed[f] \in ValuesOf(f) /\ lastGood[f] \in ValuesOf(f)
      BY Zenon DEF ChangeInv, FieldConfigs
    <3> QED
      BY Zenon, <3>1, <3>2, <3>3 DEF Versioned, EngineInv
  <2>2. lastGood \in Configs /\ observed \in Configs
    BY Zenon DEF ChangeInv, FieldConfigs
  <2> QED
    BY <2>1, <2>2 DEF Configs
<1>2. ChangeInv /\ EngineInv /\ [Next]_vars => ChangeInv'
  BY ChangeNext
<1> QED
  BY <1>1, <1>2, EngineInit, EngineNext, ChangeInit, PTL DEF Spec

-----------------------------------------------------------------------------
(* The history *)

\* A flush that applies puts its snapshot, with exactly what it changed, at the end of
\* the ring.
LEMMA TakenRecorded ==
    ASSUME Versioned, EngineInv, ServeInv, ChangeInv, ChangeInv', HistoryIsTheAppliedPast,
           NEW obs \in Configs, Taken(obs),
           \A f \in Fields : obs[f] = NoValue => observed[f] = NoValue
    PROVE  HistoryIsTheAppliedPast'
<1> DEFINE fields == CandidateFields(obs)
           snap == [version |-> version + 1, config |-> obs,
                    fields |-> fields, applied |-> Advance(obs)]
<1>1. /\ lastGood' = obs /\ version' = version + 1
      /\ history' = RecordSnapshot(history, snap)
  BY Zenon DEF Taken
<1>2. obs \in FieldConfigs /\ lastGood \in FieldConfigs
  BY Zenon, <1>1 DEF ChangeInv
<1>3. \A f \in Fields : obs[f] = NoValue => lastGood[f] = NoValue
  BY Zenon DEF EngineInv
<1>4. snap.fields = Differing(lastGood, obs)
  BY Zenon, <1>2, <1>3, CandidateExact
<1>5. snap.version = version + 1 /\ snap.config = obs
  OBVIOUS
<1> HIDE DEF snap
<1> DEFINE all == Described \cup {snap}
<1>6. history \in Seq(all)
  BY Zenon, SeqWiden DEF ChangeInv
<1> HIDE DEF all
<1>0. snap \in all
  BY Zenon DEF all
<1>7. Len(history) \in 1 .. HistoryN + 1
  BY Zenon DEF HistoryIsTheAppliedPast
<1>8. /\ Len(history') \in 1 .. HistoryN + 1 /\ history'[Len(history')] = snap
      /\ \E d \in {0, 1} : /\ Len(history) = Len(history') - 1 + d
                           /\ \A i \in 1 .. Len(history') - 1 : history'[i] = history[i + d]
  <2>1. Recorded(history', history, snap)
    BY Zenon, <1>0, <1>1, <1>6, <1>7, RecordRing
  <2> QED
    BY Zenon, <2>1 DEF Recorded
<1>9. PICK d \in {0, 1} : /\ Len(history) = Len(history') - 1 + d
                         /\ \A i \in 1 .. Len(history') - 1 : history'[i] = history[i + d]
  BY Zenon, <1>8
<1>10. ASSUME NEW i \in 1 .. Len(history') - 1
       PROVE  /\ history'[i + 1].version = history'[i].version + 1
              /\ history'[i + 1].fields = Differing(history'[i].config, history'[i + 1].config)
  <2>1. history'[i] = history[i + d] /\ Len(history') \in Nat /\ Len(history) \in Nat
    BY <1>7, <1>8, <1>9, ReconcilerAssumption
  <2>2. CASE i = Len(history') - 1
    <3>1. i + d = Len(history) /\ i + 1 = Len(history')
      BY <1>9, <2>1, <2>2
    <3>2. history'[i].version = version /\ history'[i].config = lastGood
      BY Zenon, <2>1, <3>1 DEF HistoryIsTheAppliedPast
    <3> QED
      BY Zenon, <1>4, <1>5, <1>8, <3>1, <3>2
  <2>3. CASE i # Len(history') - 1
    <3>1. /\ i + d \in 1 .. Len(history) - 1 /\ i + 1 \in 1 .. Len(history') - 1
          /\ (i + 1) + d = (i + d) + 1
      BY Zenon, <1>9, <2>1, <2>3, Shifted
    <3>2. history'[i + 1] = history[(i + d) + 1]
      BY <1>9, <3>1
    <3> QED
      BY Zenon, <2>1, <3>1, <3>2 DEF HistoryIsTheAppliedPast
  <2> QED
    BY Zenon, <2>2, <2>3
<1> QED
  BY Zenon, <1>1, <1>5, <1>8, <1>10 DEF HistoryIsTheAppliedPast

\* Every step keeps the history: a flush that applies extends it, nothing else
\* touches it.
LEMMA HistoryNext ==
    ASSUME Versioned, EngineInv, ServeInv, ChangeInv, HistoryIsTheAppliedPast, [Next]_vars
    PROVE  HistoryIsTheAppliedPast'
<1>1. CASE UNCHANGED <<history, version, lastGood>>
  BY Zenon, <1>1 DEF HistoryIsTheAppliedPast
<1>2. ASSUME NEW obs \in Configs, NEW blk \in SUBSET Fields, Flushes(obs, blk)
      PROVE  HistoryIsTheAppliedPast'
  <2>1. ChangeInv'
    BY Zenon, ChangeNext
  <2>2. CASE Kept(obs, blk)
    BY <1>1, <2>2 DEF Kept
  <2>3. CASE Taken(obs)
    BY Zenon, <1>2, <2>1, <2>3, TakenRecorded DEF Flushes
  <2> QED
    BY Zenon, <1>2, <2>2, <2>3 DEF Flushes
<1>3. ASSUME NEW f \in Fields, NEW p \in Positions(f), NEW r \in Answers, Update(f, p, r)
      PROVE  HistoryIsTheAppliedPast'
  BY Zenon, <1>1, <1>3 DEF Update, RecordSourceUpdate, snapVars
<1>4. TypeOK /\ \A f \in blocked : OnFail[f] = "fail"
  BY DEF EngineInv
<1> QED
  BY Zenon, <1>1, <1>2, <1>3, <1>4, StepCases DEF Aside

\* For any bound on the history: what History lists is the unbroken run of applied
\* configurations that ends with the live one, each naming exactly what it changed,
\* through refused candidates, pins and evictions (recordSnapshot).
THEOREM HistoryIsTrue ==
    ASSUME Versioned
    PROVE  Spec => []HistoryIsTheAppliedPast
<1>1. Init => HistoryIsTheAppliedPast
  <2> SUFFICES ASSUME Init PROVE HistoryIsTheAppliedPast
    OBVIOUS
  <2>1. PICK c \in Acceptable, walk \in Walks, restored \in {FALSE, BootstrapOn} :
           Booted(c, walk, restored)
    BY Zenon DEF Init
  <2>2. /\ history = <<[version |-> 1, config |-> c, fields |-> {}, applied |-> applied]>>
        /\ version = 1 /\ lastGood = c
    BY Zenon, <2>1 DEF Booted
  <2>3. HistoryN \in Nat
    BY Zenon, ReconcilerAssumption
  <2> QED
    BY <2>2, <2>3 DEF HistoryIsTheAppliedPast
<1>2. /\ ChangeInv /\ EngineInv /\ [Next]_vars => ChangeInv'
      /\ EngineInv /\ ServeInv /\ ChangeInv /\ HistoryIsTheAppliedPast /\ [Next]_vars
            => HistoryIsTheAppliedPast'
  BY ChangeNext, HistoryNext
<1> QED
  BY <1>1, <1>2, EngineInit, EngineNext, ServeInit, ServeNext, ChangeInit, PTL DEF Spec
=============================================================================
