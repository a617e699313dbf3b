----------------------------- MODULE LoadProofs -----------------------------
(***************************************************************************)
(* Proofs about Load, for every struct, policy, set of values, assignment  *)
(* of fields to schemes and validator: the snapshot file, what Status      *)
(* tells of it, the fallbacks of a load, and what Doctor foretells.        *)
(***************************************************************************)
EXTENDS Load, WellFoundedInduction, TLAPS

Phases == {"down", "resolving", "gates", "persisting", "renaming", "starting", "up"}

\* What the proofs need of a running engine's types.
Typed ==
    /\ DOMAIN sources = Fields
    /\ \A f \in Fields : sources[f] \in [Positions(f) -> Answers \cup {"unseen"}]
    /\ observed \in Configs /\ version \in Nat /\ unconfirmed \subseteq Fields

\* The file: whatever Status calls present is a snapshot of this struct, what a load
\* writes is what it starts the engine on, and a running engine keeps the file equal
\* to what it serves from then on.
FileInv ==
    /\ phase \in Phases /\ origin \in [restored : BOOLEAN, present : BOOLEAN]
    /\ disk \in Configs \cup {NoConfig}
    /\ origin.present => disk \in Configs /\ foreign = FALSE
    /\ phase = "down" => ~origin.present
    /\ phase \in {"persisting", "renaming", "starting"} => got \in Acceptable
    /\ phase \in {"persisting", "renaming"} => ~origin.restored
    /\ phase = "renaming" => temp = got
    /\ phase = "starting" /\ ~origin.restored /\ origin.present => disk = got
    /\ phase = "up" => Typed
    /\ phase = "up" /\ ~origin.restored =>
          /\ unconfirmed = {}
          /\ origin.present => disk = lastGood

\* The backends of restored fields: one that has not answered since the start is
\* still awaited, because its chain ends in an error or nothing was heard of it.
Silent(f) == f \in Single /\ \A p \in Positions(f) : sources[f][p] = "unseen"

HeardInv ==
    phase = "up" =>
        /\ unheard \subseteq unconfirmed
        /\ \A f \in unheard : Errs(f, RecomputeWinner(sources[f])) \/ Silent(f)

\* What field f got from the answers seen of its chain is what FallbackIsDeserved asks.
Deserved(f, seen, v) ==
    \/ \E p \in Positions(f) :
          seen[p] = v /\ \A q \in 1 .. p - 1 : seen[q] = "absent"
    \/ (\A p \in Positions(f) : seen[p] = "absent") /\ f \in Tolerated
    \/ (\E p \in Positions(f) : seen[p] \in Errors) /\ OnFail[f] = "default"

\* A load under way: every single-ref field was asked, is in line or belongs to a
\* scheme not reached, and what was asked was settled as it deserved.
ResolveInv ==
    /\ DOMAIN asked = Fields
    /\ failed # "none" => phase = "down" /\ DoctorForetells
    /\ phase = "resolving" =>
          /\ DOMAIN got = Fields
          /\ schemes \subseteq {FieldScheme[f] : f \in Single} /\ line \subseteq Fields
          /\ \A f \in Single :
                asked[f] = NothingAsked[f] => FieldScheme[f] \in schemes \/ f \in line
          /\ \A f \in Fields : asked[f] # NothingAsked[f] => Deserved(f, asked[f], got[f])
    /\ FallbackIsDeserved

-----------------------------------------------------------------------------
(* Walks of a chain *)

\* A nonempty set of numbers has a least one.
LEMMA LeastNat ==
    ASSUME NEW T \in SUBSET Nat, T # {}
    PROVE  \E m \in T : \A n \in T : m <= n
<1> DEFINE R == OpToRel(<, Nat)
<1>1. IsWellFoundedOn(R, Nat)
  BY Zenon, NatLessThanWellFounded
<1>2. \A x, y \in Nat : x < y => <<x, y>> \in R
  BY DEF OpToRel
<1> HIDE DEF R
<1>3. \E m \in T : \A y \in T : ~(<<y, m>> \in R)
  BY <1>1, WFMin, Zenon
<1>4. PICK m \in T : \A y \in T : ~(<<y, m>> \in R)
  BY <1>3
<1>5. \A n \in T : ~(n < m)
  BY <1>2, <1>4, Zenon
<1> QED
  BY <1>5

\* resolveChain and seedChainSources ask at least the first ref.
LEMMA FirstAsked ==
    ASSUME NEW f \in Fields, NEW A, NEW a \in [Positions(f) -> A]
    PROVE  /\ SeedChainSources(a) \in [Positions(f) -> A \cup {"unseen"}]
           /\ 1 \in Positions(f) /\ SeedChainSources(a)[1] \in A
<1>1. 1 \in Positions(f) /\ Positions(f) \subseteq Nat \ {0}
  BY ReconcilerAssumption DEF Positions
<1>2. DOMAIN a = Positions(f)
  OBVIOUS
<1> QED
  BY <1>1, <1>2 DEF SeedChainSources

\* A version is not the one it follows.
LEMMA NextVersion == \A n \in Nat : n + 1 # n
OBVIOUS

-----------------------------------------------------------------------------
(* The engine's writes of the snapshot file *)

\* A walk of some chains while the process runs, at one of them.
LEMMA WatchWalkType ==
    ASSUME NEW S \in SUBSET Fields, NEW w \in WatchWalks(S), NEW f \in S
    PROVE  /\ w[f] \in [Positions(f) -> Answers \cup {"unseen"}]
           /\ 1 \in Positions(f) /\ w[f][1] \in Answers
<1>1. PICK a \in [Positions(f) -> Answers] : w[f] = SeedChainSources(a)
  BY DEF WatchWalks
<1> QED
  BY <1>1, FirstAsked

\* What a refresh sees is a walk of every chain.
LEMMA RefreshWalkType ==
    ASSUME Typed, NEW walk \in RefreshWalks
    PROVE  \A f \in Fields : walk[f] \in [Positions(f) -> Answers \cup {"unseen"}]
<1>1. PICK w \in ReportingWalks :
        walk = [f \in Fields |-> IF f \in Reporting THEN w[f] ELSE sources[f]]
  BY DEF RefreshWalks
<1>2. \A f \in Reporting : w[f] \in [Positions(f) -> Answers \cup {"unseen"}]
  BY LoadAssumption, WatchWalkType DEF ReportingWalks
<1> QED
  BY <1>1, <1>2 DEF Typed

\* Folding an outcome into a field's observed value yields a configuration value.
LEMMA ObserveType ==
    ASSUME NEW obs \in Configs, NEW f \in Fields, NEW w
    PROVE  Observe(obs, f, w) \in AllVals \cup {NoValue}
<1>1. Yield(f, w) \in AllVals \cup {NoValue}
  BY DEF Yield, AllVals
<1> QED
  BY <1>1 DEF Observe, Configs

\* A flush writes exactly when it applies, and then what it applies.
LEMMA FlushWrites ==
    ASSUME Typed, NEW obs \in Configs, NEW blk, NEW file, Flush(obs, blk, file)
    PROVE  \/ disk' = file /\ UNCHANGED <<lastGood, version>>
           \/ disk' = obs /\ lastGood' = obs /\ version' = version + 1
<1>1. CASE NothingApplied /\ disk' = file
  BY <1>1 DEF NothingApplied
<1>2. CASE ~(NothingApplied /\ disk' = file)
  <2>1. /\ version' = version + 1 /\ lastGood' = obs
        /\ \E ok \in Writes : disk' = PersistBootstrap(file, obs, ok)
    BY <1>2 DEF Flush
  <2> QED
    BY <2>1, LoadAssumption DEF PersistBootstrap
<1> QED
  BY <1>1, <1>2

\* One step of the engine writes nothing, or writes a configuration, and then the one
\* it serves unless that was the last confirmation of a restored process.
LEMMA RunWrites ==
    ASSUME Typed, Run
    PROVE  /\ Typed'
           /\ unconfirmed' \subseteq unconfirmed
           /\ \/ disk' = disk /\ lastGood' = lastGood /\ ~Wrote
              \/ disk' \in Configs /\ Wrote /\ (unconfirmed = {} => disk' = lastGood')
<1> DEFINE Conclusion ==
       /\ Typed'
       /\ unconfirmed' \subseteq unconfirmed
       /\ \/ disk' = disk /\ lastGood' = lastGood /\ ~Wrote
          \/ disk' \in Configs /\ Wrote /\ (unconfirmed = {} => disk' = lastGood')
<1>1. ASSUME NEW f \in Reporting, NEW p \in Positions(f), NEW r \in Answers, Update(f, p, r)
      PROVE  Conclusion
  <2> DEFINE w == RecomputeWinner(RecordSourceUpdate(sources[f], p, r))
             confirm == Confirms(f, w)
  <2>1. Typed'
    <3> DEFINE src == [sources[f] EXCEPT ![p] = r]
               new == Observe(observed, f, RecomputeWinner(src))
    <3>1. f \in Fields /\ new \in AllVals \cup {NoValue}
      BY LoadAssumption, ObserveType DEF Typed
    <3>2. /\ sources' = [sources EXCEPT ![f] = src]
          /\ observed' = [observed EXCEPT ![f] = new]
          /\ version' = version /\ unconfirmed' \subseteq unconfirmed
      BY <1>1 DEF Update, RecordSourceUpdate, snapVars
    <3>3. src \in [Positions(f) -> Answers \cup {"unseen"}]
      BY Zenon, <3>1 DEF Typed
    <3> HIDE DEF src, new
    <3>4. observed' \in Configs
      BY <3>1, <3>2 DEF Typed, Configs
    <3>5. /\ DOMAIN sources' = Fields
          /\ \A g \in Fields : sources'[g] \in [Positions(g) -> Answers \cup {"unseen"}]
      BY <3>1, <3>2, <3>3 DEF Typed
    <3> QED
      BY <3>2, <3>4, <3>5 DEF Typed
  <2>2. /\ unconfirmed' = IF confirm THEN unconfirmed \ {f} ELSE unconfirmed
        /\ IF confirm /\ LastConfirmed({f})
           THEN \E ok \in Writes : disk' = PersistBootstrap(disk, observed, ok)
           ELSE UNCHANGED disk
        /\ UNCHANGED <<lastGood, version>>
    BY <1>1 DEF Update, snapVars
  <2> HIDE DEF confirm
  <2>3. CASE confirm /\ LastConfirmed({f})
    <3>1. disk' = observed
      BY <2>2, <2>3, LoadAssumption DEF PersistBootstrap
    <3>2. unconfirmed # {} /\ unconfirmed' = {}
      BY <2>2, <2>3 DEF LastConfirmed
    <3> QED
      BY Zenon, <2>1, <3>1, <3>2 DEF Wrote, Typed
  <2>4. CASE ~(confirm /\ LastConfirmed({f}))
    <3>1. ~Wrote
      BY <2>2, <2>4 DEF Wrote, LastConfirmed
    <3> QED
      BY <2>1, <2>2, <2>4, <3>1
  <2> QED
    BY <2>3, <2>4
<1>2. CASE TimerFires
  <2>1. UNCHANGED <<sources, observed>>
    BY <1>2 DEF TimerFires
  <2>2. unconfirmed' = unconfirmed /\ Flush(observed, blocked, disk) /\ observed \in Configs
    BY <1>2 DEF TimerFires, Typed
  <2>3. \/ disk' = disk /\ UNCHANGED <<lastGood, version>>
        \/ disk' = observed /\ lastGood' = observed /\ version' = version + 1
    BY <2>2, FlushWrites
  <2>4. version + 1 # version /\ Typed'
    BY <2>1, <2>2, <2>3 DEF Typed
  <2> QED
    BY <2>2, <2>3, <2>4 DEF Wrote
<1>3. ASSUME NEW walk \in RefreshWalks, Refresh(walk)
      PROVE  Conclusion
  <2>1. \A f \in Fields : walk[f] \in [Positions(f) -> Answers \cup {"unseen"}]
    BY RefreshWalkType
  <2> DEFINE src == [f \in Fields |-> MergeSources(sources[f], walk[f])]
             w   == [f \in Fields |-> RecomputeWinner(src[f])]
             obs == [f \in Fields |-> Observe(observed, f, w[f])]
             blk == {f \in Fields : Blocks(f, w[f])}
             cnf == {f \in Tolerated : w[f] = "absent"}
             mid == [f \in Fields |-> IF \E g \in unconfirmed : f < g
                                      THEN obs[f] ELSE observed[f]]
  <2>2. /\ sources' = src /\ observed' = obs /\ unconfirmed' = unconfirmed \ cnf
        /\ IF LastConfirmed(cnf)
           THEN \E ok \in Writes : Flush(obs, blk, PersistBootstrap(disk, mid, ok))
           ELSE Flush(obs, blk, disk)
    BY Zenon, <1>3 DEF Refresh
  <2>3. \A f \in Fields : src[f] \in [Positions(f) -> Answers \cup {"unseen"}]
    BY <2>1 DEF MergeSources, Typed
  <2>4. obs \in Configs
    <3> HIDE DEF w
    <3> QED
      BY Zenon, ObserveType DEF Typed, Configs
  <2>5. mid \in Configs
    <3> HIDE DEF obs
    <3> QED
      BY Zenon, <2>4 DEF Typed, Configs
  <2>6. version + 1 # version /\ DOMAIN src = Fields
    BY Zenon, NextVersion DEF Typed
  <2> HIDE DEF src, obs, blk, cnf, mid
  <2>7. CASE LastConfirmed(cnf)
    <3>1. Flush(obs, blk, mid)
      BY <2>2, <2>7, LoadAssumption DEF PersistBootstrap
    <3>2. disk' \in {mid, obs} /\ version' \in {version, version + 1}
      BY <2>4, <3>1, FlushWrites
    <3>3. unconfirmed # {} /\ unconfirmed' = {}
      BY <2>2, <2>7 DEF LastConfirmed
    <3>4. Typed'
      BY <2>2, <2>3, <2>4, <2>6, <3>2, <3>3 DEF Typed
    <3> QED
      BY <2>4, <2>5, <3>2, <3>3, <3>4 DEF Wrote
  <2>8. CASE ~LastConfirmed(cnf)
    <3>1. Flush(obs, blk, disk)
      BY <2>2, <2>8
    <3>2. \/ disk' = disk /\ UNCHANGED <<lastGood, version>>
          \/ disk' = obs /\ lastGood' = obs /\ version' = version + 1
      BY <2>4, <3>1, FlushWrites
    <3>3. ~(unconfirmed # {} /\ unconfirmed' = {}) /\ unconfirmed' \subseteq unconfirmed
      BY <2>2, <2>8 DEF LastConfirmed
    <3>4. Typed'
      BY <2>2, <2>3, <2>4, <2>6, <3>2, <3>3 DEF Typed
    <3> QED
      BY <2>4, <2>6, <3>2, <3>3, <3>4 DEF Wrote
  <2> QED
    BY <2>7, <2>8
<1> QED
  BY <1>1, <1>2, <1>3 DEF Run

-----------------------------------------------------------------------------
(* The file *)

\* The engine Watch starts is well typed.
LEMMA StartType ==
    ASSUME FileInv, NEW walk \in WatchWalks(Chained), StartEngine(walk)
    PROVE  Typed'
<1>1. /\ phase = "starting"
      /\ sources' = [f \in Fields |-> IF ChainLen[f] > 1 THEN walk[f]
                                      ELSE [p \in Positions(f) |-> "unseen"]]
      /\ observed' = got /\ version' = 1
      /\ unconfirmed' = SeedBootstrapOrigin(origin.restored, got)
  BY Zenon DEF StartEngine
<1>2. observed' \in Configs /\ unconfirmed' \subseteq Fields
  BY <1>1, ReconcilerAssumption DEF FileInv, SeedBootstrapOrigin
<1>3. \A f \in Chained : walk[f] \in [Positions(f) -> Answers \cup {"unseen"}]
  BY WatchWalkType DEF Chained
<1>4. \A f \in Fields : ChainLen[f] > 1 => f \in Chained
  BY ReconcilerAssumption DEF Chained, Single
<1>5. /\ DOMAIN sources' = Fields
      /\ \A f \in Fields : sources'[f] \in [Positions(f) -> Answers \cup {"unseen"}]
  BY Zenon, <1>1, <1>3, <1>4
<1> QED
  BY <1>1, <1>2, <1>5 DEF Typed

\* No process has run and no file was written.
LEMMA FileInit == LoadInit => FileInv
  BY DEF LoadInit, FileInv, Phases

\* Every step of a load, of the engine and of the world around them keeps the file as
\* FileInv says.
LEMMA FileNext == FileInv /\ [LoadNext]_allVars => FileInv'
<1> SUFFICES ASSUME FileInv, [LoadNext]_allVars PROVE FileInv'
  OBVIOUS
<1> DEFINE Fresh == [restored |-> FALSE, present |-> FALSE]
<1>0. Fresh \in [restored : BOOLEAN, present : BOOLEAN] /\ ~Fresh.restored /\ ~Fresh.present
  OBVIOUS
<1> HIDE DEF Fresh
<1>1. ASSUME phase' = "down" \/ phase' = "resolving", origin' = Fresh, disk' = disk
      PROVE  FileInv'
  BY <1>0, <1>1 DEF FileInv, Phases
<1>2. CASE StartLoad
  BY <1>1, <1>2 DEF StartLoad, Fresh
<1>3. CASE NextGroup
  <2>1. /\ phase = "resolving" /\ phase' = "resolving"
        /\ UNCHANGED <<origin, disk, foreign>>
    BY <1>3 DEF NextGroup, fileVars
  <2> QED
    BY <2>1 DEF FileInv, Phases
<1>4. ASSUME NEW e, ResolveFails(e), disk' = disk, foreign' = foreign
      PROVE  FileInv'
  <2>1. CASE Ends(e)
    BY <1>1, <1>4, <2>1 DEF Ends, Fresh
  <2>2. CASE /\ Restorable(e) /\ phase' = "gates"
             /\ origin' = [restored |-> TRUE, present |-> TRUE]
    <3>1. disk' \in Configs /\ foreign' = FALSE
      BY <1>4, <2>2 DEF Restorable, FileInv
    <3>2. origin' \in [restored : BOOLEAN, present : BOOLEAN]
      BY <2>2
    <3> QED
      BY <2>2, <3>1, <3>2 DEF FileInv, Phases
  <2> QED
    BY Zenon, <1>4, <2>1, <2>2 DEF ResolveFails
<1>5. ASSUME phase = "resolving", phase' \in {"resolving", "gates"},
             UNCHANGED <<origin, disk, foreign>>
      PROVE  FileInv'
  BY <1>5 DEF FileInv, Phases
<1>6. CASE \E f \in line : \E walk \in ChainWalks(f) : ResolveOne(f, walk)
  <2>1. PICK f \in line : \E walk \in ChainWalks(f) : ResolveOne(f, walk)
    BY <1>6
  <2>2. PICK walk \in ChainWalks(f) : ResolveOne(f, walk)
    BY <2>1
  <2>3. phase = "resolving" /\ UNCHANGED <<disk, foreign>>
    BY <2>2 DEF ResolveOne, fileVars
  <2>4. \/ \E e : ResolveFails(e)
        \/ LineDone(line \ {f}, schemes) /\ UNCHANGED origin
    BY <2>2 DEF ResolveOne
  <2> QED
    BY Zenon, <1>4, <1>5, <2>3, <2>4 DEF LineDone
<1>7. CASE NextBatch
  <2>1. PICK s \in schemes \cap Batched :
          \/ \E answer \in [Group(s) -> Vals \cup {"absent", "refused"}] : ResolveBatch(s, answer)
          \/ \E e \in Errors \cup {"absent"} : BatchFails(s, e)
    BY <1>7 DEF NextBatch
  <2>2. phase = "resolving" /\ UNCHANGED <<disk, foreign>>
    BY <1>7 DEF NextBatch, fileVars
  <2>3. \/ \E e : ResolveFails(e)
        \/ LineDone({}, schemes \ {s}) /\ UNCHANGED origin
    BY Zenon, <2>1 DEF ResolveBatch, BatchFails
  <2> QED
    BY Zenon, <1>4, <1>5, <2>2, <2>3 DEF LineDone
<1>8. CASE PassGates
  <2>1. UNCHANGED <<disk, foreign>> /\ phase = "gates"
    BY <1>8 DEF PassGates, fileVars
  <2>2. CASE Ends("none")
    BY <1>1, <2>1, <2>2 DEF Ends, Fresh
  <2>3. CASE /\ Builds(got) /\ got' = got /\ origin' = origin
             /\ phase' = IF origin.restored THEN "starting" ELSE "persisting"
    BY <2>1, <2>3 DEF FileInv, Phases, Builds
  <2> QED
    BY Zenon, <1>8, <2>2, <2>3 DEF PassGates
<1>9. CASE PersistTemp
  <2>1. /\ phase = "persisting" /\ phase' = "renaming" /\ temp' = got
        /\ UNCHANGED <<disk, foreign, got, origin>>
    BY <1>9 DEF PersistTemp, WriteTemp, loadVars
  <2> QED
    BY <2>1 DEF FileInv, Phases
<1>10. CASE PersistRename
  <2>1. /\ phase = "renaming" /\ phase' = "starting" /\ disk' = temp /\ foreign' = FALSE
        /\ origin' = Origin(TRUE) /\ got' = got
    BY <1>10 DEF PersistRename, loadVars
  <2>2. /\ origin' \in [restored : BOOLEAN, present : BOOLEAN]
        /\ origin'.restored = origin.restored
    BY Zenon, <2>1 DEF Origin, FileInv
  <2>3. temp = got /\ got \in Acceptable /\ got \in Configs
    BY <2>1, ReconcilerAssumption DEF FileInv
  <2> QED
    BY Zenon, <2>1, <2>2, <2>3 DEF FileInv, Phases
<1>11. CASE PersistFails
  <2>1. /\ phase \in {"persisting", "renaming"} /\ phase' = "starting"
        /\ origin' = Origin(FALSE) /\ UNCHANGED <<disk, foreign, got>>
    BY <1>11 DEF PersistFails, loadVars
  <2>2. origin' \in [restored : BOOLEAN, present : BOOLEAN] /\ ~origin'.present
    BY Zenon, <2>1 DEF Origin, FileInv
  <2> QED
    BY Zenon, <2>1, <2>2 DEF FileInv, Phases
<1>12. ASSUME NEW walk \in WatchWalks(Chained), StartEngine(walk)
       PROVE  FileInv'
  <2>1. Typed'
    BY <1>12, StartType
  <2>2. /\ phase = "starting" /\ phase' = "up" /\ lastGood' = got
        /\ UNCHANGED <<disk, foreign, origin>>
        /\ unconfirmed' = SeedBootstrapOrigin(origin.restored, got)
    BY Zenon, <1>12 DEF StartEngine, fileVars
  <2>3. ~origin.restored => unconfirmed' = {}
    BY <2>2 DEF SeedBootstrapOrigin
  <2> HIDE DEF Typed
  <2> QED
    BY <2>1, <2>2, <2>3 DEF FileInv, Phases
<1>13. CASE Run
  <2>1. /\ phase = "up" /\ phase' = "up"
        /\ origin' = IF Wrote THEN Origin(TRUE) ELSE origin
        /\ foreign' = (foreign /\ ~Wrote)
    BY Zenon, <1>13 DEF Run
  <2>2. Typed
    BY <2>1 DEF FileInv
  <2>3. /\ Typed' /\ unconfirmed' \subseteq unconfirmed
        /\ \/ disk' = disk /\ lastGood' = lastGood /\ ~Wrote
           \/ disk' \in Configs /\ Wrote /\ (unconfirmed = {} => disk' = lastGood')
    BY <1>13, <2>2, RunWrites
  <2>4. /\ origin' \in [restored : BOOLEAN, present : BOOLEAN]
        /\ origin'.restored = origin.restored
        /\ ~Wrote => origin' = origin
    BY Zenon, <2>1 DEF Origin, FileInv
  <2> HIDE DEF Typed, Wrote
  <2>5. origin'.present => disk' \in Configs /\ foreign' = FALSE
    BY Zenon, <2>1, <2>3, <2>4 DEF FileInv
  <2>6. ~origin'.restored => unconfirmed' = {} /\ (origin'.present => disk' = lastGood')
    BY Zenon, <2>1, <2>3, <2>4 DEF FileInv
  <2>7. disk' \in Configs \cup {NoConfig}
    BY <2>3 DEF FileInv
  <2> QED
    BY Zenon, <2>1, <2>3, <2>4, <2>5, <2>6, <2>7 DEF FileInv, Phases
<1>14. CASE Crash
  BY <1>1, <1>14 DEF Crash, Ends, Fresh
<1>15. CASE Deploy
  <2>1. phase = "down" /\ UNCHANGED <<phase, disk, origin>>
    BY <1>15 DEF Deploy
  <2> QED
    BY <2>1 DEF FileInv
<1>16. CASE UNCHANGED allVars
  <2>1. UNCHANGED <<phase, got, origin, temp, foreign, disk, unconfirmed, lastGood,
                    sources, observed, version>>
    BY <1>16 DEF allVars, loadVars, fileVars, vars, bootVars, snapVars, engineVars
  <2>2. Typed => Typed'
    BY <2>1 DEF Typed
  <2> HIDE DEF Typed
  <2> QED
    BY <2>1, <2>2 DEF FileInv
<1> QED
  BY <1>2, <1>3, <1>6, <1>7, <1>8, <1>9, <1>10, <1>11, <1>12, <1>13, <1>14, <1>15, <1>16
     DEF LoadNext

\* No step leaves anything but the old file or a complete one.
LEMMA FileStep ==
    ASSUME FileInv, [LoadNext]_allVars
    PROVE  disk' = disk \/ disk' \in Configs
<1>1. CASE PersistRename
  <2>1. phase = "renaming" /\ disk' = temp
    BY <1>1 DEF PersistRename
  <2> QED
    BY <2>1, ReconcilerAssumption DEF FileInv
<1>2. CASE Run
  <2>1. Typed
    BY Zenon, <1>2 DEF Run, FileInv
  <2> QED
    BY <1>2, <2>1, RunWrites
<1>3. CASE \/ StartLoad \/ NextGroup \/ NextBatch \/ PassGates \/ PersistTemp
           \/ PersistFails \/ Crash \/ Deploy
           \/ \E f \in line : \E walk \in ChainWalks(f) : ResolveOne(f, walk)
           \/ \E walk \in WatchWalks(Chained) : StartEngine(walk)
  BY Zenon, <1>3 DEF StartLoad, NextGroup, NextBatch, PassGates, PersistTemp, WriteTemp,
              PersistFails, Crash, Deploy, ResolveOne, StartEngine
<1>4. CASE UNCHANGED allVars
  BY <1>4 DEF allVars, vars, bootVars
<1> QED
  BY <1>1, <1>2, <1>3, <1>4 DEF LoadNext

\* A process that resolved its configuration and knows of a file serves what is in
\* it: a restart during an outage restores exactly that.
THEOREM FileIsCurrent == LoadSpec => []DiskIsCurrent
<1>1. FileInv => DiskIsCurrent
  BY DEF FileInv, DiskIsCurrent
<1> QED
  BY <1>1, FileInit, FileNext, PTL DEF LoadSpec

\* Once there is a complete snapshot file there always is one, through crashes between
\* any two steps and writes that fail.
THEOREM FileSurvives == LoadSpec => SnapshotSurvives
<1>1. FileInv /\ [LoadNext]_allVars => [disk # NoConfig => disk' \in Configs]_allVars
  BY Zenon, FileStep DEF FileInv
<1> QED
  BY <1>1, FileInit, FileNext, PTL DEF LoadSpec, SnapshotSurvives

-----------------------------------------------------------------------------
(* What Status says of a restored process *)

\* While a report of another field, or of none, leaves chain f as it was, f stays
\* awaited; a report that confirms it is not an error, so f has been heard.
LEMMA HeardStep ==
    ASSUME Typed, HeardInv, Run, phase = "up", NEW f \in unheard',
           sources'[f] # sources[f] => f \in unconfirmed',
           sources'[f] = sources[f] =>
              f \in unconfirmed' \/ ~(Errs(f, RecomputeWinner(sources[f])) \/ Silent(f))
    PROVE  /\ f \in unconfirmed'
           /\ Errs(f, RecomputeWinner(sources'[f])) \/ Silent(f)'
<1>1. f \in unheard /\ (sources'[f] = sources[f] \/ Errs(f, RecomputeWinner(sources'[f])))
  BY Zenon DEF Run
<1>2. Errs(f, RecomputeWinner(sources[f])) \/ Silent(f)
  BY Zenon, <1>1 DEF HeardInv
<1> QED
  BY Zenon, <1>1, <1>2 DEF Silent

\* Every step of the running engine keeps the account of who has been heard.
LEMMA HeardRun ==
    ASSUME Typed, HeardInv, Run
    PROVE  HeardInv'
<1>1. /\ phase = "up" /\ phase' = "up"
      /\ unheard' = {f \in unheard : \/ sources'[f] = sources[f]
                                      \/ Errs(f, RecomputeWinner(sources'[f]))}
      /\ unheard \subseteq unconfirmed /\ unconfirmed \subseteq Fields
  BY Zenon DEF Run, HeardInv, Typed
<1>2. "unseen" \notin Answers
  BY ReconcilerAssumption DEF Answers, AllVals
<1> SUFFICES ASSUME NEW f \in unheard'
             PROVE  /\ sources'[f] # sources[f] => f \in unconfirmed'
                    /\ sources'[f] = sources[f] =>
                         \/ f \in unconfirmed'
                         \/ ~(Errs(f, RecomputeWinner(sources[f])) \/ Silent(f))
  BY Zenon, <1>1, HeardStep DEF HeardInv
<1>3. f \in unheard /\ f \in unconfirmed /\ f \in Fields
  BY <1>1
<1>4. ASSUME NEW g \in Reporting, NEW p \in Positions(g), NEW r \in Answers, Update(g, p, r)
      PROVE  /\ sources'[f] # sources[f] => f \in unconfirmed'
             /\ sources'[f] = sources[f] =>
                  \/ f \in unconfirmed'
                  \/ ~(Errs(f, RecomputeWinner(sources[f])) \/ Silent(f))
  <2> DEFINE src == [sources[g] EXCEPT ![p] = r]
             w   == RecomputeWinner(src)
  <2>1. /\ sources' = [sources EXCEPT ![g] = src]
        /\ unconfirmed' = IF ~Errs(g, w) THEN unconfirmed \ {g} ELSE unconfirmed
    BY Zenon, <1>4 DEF Update, RecordSourceUpdate, Confirms
  <2>2. g \in Fields /\ sources[g] \in [Positions(g) -> Answers \cup {"unseen"}]
    BY Zenon, LoadAssumption DEF Typed
  <2>3. src[p] = r
    BY <2>2
  <2>4. sources'[g] = src
    BY <2>1, <2>2 DEF Typed
  <2> HIDE DEF src
  <2>5. CASE f # g \/ Errs(g, w)
    BY <1>3, <2>1, <2>5
  <2>6. CASE f = g /\ ~Errs(g, w)
    <3>1. sources'[f] = src
      BY <2>4, <2>6
    <3>2. sources'[f] = sources[f]
      BY <1>1, <3>1, <2>6
    <3>3. ~Errs(f, RecomputeWinner(sources[f]))
      BY Zenon, <2>6, <3>1, <3>2
    <3>4. sources[f][p] = r
      BY <2>3, <3>1, <3>2
    <3> QED
      BY Zenon, <1>2, <2>6, <3>2, <3>3, <3>4 DEF Silent
  <2> QED
    BY Zenon, <2>5, <2>6
<1>5. CASE TimerFires
  BY <1>3, <1>5 DEF TimerFires
<1>6. ASSUME NEW walk \in RefreshWalks, Refresh(walk)
      PROVE  /\ sources'[f] # sources[f] => f \in unconfirmed'
             /\ sources'[f] = sources[f] =>
                  \/ f \in unconfirmed'
                  \/ ~(Errs(f, RecomputeWinner(sources[f])) \/ Silent(f))
  <2> DEFINE src == [g \in Fields |-> MergeSources(sources[g], walk[g])]
             cnf == {g \in Tolerated : [h \in Fields |-> RecomputeWinner(src[h])][g] = "absent"}
  <2>1. sources' = src /\ unconfirmed' = unconfirmed \ cnf
    BY Zenon, <1>6 DEF Refresh
  <2>2. f \notin unconfirmed' => f \in Tolerated /\ RecomputeWinner(sources'[f]) = "absent"
    BY Zenon, <1>3, <2>1
  <2>3. f \notin unconfirmed' => ~Errs(f, RecomputeWinner(sources'[f]))
    BY Zenon, <2>2 DEF Errs
  <2>4. PICK seen \in ReportingWalks :
          walk = [g \in Fields |-> IF g \in Reporting THEN seen[g] ELSE sources[g]]
    BY Zenon DEF RefreshWalks
  <2>5. CASE f \in Single
    <3>1. f \in Reporting /\ walk[f] = seen[f]
      BY Zenon, <1>3, <2>4, <2>5, LoadAssumption
    <3>2. 1 \in Positions(f) /\ walk[f][1] \in Answers
      BY Zenon, <3>1, LoadAssumption, WatchWalkType DEF ReportingWalks
    <3>3. DOMAIN sources[f] = Positions(f)
      BY Zenon, <1>3 DEF Typed
    <3>4. sources'[f] = MergeSources(sources[f], walk[f])
      BY Zenon, <1>3, <2>1
    <3>5. sources'[f][1] = walk[f][1]
      BY Zenon, <1>2, <3>2, <3>3, <3>4 DEF MergeSources
    <3>6. sources'[f] = sources[f] => ~Silent(f)
      BY <1>2, <3>2, <3>5 DEF Silent
    <3> QED
      BY Zenon, <1>1, <2>3, <3>6
  <2>6. CASE f \notin Single
    BY Zenon, <1>1, <2>3, <2>6 DEF Silent
  <2> QED
    BY Zenon, <2>5, <2>6
<1> QED
  BY Zenon, <1>4, <1>5, <1>6 DEF Run

\* No process runs.
LEMMA HeardInit == LoadInit => HeardInv
  BY DEF LoadInit, HeardInv

\* Every step keeps the account of who has been heard.
LEMMA HeardNext == FileInv /\ HeardInv /\ [LoadNext]_allVars => HeardInv'
<1> SUFFICES ASSUME FileInv, HeardInv, [LoadNext]_allVars PROVE HeardInv'
  OBVIOUS
<1>1. ASSUME NEW walk \in WatchWalks(Chained), StartEngine(walk)
      PROVE  HeardInv'
  <2>1. /\ unconfirmed' = SeedBootstrapOrigin(origin.restored, got)
        /\ unheard' = {f \in Fields :
                         /\ origin.restored
                         /\ got[f] # NoValue /\ VersionOf(got[f]) # DefaultVersion
                         /\ f \in Chained => Errs(f, RecomputeWinner(walk[f]))}
        /\ sources' = [f \in Fields |-> IF ChainLen[f] > 1 THEN walk[f]
                                        ELSE [p \in Positions(f) |-> "unseen"]]
    BY Zenon, <1>1 DEF StartEngine
  <2>2. unheard' \subseteq unconfirmed' /\ unheard' \subseteq Fields
    BY Zenon, <2>1 DEF SeedBootstrapOrigin
  <2>3. \A f \in Chained : sources'[f] = walk[f]
    <3>1. \A f \in Chained : f \in Fields /\ ChainLen[f] > 1
      BY ReconcilerAssumption DEF Chained, Single
    <3>2. sources' = [f \in Fields |-> IF ChainLen[f] > 1 THEN walk[f]
                                       ELSE [p \in Positions(f) |-> "unseen"]]
      BY Zenon, <2>1
    <3> QED
      BY <3>1, <3>2
  <2>4. \A f \in Single : Silent(f)'
    BY <2>1 DEF Single, Silent
  <2>5. \A f \in unheard' : Errs(f, RecomputeWinner(sources'[f])) \/ Silent(f)'
    BY Zenon, <2>1, <2>2, <2>3, <2>4 DEF Chained
  <2> QED
    BY <2>2, <2>5 DEF HeardInv
<1>2. CASE Run
  <2>1. Typed
    BY Zenon, <1>2 DEF Run, FileInv
  <2> QED
    BY <1>2, <2>1, HeardRun
<1>3. CASE \/ StartLoad \/ NextGroup \/ NextBatch \/ PassGates \/ PersistTemp \/ PersistRename
           \/ PersistFails \/ Crash \/ Deploy
           \/ \E f \in line : \E walk \in ChainWalks(f) : ResolveOne(f, walk)
  <2>1. phase' # "up"
    BY Zenon, <1>3 DEF StartLoad, NextGroup, NextBatch, ResolveBatch, BatchFails, ResolveFails, Ends,
                LineDone, PassGates, PersistTemp, PersistRename, PersistFails, Crash, Deploy,
                ResolveOne
  <2> QED
    BY Zenon, <2>1 DEF HeardInv
<1>4. CASE UNCHANGED allVars
  <2>1. UNCHANGED <<phase, unheard, unconfirmed, sources>>
    BY <1>4 DEF allVars, vars, bootVars, engineVars
  <2> QED
    BY Zenon, <2>1 DEF HeardInv, Silent
<1> QED
  BY <1>1, <1>2, <1>3, <1>4 DEF LoadNext

\* Status tells the truth about the snapshot and about where the configuration comes
\* from, through failed writes, crashes, and deploys of another struct.
THEOREM StatusTells == LoadSpec => []StatusIsTrue
<1>1. FileInv /\ HeardInv => StatusIsTrue
  BY Zenon, ReconcilerAssumption
     DEF FileInv, HeardInv, StatusIsTrue, BootstrapStatus, BootstrapSource
<1> QED
  BY <1>1, FileInit, FileNext, HeardInit, HeardNext, PTL DEF LoadSpec

-----------------------------------------------------------------------------
(* Walks of a chain *)

\* A walk finds nothing anywhere, or ends at its first answer that is not an absence,
\* which is then the winner.
LEMMA WalkCases ==
    ASSUME NEW f \in Fields, NEW walk \in ChainWalks(f)
    PROVE  \/ /\ RecomputeWinner(walk) = "absent"
              /\ \A p \in Positions(f) : walk[p] = "absent"
           \/ /\ RecomputeWinner(walk) \in LoadAnswers \ {"absent"}
              /\ \E p \in Positions(f) : /\ walk[p] = RecomputeWinner(walk)
                                         /\ \A q \in 1 .. p - 1 : walk[q] = "absent"
<1>1. PICK a \in [Positions(f) -> LoadAnswers] : walk = SeedChainSources(a)
  BY DEF ChainWalks
<1>2. "unseen" \notin LoadAnswers
  BY Zenon, ReconcilerAssumption DEF LoadAnswers, Errors, AllVals
<1>3. Positions(f) \subseteq Nat /\ \A p \in Positions(f) : 1 .. p - 1 \subseteq Positions(f)
  BY ReconcilerAssumption DEF Positions
<1>4. DOMAIN walk = Positions(f) /\ DOMAIN a = Positions(f)
  BY <1>1 DEF SeedChainSources
<1> DEFINE T == {p \in Positions(f) : a[p] # "absent"}
           stops == {p \in DOMAIN walk : walk[p] \notin {"unseen", "absent"}}
<1>5. CASE T = {}
  <2>1. \A p \in Positions(f) : walk[p] = "absent"
    BY <1>1, <1>4, <1>5 DEF SeedChainSources
  <2>2. stops = {}
    BY <2>1, <1>4
  <2> QED
    BY <2>1, <2>2 DEF RecomputeWinner
<1>6. CASE T # {}
  <2>1. PICK m \in T : \A n \in T : m <= n
    BY Zenon, <1>3, <1>6, LeastNat
  <2>2. \A q \in Positions(f) : q < m => a[q] = "absent"
    BY <1>3, <2>1
  <2>3. /\ walk[m] = a[m]
        /\ \A q \in Positions(f) : q < m => walk[q] = "absent"
        /\ \A q \in Positions(f) : q > m => walk[q] = "unseen"
    BY <1>1, <1>3, <1>4, <2>1, <2>2 DEF SeedChainSources
  <2>4. stops = {m}
    BY <1>2, <1>3, <1>4, <2>1, <2>3
  <2>5. RecomputeWinner(walk) = walk[m]
    <3>1. RecomputeWinner(walk) = walk[CHOOSE p \in stops : \A q \in stops : p <= q]
      BY <2>4 DEF RecomputeWinner
    <3>2. (CHOOSE p \in stops : \A q \in stops : p <= q) = m
      BY <1>3, <2>1, <2>4
    <3> QED
      BY Zenon, <3>1, <3>2
  <2>6. a[m] \in LoadAnswers \ {"absent"} /\ m \in Positions(f)
    BY <2>1
  <2>7. \A q \in 1 .. m - 1 : walk[q] = "absent"
    BY <1>3, <2>3, <2>6
  <2> QED
    BY <2>3, <2>5, <2>6, <2>7
<1> QED
  BY <1>5, <1>6

\* A batch's answer for one field is a walk of its only ref.
LEMMA OneRef ==
    ASSUME NEW f \in Single, NEW x \in LoadAnswers
    PROVE  /\ <<x>> \in ChainWalks(f)
           /\ RecomputeWinner(<<x>>) = x
<1>1. Positions(f) = {1} /\ f \in Fields
  BY DEF Single, Positions
<1> DEFINE a == <<x>>
<1>2. a \in [Positions(f) -> LoadAnswers]
  <2>1. Positions(f) = 1 .. 1
    BY DEF Single, Positions
  <2> QED
    BY <2>1
<1>3. SeedChainSources(a) = a
  <2>1. DOMAIN a = {1} /\ a = [p \in {1} |-> x]
    OBVIOUS
  <2> QED
    BY <2>1 DEF SeedChainSources
<1>4. a \in ChainWalks(f)
  BY <1>2, <1>3 DEF ChainWalks
<1>5. a[1] = x
  OBVIOUS
<1>6. RecomputeWinner(a) = x
  <2> HIDE DEF a
  <2>1. \/ RecomputeWinner(a) = "absent" /\ a[1] = "absent"
        \/ RecomputeWinner(a) = a[1]
    BY <1>1, <1>4, WalkCases
  <2> QED
    BY <1>5, <2>1
<1> QED
  BY <1>4, <1>6

\* No walk of a load is the empty one.
LEMMA WasAsked ==
    ASSUME NEW f \in Fields, NEW walk \in ChainWalks(f)
    PROVE  walk # NothingAsked[f]
<1>1. PICK a \in [Positions(f) -> LoadAnswers] : walk = SeedChainSources(a)
  BY DEF ChainWalks
<1>2. walk[1] \in LoadAnswers /\ 1 \in Positions(f)
  BY <1>1, FirstAsked
<1>3. "unseen" \notin LoadAnswers
  BY Zenon, ReconcilerAssumption DEF LoadAnswers, Errors, AllVals
<1> QED
  BY <1>2, <1>3 DEF NothingAsked

-----------------------------------------------------------------------------
(* What a load makes of the answers *)

\* A field that did not end the load got what its walk deserved.
LEMMA SettledIsDeserved ==
    ASSUME NEW f \in Fields, NEW walk \in ChainWalks(f),
           Settle(f, RecomputeWinner(walk)) \notin Errors
    PROVE  Deserved(f, walk, Settle(f, RecomputeWinner(walk)))
<1> DEFINE w == RecomputeWinner(walk)
           v == Settle(f, w)
<1>1. "absent" \notin Vals /\ Errors \cap Vals = {}
  BY Zenon, LoadAssumption DEF AllVals
<1>2. CASE w = "absent" /\ \A p \in Positions(f) : walk[p] = "absent"
  <2>1. v = ApplyDefault(f)
    BY <1>1, <1>2 DEF Settle, Errors
  <2>2. f \in Tolerated
    BY <2>1 DEF ApplyDefault, Tolerated, Errors
  <2> QED
    BY <1>2, <2>2 DEF Deserved
<1>3. CASE /\ w \in LoadAnswers \ {"absent"}
           /\ \E p \in Positions(f) : walk[p] = w /\ \A q \in 1 .. p - 1 : walk[q] = "absent"
  <2>1. CASE w \in Vals
    <3>1. v = w
      BY <1>1, <2>1 DEF Settle
    <3> QED
      BY <1>3, <3>1 DEF Deserved
  <2>2. CASE w \in Errors
    <3>1. v = ApplyOnFail(f, w)
      BY <1>1, <2>2 DEF Settle, Errors
    <3>2. OnFail[f] = "default"
      BY Zenon, <2>2, <3>1 DEF ApplyOnFail
    <3> QED
      BY <1>3, <2>2, <3>2 DEF Deserved
  <2> QED
    BY <1>3, <2>1, <2>2 DEF LoadAnswers, Errors
<1> HIDE DEF w, v
<1>4. \/ w = "absent" /\ \A p \in Positions(f) : walk[p] = "absent"
      \/ /\ w \in LoadAnswers \ {"absent"}
         /\ \E p \in Positions(f) : walk[p] = w /\ \A q \in 1 .. p - 1 : walk[q] = "absent"
  BY WalkCases DEF w
<1> QED
  BY <1>2, <1>3, <1>4

\* A field that ends the load with error e has a row of that kind in Doctor's report.
LEMMA SettledIsShown ==
    ASSUME NEW f \in Fields, NEW walk, NEW e \in Errors,
           RecomputeWinner(walk) \in LoadAnswers,
           RecomputeWinner(walk) = e \/ Settle(f, RecomputeWinner(walk)) = e
    PROVE  LastKind(f, walk) = e
<1> DEFINE w == RecomputeWinner(walk)
<1> HIDE DEF w
<1>1. /\ "absent" \notin Vals /\ "absent" \notin Errors /\ \A x \in Vals : x \notin Errors
      /\ e # NoValue /\ e # Default[f]
  BY Zenon, LoadAssumption DEF AllVals, Errors
<1>2. CASE w \in Vals
  <2>1. Settle(f, w) = w
    BY <1>1, <1>2 DEF Settle
  <2> QED
    BY Zenon, <1>1, <1>2, <2>1 DEF w
<1>3. CASE w = "absent"
  <2>1. Settle(f, w) = ApplyDefault(f)
    BY <1>1, <1>3 DEF Settle
  <2>2. ApplyDefault(f) = e
    BY Zenon, <1>1, <1>3, <2>1 DEF w
  <2>3. f \notin Tolerated /\ e = "refused"
    BY <1>1, <2>2 DEF ApplyDefault, Tolerated
  <2> QED
    BY Zenon, <1>1, <1>3, <2>3 DEF LastKind, w
<1>4. CASE w \in Errors
  <2>1. w \notin Vals /\ w # "absent"
    BY Zenon, <1>1, <1>4
  <2>2. Settle(f, w) = ApplyOnFail(f, w)
    BY <1>4, <2>1 DEF Settle
  <2>3. w = e
    BY Zenon, <1>1, <2>2 DEF ApplyOnFail, w
  <2> QED
    BY Zenon, <2>1, <2>3 DEF LastKind, w
<1>5. w \in LoadAnswers
  BY DEF w
<1> QED
  BY Zenon, <1>2, <1>3, <1>4, <1>5 DEF LoadAnswers

\* Once the row of some asked field shows the error the load ended in, Doctor foretells.
LEMMA ForetoldBy ==
    ASSUME NEW f \in Fields, NEW e \in Errors, asked'[f] # NothingAsked[f],
           LastKind(f, asked'[f]) = e
    PROVE  failed' = e => DoctorForetells'
<1>1. e # "refused" <=> e \in {"transient", "unknown"}
  BY DEF Errors
<1> QED
  BY Zenon, <1>1 DEF DoctorForetells, SameAnswers, FieldHealthy

\* resolveAll's error either restores or ends the load; neither leaves a load under way.
LEMMA FailsKeeps ==
    ASSUME NEW e, ResolveFails(e), DOMAIN asked' = Fields, failed' = e => DoctorForetells'
    PROVE  ResolveInv'
<1>1. CASE phase' = "gates" /\ origin' = [restored |-> TRUE, present |-> TRUE] /\ failed' = "none"
  <2>1. origin'.restored
    BY <1>1
  <2> QED
    BY Zenon, <1>1, <2>1 DEF ResolveInv, FallbackIsDeserved
<1>2. CASE phase' = "down" /\ failed' = e
  BY Zenon, <1>2 DEF ResolveInv, FallbackIsDeserved
<1> QED
  BY Zenon, <1>1, <1>2 DEF ResolveFails, Ends

\* A step that asks the fields of S, each settled as it deserved, and leaves the rest.
LEMMA AskedKeeps ==
    ASSUME ResolveInv, phase = "resolving", NEW S \in SUBSET Fields,
           DOMAIN asked' = Fields, DOMAIN got' = Fields, failed' = "none",
           \A f \in S : asked'[f] # NothingAsked[f] /\ Deserved(f, asked'[f], got'[f]),
           \A f \in Fields \ S : asked'[f] = asked[f] /\ got'[f] = got[f],
           line' \subseteq line, schemes' \subseteq schemes,
           \A f \in Single \ S : /\ FieldScheme[f] \in schemes => FieldScheme[f] \in schemes'
                                 /\ f \in line => f \in line',
           LineDone(line', schemes')
    PROVE  ResolveInv'
<1>1. \A f \in Fields : asked'[f] # NothingAsked[f] => Deserved(f, asked'[f], got'[f])
  BY Zenon DEF ResolveInv
<1>2. \A f \in Single :
         asked'[f] = NothingAsked[f] => FieldScheme[f] \in schemes' \/ f \in line'
  BY Zenon DEF ResolveInv, Single
<1>3. CASE phase' = "resolving"
  BY Zenon, <1>1, <1>2, <1>3 DEF ResolveInv, FallbackIsDeserved
<1>4. CASE phase' = "gates" /\ line' = {} /\ schemes' = {}
           /\ \A f \in Chained : asked'[f] # NothingAsked[f]
  <2>1. \A f \in Fields : asked'[f] # NothingAsked[f]
    BY Zenon, <1>2, <1>4 DEF Chained
  <2>2. \A f \in Fields : Deserved(f, asked'[f], got'[f])
    BY Zenon, <1>1, <2>1
  <2>3. FallbackIsDeserved'
    BY Zenon, <2>2 DEF FallbackIsDeserved, Deserved
  <2> QED
    BY Zenon, <1>4, <2>3 DEF ResolveInv
<1> QED
  BY Zenon, <1>3, <1>4 DEF LineDone

\* Past the gates, and when the process ends without an error, nothing is claimed.
LEMMA QuietKeeps ==
    ASSUME failed' = "none", DOMAIN asked' = Fields, phase' \notin {"resolving", "gates"}
    PROVE  ResolveInv'
  BY Zenon DEF ResolveInv, FallbackIsDeserved

\* resolveOne on one field.
LEMMA OneKeeps ==
    ASSUME ResolveInv, NEW f \in line, NEW walk \in ChainWalks(f), ResolveOne(f, walk)
    PROVE  ResolveInv'
<1> DEFINE v == Settle(f, RecomputeWinner(walk))
<1>1. /\ phase = "resolving" /\ f \in Fields /\ failed = "none"
      /\ DOMAIN asked = Fields /\ DOMAIN got = Fields
  BY Zenon DEF ResolveOne, ResolveInv
<1>2. /\ asked' = [asked EXCEPT ![f] = walk]
      /\ IF v \in Errors THEN ResolveFails(v)
         ELSE /\ got' = [got EXCEPT ![f] = v]
              /\ line' = line \ {f}
              /\ LineDone(line \ {f}, schemes)
              /\ UNCHANGED <<schemes, failed, origin>>
  BY Zenon DEF ResolveOne
<1>3. /\ DOMAIN asked' = Fields /\ asked'[f] = walk
      /\ \A g \in Fields \ {f} : asked'[g] = asked[g]
  BY <1>1, <1>2
<1>4. asked'[f] # NothingAsked[f]
  BY Zenon, <1>1, <1>3, WasAsked
<1>5. CASE v \in Errors
  <2>0. RecomputeWinner(walk) \in LoadAnswers
    BY Zenon, <1>1, WalkCases DEF LoadAnswers
  <2>1. LastKind(f, walk) = v
    BY Zenon, <1>1, <1>5, <2>0, SettledIsShown
  <2>2. failed' = v => DoctorForetells'
    BY Zenon, <1>1, <1>3, <1>4, <1>5, <2>1, ForetoldBy
  <2>3. ResolveFails(v)
    BY <1>2, <1>5
  <2> HIDE DEF v
  <2> QED
    BY Zenon, <1>3, <2>2, <2>3, FailsKeeps
<1>6. CASE v \notin Errors
  <2>1. Deserved(f, walk, v)
    BY Zenon, <1>1, <1>6, SettledIsDeserved
  <2> HIDE DEF v
  <2>2. /\ got' = [got EXCEPT ![f] = v] /\ line' = line \ {f} /\ schemes' = schemes
        /\ failed' = failed /\ LineDone(line', schemes')
    BY <1>2, <1>6
  <2>3. /\ DOMAIN got' = Fields /\ got'[f] = v
        /\ \A g \in Fields \ {f} : got'[g] = got[g]
    BY <1>1, <2>2
  <2> DEFINE S == {f}
  <2>4. S \in SUBSET Fields
    BY Zenon, <1>1
  <2>5. \A g \in S : asked'[g] # NothingAsked[g] /\ Deserved(g, asked'[g], got'[g])
    BY Zenon, <1>3, <1>4, <2>1, <2>3
  <2>6. \A g \in Fields \ S : asked'[g] = asked[g] /\ got'[g] = got[g]
    BY Zenon, <1>3, <2>3
  <2>7. /\ line' \subseteq line /\ schemes' \subseteq schemes
        /\ \A g \in Single \ S : /\ FieldScheme[g] \in schemes => FieldScheme[g] \in schemes'
                                 /\ g \in line => g \in line'
    BY <2>2
  <2> HIDE DEF S
  <2> QED
    BY Zenon, <1>1, <1>3, <2>2, <2>3, <2>4, <2>5, <2>6, <2>7, AskedKeeps
<1> QED
  BY <1>5, <1>6

\* resolveBatchScheme: the answer of the call, field by field.
LEMMA BatchKeeps ==
    ASSUME ResolveInv, phase = "resolving", line = {}, NEW s \in schemes,
           NEW answer \in [Group(s) -> LoadAnswers], ResolveBatch(s, answer)
    PROVE  ResolveInv'
<1> DEFINE settled == [f \in Group(s) |-> Settle(f, answer[f])]
           errs == {f \in Group(s) : settled[f] \in Errors}
<1>1. Group(s) \subseteq Single /\ Group(s) \subseteq Fields /\ failed = "none"
  BY Zenon DEF Group, Single, ResolveInv
<1>2. /\ asked' = [f \in Fields |-> IF f \in Group(s) THEN <<answer[f]>> ELSE asked[f]]
      /\ IF errs # {}
         THEN ResolveFails(settled[CHOOSE f \in errs : \A g \in errs : f <= g])
         ELSE /\ got' = [f \in Fields |-> IF f \in Group(s) THEN settled[f] ELSE got[f]]
              /\ LineDone({}, schemes \ {s})
              /\ UNCHANGED <<line, failed, origin>>
              /\ schemes' = schemes \ {s}
  BY Zenon DEF ResolveBatch
<1>3. DOMAIN asked' = Fields /\ \A f \in Fields \ Group(s) : asked'[f] = asked[f]
  BY Zenon, <1>2
<1>4. \A f \in Group(s) :
         /\ asked'[f] = <<answer[f]>> /\ asked'[f] \in ChainWalks(f)
         /\ RecomputeWinner(asked'[f]) = answer[f] /\ asked'[f] # NothingAsked[f]
  <2> TAKE f \in Group(s)
  <2>1. f \in Single /\ f \in Fields /\ answer[f] \in LoadAnswers
    BY <1>1
  <2>2. asked'[f] = <<answer[f]>>
    BY Zenon, <1>2, <2>1
  <2>3. <<answer[f]>> \in ChainWalks(f) /\ RecomputeWinner(<<answer[f]>>) = answer[f]
    BY <2>1, OneRef
  <2> QED
    BY Zenon, <2>1, <2>2, <2>3, WasAsked
<1>5. CASE errs # {}
  <2> DEFINE f == CHOOSE g \in errs : \A h \in errs : g <= h
             e == Settle(f, answer[f])
  <2>1. f \in errs
    <3>1. Fields \subseteq Nat
      BY ReconcilerAssumption DEF Fields
    <3>2. errs \subseteq Nat
      BY Zenon, <1>1, <3>1
    <3>3. \E g \in errs : \A h \in errs : g <= h
      BY Zenon, <1>5, <3>2, LeastNat
    <3> QED
      BY Zenon, <3>3
  <2>2. f \in Group(s) /\ settled[f] = e /\ e \in Errors
    BY Zenon, <2>1
  <2>5. ResolveFails(e)
    BY Zenon, <1>2, <1>5, <2>2
  <2> HIDE DEF f
  <2>6. RecomputeWinner(asked'[f]) = answer[f] /\ answer[f] \in LoadAnswers
    BY <1>4, <2>2
  <2>3. LastKind(f, asked'[f]) = e
    BY Zenon, <1>1, <1>4, <2>2, <2>6, SettledIsShown
  <2> HIDE DEF e
  <2>4. failed' = e => DoctorForetells'
    BY Zenon, <1>1, <1>4, <2>2, <2>3, ForetoldBy
  <2> QED
    BY Zenon, <1>3, <2>4, <2>5, FailsKeeps
<1>6. CASE errs = {}
  <2>1. /\ got' = [f \in Fields |-> IF f \in Group(s) THEN settled[f] ELSE got[f]]
        /\ line' = line /\ failed' = failed /\ schemes' = schemes \ {s}
        /\ LineDone({}, schemes \ {s})
    BY Zenon, <1>2, <1>6
  <2>2. \A f \in Group(s) : Deserved(f, asked'[f], got'[f])
    <3> TAKE f \in Group(s)
    <3>1. Settle(f, answer[f]) \notin Errors /\ got'[f] = Settle(f, answer[f])
      BY Zenon, <1>1, <1>6, <2>1
    <3> QED
      BY Zenon, <1>1, <1>4, <3>1, SettledIsDeserved
  <2>3. DOMAIN got' = Fields /\ \A f \in Fields \ Group(s) : got'[f] = got[f]
    BY <2>1
  <2>4. \A f \in Single \ Group(s) : FieldScheme[f] \in schemes => FieldScheme[f] \in schemes'
    BY Zenon, <2>1 DEF Group
  <2>5. LineDone(line', schemes')
    BY Zenon, <2>1
  <2> QED
    BY Zenon, <1>1, <1>3, <1>4, <2>1, <2>2, <2>3, <2>4, <2>5, AskedKeeps
<1> QED
  BY <1>5, <1>6

\* An error of the batch call itself fails every field of the group.
LEMMA BatchErrorKeeps ==
    ASSUME ResolveInv, phase = "resolving", NEW s \in schemes,
           NEW e \in Errors \cup {"absent"}, BatchFails(s, e)
    PROVE  ResolveInv'
<1>1. PICK f \in Single : FieldScheme[f] = s
  BY Zenon DEF ResolveInv
<1>2. f \in Group(s) /\ f \in Fields /\ e \in LoadAnswers
  BY Zenon, <1>1 DEF Group, Single, LoadAnswers
<1>3. /\ asked' = [g \in Fields |-> IF g \in Group(s) THEN <<e>> ELSE asked[g]]
      /\ ResolveFails(IF e = "absent" THEN "gone" ELSE e)
  BY Zenon DEF BatchFails
<1>4. DOMAIN asked' = Fields /\ asked'[f] = <<e>>
  BY Zenon, <1>2, <1>3
<1>5. CASE e = "absent"
  <2>1. ResolveFails("gone") /\ (failed' = "gone" => DoctorForetells')
    BY Zenon, <1>3, <1>5 DEF DoctorForetells
  <2> QED
    BY Zenon, <1>4, <2>1, FailsKeeps
<1>6. CASE e # "absent"
  <2>1. e \in Errors /\ ResolveFails(e)
    BY Zenon, <1>3, <1>6
  <2>2. <<e>> \in ChainWalks(f) /\ RecomputeWinner(<<e>>) = e
    BY <1>1, <1>2, OneRef
  <2>3. asked'[f] # NothingAsked[f] /\ LastKind(f, asked'[f]) = e
    BY Zenon, <1>2, <1>4, <2>1, <2>2, WasAsked, SettledIsShown
  <2>4. failed' = e => DoctorForetells'
    BY Zenon, <1>2, <2>1, <2>3, ForetoldBy
  <2> QED
    BY Zenon, <1>4, <2>1, <2>4, FailsKeeps
<1> QED
  BY <1>5, <1>6

\* No load has begun.
LEMMA ResolveInit == LoadInit => ResolveInv
  BY Zenon DEF LoadInit, ResolveInv, NothingAsked, FallbackIsDeserved

\* Every step of a load keeps what it asked and settled in order.
LEMMA ResolveNext == ResolveInv /\ [LoadNext]_allVars => ResolveInv'
<1> SUFFICES ASSUME ResolveInv, [LoadNext]_allVars PROVE ResolveInv'
  OBVIOUS
<1>1. CASE StartLoad
  <2>1. /\ phase' = "resolving" /\ failed' = "none" /\ line' = {}
        /\ asked' = NothingAsked /\ got' = NothingGot
        /\ schemes' = {FieldScheme[f] : f \in Single}
    BY Zenon, <1>1 DEF StartLoad
  <2> QED
    BY Zenon, <2>1 DEF ResolveInv, FallbackIsDeserved, NothingAsked, NothingGot
<1>2. CASE NextGroup
  <2>1. /\ phase = "resolving" /\ phase' = phase /\ failed' = "none" /\ line = {}
        /\ asked' = asked /\ got' = got
    BY Zenon, <1>2 DEF NextGroup, ResolveInv
  <2>2. /\ schemes' \subseteq schemes /\ line' \subseteq Fields
        /\ \A f \in Single : FieldScheme[f] \in schemes
                                => FieldScheme[f] \in schemes' \/ f \in line'
    BY Zenon, <1>2 DEF NextGroup, Group, Chained, Single
  <2> QED
    BY Zenon, <2>1, <2>2 DEF ResolveInv, FallbackIsDeserved
<1>3. CASE \E f \in line : \E walk \in ChainWalks(f) : ResolveOne(f, walk)
  BY <1>3, OneKeeps
<1>4. CASE NextBatch
  <2>1. PICK s \in schemes \cap Batched :
          \/ \E answer \in [Group(s) -> Vals \cup {"absent", "refused"}] : ResolveBatch(s, answer)
          \/ \E e \in Errors \cup {"absent"} : BatchFails(s, e)
    BY <1>4 DEF NextBatch
  <2>2. phase = "resolving" /\ line = {}
    BY <1>4 DEF NextBatch
  <2>3. \A answer \in [Group(s) -> Vals \cup {"absent", "refused"}] :
           answer \in [Group(s) -> LoadAnswers]
    BY DEF LoadAnswers, Errors
  <2> QED
    BY <2>1, <2>2, <2>3, BatchKeeps, BatchErrorKeeps
<1>5. CASE PassGates
  <2>1. CASE Ends("none") /\ UNCHANGED asked
    BY Zenon, <2>1, QuietKeeps DEF Ends, ResolveInv
  <2>2. CASE /\ phase' = IF origin.restored THEN "starting" ELSE "persisting"
             /\ asked' = NothingAsked /\ failed' = failed
    <3>1. failed' = "none"
      BY Zenon, <1>5, <2>2 DEF PassGates, ResolveInv
    <3>2. DOMAIN asked' = Fields
      BY <2>2 DEF NothingAsked
    <3> QED
      BY <2>2, <3>1, <3>2, QuietKeeps
  <2> QED
    BY Zenon, <1>5, <2>1, <2>2 DEF PassGates
<1>6. CASE PersistTemp \/ PersistRename \/ PersistFails
           \/ (\E walk \in WatchWalks(Chained) : StartEngine(walk)) \/ Run
  <2>1. /\ phase \in {"persisting", "renaming", "starting", "up"}
        /\ phase' \in {"renaming", "starting", "up"}
        /\ UNCHANGED <<asked, failed>>
    BY Zenon, <1>6 DEF PersistTemp, PersistRename, PersistFails, StartEngine, Run, loadVars
  <2>2. failed' = "none" /\ DOMAIN asked' = Fields
    BY Zenon, <2>1 DEF ResolveInv
  <2> QED
    BY <2>1, <2>2, QuietKeeps
<1>7. CASE Crash
  BY Zenon, <1>7, QuietKeeps DEF Crash, Ends, NothingAsked
<1>8. CASE Deploy
  <2>1. phase = "down" /\ UNCHANGED <<phase, asked, failed>>
    BY <1>8 DEF Deploy, loadVars
  <2> QED
    BY Zenon, <2>1 DEF ResolveInv, FallbackIsDeserved, DoctorForetells, SameAnswers
<1>9. CASE UNCHANGED allVars
  <2>1. UNCHANGED <<phase, schemes, line, asked, got, failed, origin>>
    BY Zenon, <1>9 DEF allVars, loadVars
  <2> QED
    BY Zenon, <2>1 DEF ResolveInv, FallbackIsDeserved, DoctorForetells, SameAnswers
<1> QED
  BY <1>1, <1>2, <1>3, <1>4, <1>5, <1>6, <1>7, <1>8, <1>9 DEF LoadNext

\* Every field of every load that reaches the gates got the value of its first source
\* that is not absent, its default for genuine absence, or its default for an error it
\* opted into, whatever the order of the schemes and however the batches answer.
THEOREM FallbacksDeserved == LoadSpec => []FallbackIsDeserved
<1>1. ResolveInv => FallbackIsDeserved
  BY Zenon DEF ResolveInv
<1> QED
  BY <1>1, ResolveInit, ResolveNext, PTL DEF LoadSpec

\* A load fails only on answers that Doctor reports, under the kind it fails with, but
\* for a batch that fails as a whole with not-found.
THEOREM DoctorIsRight == LoadSpec => []DoctorForetells
<1>1. ResolveInv => DoctorForetells
  BY Zenon DEF ResolveInv, DoctorForetells
<1> QED
  BY <1>1, ResolveInit, ResolveNext, PTL DEF LoadSpec
=============================================================================
