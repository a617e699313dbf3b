-------------------------------- MODULE Load --------------------------------
(***************************************************************************)
(* The life of a process that calls Watch with WithBootstrapCache: the     *)
(* load that resolves every field or restores the snapshot file            *)
(* (resolve.go, reconcile.go, bootstrapstore.go), the file's replacement   *)
(* step by step (bootstrapfile.go), the engine of Reconciler once it runs, *)
(* a crash at any point of all this, and the next start, possibly of a     *)
(* build with another config struct.                                       *)
(*                                                                         *)
(* What one resolve answers during a load is a value, "absent", or one of  *)
(* three kinds of error: "transient" (unavailable, rate limited: the       *)
(* backend could not be asked), "refused" (denied, unauthenticated,        *)
(* invalid: it answered no, or its answer does not decode) and "unknown"   *)
(* (the provider could not tell).                                          *)
(***************************************************************************)
EXTENDS Reconciler

CONSTANTS
    FieldScheme,   \* the scheme of a single-ref field
    Batched,    \* schemes whose provider is a BatchProvider
    Leased,     \* values that carry a NotAfter
    Reporting   \* bound: fields whose backends move while the process runs; the
                \* other chains answer as they did at its start

VARIABLES
    phase,       \* "down", "resolving", "gates", "persisting", "renaming", "up"
    schemes,     \* byScheme: the groups resolveAll has not reached
    line,        \* fields of the group being resolved, not reached yet
    asked,       \* what every ref answered in this load
    got,         \* resolveAll's out, or the restored records
    failed,      \* the error of resolveAll the load ended in; "gone" is a batch that
                 \* failed as a whole with not-found
    origin,      \* bootstrapOrigin: restored, and whether a file is known present
    temp,        \* the temporary file of writeSnapshotFile
    foreign,     \* the file's fingerprint or key is not the running build's
    unheard      \* auxiliary: restored fields whose backend has not answered since

loadVars == <<schemes, line, asked, got, failed>>
fileVars == <<temp, foreign>>
allVars == <<vars, phase, loadVars, origin, fileVars, unheard>>

Errors == {"transient", "refused", "unknown"}
LoadAnswers == Vals \cup {"absent"} \cup Errors
Single == {f \in Fields : ChainLen[f] = 1}
Chained == Fields \ Single
Group(s) == {f \in Single : FieldScheme[f] = s}

\* The next field of a group, in struct declaration order.
IsFirst(f, S) == f \in S /\ \A g \in S : f <= g

NothingAsked == [f \in Fields |-> [p \in Positions(f) |-> "unseen"]]
NothingGot == [f \in Fields |-> NoValue]

\* A load's write of the snapshot may fail at any step; the engine's rewrites go through
\* the same function and succeed here (one that fails leaves the older file in place).
ASSUME LoadAssumption ==
    /\ BootstrapOn /\ Writes = {TRUE}
    /\ DOMAIN FieldScheme = Single
    /\ Leased \subseteq Vals
    /\ Single \subseteq Reporting /\ Reporting \subseteq Fields
    /\ (Errors \cup {"absent"}) \cap AllVals = {} /\ NoValue \notin Errors

-----------------------------------------------------------------------------
(* Resolving one field *)

\* Variant: a missing field is left at its zero value.
ApplyDefaultToAll(f) == IF f \in HasDefault THEN Default[f] ELSE NoValue

\* applyDefault: every ref reported not-found.
ApplyDefault(f) ==
    CASE f \in HasDefault -> Default[f]
      [] f \in Optional /\ f \notin HasDefault -> NoValue
      [] OTHER -> "refused"

\* applyOnFail: only onfail:"default" absorbs an error.
ApplyOnFail(f, e) == IF OnFail[f] = "default" THEN Default[f] ELSE e

\* resolveOne, and an entry of a batch: what field f gets when its chain's walk
\* ended with w, or the error that ends the load.
Settle(f, w) ==
    CASE w \in Vals -> w
      [] w = "absent" -> ApplyDefault(f)
      [] w \in Errors -> ApplyOnFail(f, w)

\* resolveChain's walks of field f.
ChainWalks(f) == {SeedChainSources(a) : a \in [Positions(f) -> LoadAnswers]}

-----------------------------------------------------------------------------
(* The end of a process, and of a load that failed: nothing is left in memory *)

\* The engine's variables while no engine runs.
NoEngine ==
    /\ sources' = NothingAsked /\ observed' = NothingGot
    /\ applied' = [f \in Fields |-> NoVersion]
    /\ erring' = {} /\ blocked' = {} /\ pending' = {}
    /\ timer' = FALSE /\ updatesOpen' = FALSE /\ running' = FALSE
    /\ lastGood' = NothingGot /\ version' = 0 /\ history' = <<>>
    /\ pin' = Unpinned /\ cfg' = NothingGot /\ queue' = <<>>
    /\ unconfirmed' = {} /\ refused' = FALSE

EngineIdle == UNCHANGED <<engineVars, batchVars, snapVars, unconfirmed, refused>>

Ends(err) ==
    /\ phase' = "down" /\ failed' = err
    /\ schemes' = {} /\ line' = {} /\ got' = NothingGot
    /\ origin' = [restored |-> FALSE, present |-> FALSE]

-----------------------------------------------------------------------------
(* restoreBootstrap *)

\* The failure says that the backend could not be asked, and the file exists and was
\* written for this struct.
Restorable(e) == e = "transient" /\ disk # NoConfig /\ ~foreign

\* A value the file holds may have passed its NotAfter by now.
MayHaveExpired == \E f \in Fields : disk[f] \in Leased

\* resolveAll returned the error e.
ResolveFails(e) ==
    \/ /\ Restorable(e)
       /\ phase' = "gates" /\ got' = disk
       /\ origin' = [restored |-> TRUE, present |-> TRUE]
       /\ schemes' = {} /\ line' = {} /\ failed' = "none"
    \/ (Restorable(e) => MayHaveExpired) /\ Ends(e)

-----------------------------------------------------------------------------
(* loadValue *)

StartLoad ==
    /\ phase = "down"
    /\ phase' = "resolving"
    /\ schemes' = {FieldScheme[f] : f \in Single} /\ line' = {}
    /\ asked' = NothingAsked /\ got' = NothingGot /\ failed' = "none"
    /\ origin' = [restored |-> FALSE, present |-> FALSE]
    /\ temp' = NoConfig          \* a name of its own: an orphan is never reused
    /\ unheard' = {}
    /\ EngineIdle /\ UNCHANGED <<disk, foreign>>

\* What a finished group leaves: the next one, or the gates.
LineDone(rest, left) ==
    phase' = IF rest = {} /\ left = {}
                 /\ \A f \in Chained : asked'[f] # NothingAsked[f]
             THEN "gates" ELSE "resolving"

\* resolveAll reaches a scheme that resolves ref by ref, in the map's random order,
\* or, when no scheme is left, the chained fields.
NextGroup ==
    /\ phase = "resolving" /\ line = {}
    /\ \/ \E s \in schemes \ Batched : line' = Group(s) /\ schemes' = schemes \ {s}
       \/ schemes = {} /\ line' = Chained /\ UNCHANGED schemes
    /\ EngineIdle
    /\ UNCHANGED <<disk, phase, asked, got, failed, origin, fileVars, unheard>>

\* resolveOne on the next field of the group.
ResolveOne(f, walk) ==
    LET v == Settle(f, RecomputeWinner(walk))
    IN  /\ phase = "resolving" /\ IsFirst(f, line)
        /\ asked' = [asked EXCEPT ![f] = walk]
        /\ IF v \in Errors THEN ResolveFails(v)
           ELSE /\ got' = [got EXCEPT ![f] = v]
                /\ line' = line \ {f}
                /\ LineDone(line \ {f}, schemes)
                /\ UNCHANGED <<schemes, failed, origin>>
        /\ EngineIdle
        /\ UNCHANGED <<disk, fileVars, unheard>>

\* resolveBatchScheme: one call answers for the whole group; an error of the call
\* itself ends the load, whatever the fields' onfail tags say.
ResolveBatch(s, answer) ==
    LET settled == [f \in Group(s) |-> Settle(f, answer[f])]
        errs    == {f \in Group(s) : settled[f] \in Errors}
    IN  /\ asked' = [f \in Fields |-> IF f \in Group(s) THEN <<answer[f]>> ELSE asked[f]]
        /\ IF errs # {}
           THEN ResolveFails(settled[CHOOSE f \in errs : \A g \in errs : f <= g])
           ELSE /\ got' = [f \in Fields |-> IF f \in Group(s) THEN settled[f] ELSE got[f]]
                /\ LineDone({}, schemes \ {s})
                /\ UNCHANGED <<line, failed, origin>>
                /\ schemes' = schemes \ {s}

BatchFails(s, e) ==
    /\ asked' = [f \in Fields |-> IF f \in Group(s) THEN <<e>> ELSE asked[f]]
    /\ ResolveFails(IF e = "absent" THEN "gone" ELSE e)

NextBatch ==
    /\ phase = "resolving" /\ line = {}
    /\ \E s \in schemes \cap Batched :
          \/ \E answer \in [Group(s) -> Vals \cup {"absent", "refused"}] : ResolveBatch(s, answer)
          \/ \E e \in Errors \cup {"absent"} : BatchFails(s, e)
    /\ EngineIdle
    /\ UNCHANGED <<disk, fileVars, unheard>>

\* buildInto, the derive hooks and the validator are Builds; PreApply may still say
\* no.  A restored configuration passes the same gates.
PassGates ==
    /\ phase = "gates"
    /\ \/ Ends("none") /\ UNCHANGED asked
       \/ /\ Builds(got)
          /\ phase' = IF origin.restored THEN "starting" ELSE "persisting"
          /\ asked' = NothingAsked
          /\ UNCHANGED <<schemes, line, got, failed, origin>>
    /\ EngineIdle
    /\ UNCHANGED <<disk, fileVars, unheard>>

\* Variant: the file is overwritten in place.
WriteInPlace ==
    /\ disk' = NoConfig /\ temp' = got
    /\ UNCHANGED foreign

\* writeSnapshotFile up to the close: a temporary file beside the target.
WriteTemp ==
    /\ temp' = got
    /\ UNCHANGED <<disk, foreign>>

PersistTemp ==
    /\ phase = "persisting"
    /\ WriteTemp
    /\ phase' = "renaming"
    /\ EngineIdle
    /\ UNCHANGED <<loadVars, origin, unheard>>

\* persistBootstrap returned the zero time unless the file was replaced.
Origin(ok) == [origin EXCEPT !.present = ok]

PersistRename ==
    /\ phase = "renaming"
    /\ disk' = temp /\ foreign' = FALSE /\ temp' = NoConfig
    /\ origin' = Origin(TRUE)
    /\ phase' = "starting"
    /\ EngineIdle
    /\ UNCHANGED <<loadVars, unheard>>

\* Any step of the write fails: the temporary file is removed, the load goes on.
PersistFails ==
    /\ phase \in {"persisting", "renaming"}
    /\ temp' = NoConfig
    /\ origin' = Origin(FALSE)
    /\ phase' = "starting"
    /\ EngineIdle
    /\ UNCHANGED <<disk, foreign, loadVars, unheard>>

-----------------------------------------------------------------------------
(* Watch, the engine, and the outside world *)

\* Variant: every field the load set counts as confirmed.
SeedNothing(restored, c) == {}

\* seedBootstrapOrigin: restored fields, defaults apart, wait for their backend.
SeedBootstrapOrigin(restored, c) ==
    IF restored THEN {f \in Fields : c[f] # NoValue /\ VersionOf(c[f]) # DefaultVersion}
    ELSE {}

\* What one walk of each of the chains in S sees while the process runs.
WatchWalks(S) ==
    LET seen == [f \in S |-> {SeedChainSources(a) : a \in [Positions(f) -> Answers]}]
    IN  {w \in [S -> UNION {seen[f] : f \in S}] : \A f \in S : w[f] \in seen[f]}

\* Watch starts the engine on what loadValue returned, and seeds the chains.
StartEngine(walk) ==
    /\ phase = "starting"
    /\ phase' = "up"
    /\ sources' = [f \in Fields |->
                     IF ChainLen[f] > 1 THEN walk[f]
                     ELSE [p \in Positions(f) |-> "unseen"]]
    /\ observed' = got /\ lastGood' = got /\ cfg' = got
    /\ applied' = [f \in Fields |-> VersionOf(got[f])]
    /\ erring' = {} /\ blocked' = {}
    /\ pending' = {} /\ timer' = FALSE /\ updatesOpen' = TRUE /\ running' = TRUE
    /\ version' = 1
    /\ history' = <<[version |-> 1, config |-> got, fields |-> {}, applied |-> applied']>>
    /\ pin' = Unpinned /\ queue' = <<>> /\ refused' = FALSE
    /\ unconfirmed' = SeedBootstrapOrigin(origin.restored, got)
    /\ got' = NothingGot
    /\ unheard' = {f \in Fields :
                     /\ origin.restored
                     /\ got[f] # NoValue /\ VersionOf(got[f]) # DefaultVersion
                     /\ f \in Chained => Errs(f, RecomputeWinner(walk[f]))}
    /\ UNCHANGED <<disk, schemes, line, asked, failed, origin, fileVars>>

ReportingWalks == WatchWalks(Reporting)

\* What a refresh sees: the fields that do not report answer as they did before.
RefreshWalks ==
    {[f \in Fields |-> IF f \in Reporting THEN w[f] ELSE sources[f]] : w \in ReportingWalks}

\* The snapshot was written by this step: a flush applied, or the last restored
\* field was confirmed.
Wrote == version' # version \/ (unconfirmed # {} /\ unconfirmed' = {})

\* One step of the engine.  A field's backend has answered once an update or a
\* refresh has carried a value or a tolerated absence of it.
Run ==
    /\ phase = "up"
    /\ \/ \E f \in Reporting : \E p \in Positions(f), r \in Answers : Update(f, p, r)
       \/ TimerFires
       \/ \E walk \in RefreshWalks : Refresh(walk)
    /\ origin' = IF Wrote THEN Origin(TRUE) ELSE origin
    /\ foreign' = (foreign /\ ~Wrote)
    /\ unheard' = {f \in unheard : \/ sources'[f] = sources[f]
                                    \/ Errs(f, RecomputeWinner(sources'[f]))}
    /\ UNCHANGED <<phase, loadVars, temp>>

\* Killed, or closed and exited; a temporary file stays where it is.
Crash ==
    /\ phase # "down"
    /\ Ends("none") /\ asked' = NothingAsked
    /\ NoEngine /\ unheard' = {}
    /\ UNCHANGED <<disk, fileVars>>

\* A build with another struct is deployed, or the old one is brought back, before
\* the next start.
Deploy ==
    /\ phase = "down" /\ disk # NoConfig
    /\ foreign' = ~foreign
    /\ EngineIdle
    /\ UNCHANGED <<disk, phase, loadVars, origin, temp, unheard>>

-----------------------------------------------------------------------------

\* The first start finds no file.
LoadInit ==
    /\ phase = "down" /\ failed = "none"
    /\ schemes = {} /\ line = {} /\ asked = NothingAsked /\ got = NothingGot
    /\ origin = [restored |-> FALSE, present |-> FALSE]
    /\ temp = NoConfig /\ foreign = FALSE /\ unheard = {} /\ disk = NoConfig
    /\ sources = NothingAsked /\ observed = NothingGot
    /\ applied = [f \in Fields |-> NoVersion]
    /\ erring = {} /\ blocked = {} /\ pending = {}
    /\ timer = FALSE /\ updatesOpen = FALSE /\ running = FALSE
    /\ lastGood = NothingGot /\ version = 0 /\ history = <<>>
    /\ pin = Unpinned /\ cfg = NothingGot /\ queue = <<>>
    /\ unconfirmed = {} /\ refused = FALSE

LoadNext ==
    \/ StartLoad
    \/ NextGroup
    \/ \E f \in line : \E walk \in ChainWalks(f) : ResolveOne(f, walk)
    \/ NextBatch
    \/ PassGates
    \/ PersistTemp
    \/ PersistRename
    \/ PersistFails
    \/ \E walk \in WatchWalks(Chained) : StartEngine(walk)
    \/ Run
    \/ Crash
    \/ Deploy

LoadSpec == LoadInit /\ [][LoadNext]_allVars

-----------------------------------------------------------------------------
(* Doctor, on the answers of a load *)

\* Variant: a field that opted into its default on errors has no error to show.
LastKindOnFail(f, walk) ==
    LET w == RecomputeWinner(walk)
    IN  IF w \in Vals \/ (w = "absent" /\ f \in Tolerated) \/ OnFail[f] = "default" THEN "none"
        ELSE IF w = "absent" THEN "refused" ELSE w

\* LastKind of Doctor's row of field f: none when its chain yields a value, or when
\* nothing is there and the field tolerates that.  Policies on errors do not count.
LastKind(f, walk) ==
    LET w == RecomputeWinner(walk)
    IN  IF w \in Vals \/ (w = "absent" /\ f \in Tolerated) THEN "none"
        ELSE IF w = "absent" THEN "refused" ELSE w

\* fieldUnhealthy: the terminal kinds.  A Doctor row is never stale.
FieldHealthy(f, walk) == LastKind(f, walk) # "refused"

\* The walks Doctor may see of a field, given what a load saw of it.
SameAnswers(f) == IF asked[f] = NothingAsked[f] THEN ChainWalks(f) ELSE {asked[f]}

-----------------------------------------------------------------------------
(* Status *)

\* bootstrapSource and bootstrapStatus: where the configuration comes from, and what
\* is known of the file.
BootstrapSource == IF unconfirmed # {} THEN "bootstrap_cache" ELSE "backend"
BootstrapStatus == [present |-> origin.present, fingerprintMatch |-> origin.present]

-----------------------------------------------------------------------------
(* Properties *)

\* The file is current: a process that resolved its configuration and knows of a
\* file can crash at any moment, and a restart during an outage restores exactly
\* what it was serving, as long as its rewrites succeed (loadValue, persistBootstrap,
\* flush).
DiskIsCurrent ==
    phase = "up" /\ ~origin.restored /\ origin.present => disk = lastGood

\* A complete snapshot file stays one: a crash between two steps of a write, or a
\* write that fails half way, leaves the old file in place (writeSnapshotFile).
SnapshotSurvives == [][disk # NoConfig => disk' \in Configs]_allVars

\* What Status says is true, across failed writes, crashes and deploys of another
\* struct: a snapshot it calls present, and therefore matching this struct, exists and
\* carries this build's fingerprint, and once a restored process says that its
\* configuration is the backend's, every backend behind a restored field has answered
\* since the start (bootstrapStatus, seedBootstrapOrigin, markBootstrapReconciled).
StatusIsTrue ==
    phase = "up" =>
        /\ BootstrapStatus.present => disk # NoConfig
        /\ BootstrapStatus.fingerprintMatch => ~foreign
        /\ origin.restored /\ BootstrapSource = "backend" => unheard = {}

\* default: applies to genuine absence, never to an error the field did not opt into,
\* and a lower-precedence source only to the absence of every higher one: through
\* batches, chains and whatever order the schemes are resolved in (resolveAll).
FallbackIsDeserved ==
    phase = "gates" /\ ~origin.restored =>
        \A f \in Fields :
            LET seen == asked[f]
            IN  \/ \E p \in Positions(f) :
                      seen[p] = got[f] /\ \A q \in 1 .. p - 1 : seen[q] = "absent"
                \/ (\A p \in Positions(f) : seen[p] = "absent") /\ f \in Tolerated
                \/ (\E p \in Positions(f) : seen[p] \in Errors) /\ OnFail[f] = "default"

\* Doctor foretells a failing start.  On answers that make a load fail some row of
\* Doctor's report carries the kind of that failure, whatever the refs the load did not
\* reach answer, and the report is unhealthy if it is a terminal one; a backend that
\* could not be asked, or an error without a kind, fails a load and leaves the report
\* healthy (doctor.go Doctor, report.go fieldUnhealthy).  A batch that fails as a whole
\* with not-found is not foretold: ref by ref, its fields may tolerate the absence.
DoctorForetells ==
    failed \notin {"none", "gone"} =>
        \E f \in Fields : \A walk \in SameAnswers(f) :
            /\ LastKind(f, walk) = failed
            /\ FieldHealthy(f, walk) <=> failed \in {"transient", "unknown"}
=============================================================================
