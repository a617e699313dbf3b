---------------------------- MODULE NativeWatch ----------------------------
(***************************************************************************)
(* The native watches: the goroutine each watchable provider starts in     *)
(* Watch, between a backend that is written to and the forwarder that      *)
(* receives from the channel Watch returned.  What the loops share is an   *)
(* action; where a provider's loop differs is a field of its record.       *)
(* The mamori provider's watch is in Feed.                                 *)
(***************************************************************************)
EXTENDS Integers, Sequences

CONSTANTS
    Watched,    \* the providers a run looks at
    Drops,      \* the ones whose connection may break or whose calls may fail
    Early,      \* the ones whose key may change between Load and the subscription
    Lossless,   \* the ones that catch up with what they missed during a failure
    Loud,       \* the ones that say so when they do not
    MaxValue, MaxWrites, MaxDrops

VARIABLES
    scheme,     \* the provider
    value,      \* the backend's value, 0 when there is none
    index,      \* the backend's modification index
    writes, drops,
    ctxDone,
    pc,         \* where the goroutine is: start, baseline, wait, emit, pause, closed
    next,       \* where it goes once the update in hand is sent or the pause is over
    hand,       \* the update in hand
    sub,        \* the subscription: none, asked, live or broken
    notes,      \* changes the backend has pushed, each with the state it carries
    known,      \* what the last request said the client holds, for a long poll
    armed,      \* a debounce timer runs
    channel,
    held,       \* what the receiver holds, from Load or from the last update
    word,       \* the kind of the last update received
    missed      \* history: the backend changed without a word to a subscription that
                \* was asked for, and has not been read since

envVars == <<scheme, value, index, writes, drops, ctxDone>>
loopVars == <<pc, next, hand, sub, notes, known, armed>>
rcvVars == <<channel, held, word>>
vars == <<envVars, loopVars, rcvVars, missed>>

-----------------------------------------------------------------------------
(* opens     what a new subscription is sent first: nothing, the value if    *)
(*           there is one, or the state either way                           *)
(* baseline  when the loop reads the backend itself after subscribing        *)
(* carries   an update holds what the change carried, not a new read         *)
(* gone      what a deletion is handed on as                                 *)
(* silent    the absences that are not reported                              *)
(* unheard   the changes the subscription does not tell of                   *)
(* waits     Watch waits until the subscription stands                       *)
(* broken    what a broken subscription, or a failed call, leads to          *)
(* settles   changes are collected for a while before the backend is read    *)

\* Subscribe, read a baseline, and read again after every change.
Rereads ==
    [opens |-> "nothing", baseline |-> "first", carries |-> FALSE, gone |-> "absent",
     silent |-> {}, unheard |-> {}, waits |-> TRUE, broken |-> "report", settles |-> FALSE]

\* Hand on what the subscription is sent.
HandsOn == [Rereads EXCEPT !.baseline = "never", !.carries = TRUE]

Etcd == [HandsOn EXCEPT !.silent = {"change"}, !.broken = "stop"]

\* A flag that is gone evaluates to null, which is handed on as a value.
LaunchDarkly == [HandsOn EXCEPT !.gone = "value", !.broken = "end"]

K8s == [HandsOn EXCEPT !.opens = "present", !.baseline = "each", !.silent = {"baseline"},
                       !.broken = "reopen"]

Firestore == [HandsOn EXCEPT !.opens = "state", !.broken = "stop"]

FirebaseRTDB == [Rereads EXCEPT !.opens = "state"]


MongoDB == [Rereads EXCEPT !.broken = "stop"]

\* With ?key= the change stream is filtered by a field of the document, which the
\* event of a deletion does not have.
MongoDBByKey == [Rereads EXCEPT !.broken = "stop", !.unheard = {"delete"}]

Postgres == [Rereads EXCEPT !.broken = "deaf"]

\* PSubscribe does not wait for the server's confirmation.
Redis == [Rereads EXCEPT !.waits = FALSE, !.broken = "renew"]

\* The directory is watched, and only events that name the file itself count: a file
\* behind a symbolic link to a directory changes without one when the link moves.
Sops == [Rereads EXCEPT !.unheard = {"swap"}, !.broken = "overflow"]

File == [Rereads EXCEPT !.unheard = {"swap"}, !.broken = "overflow", !.settles = TRUE]

Sqlite == [Rereads EXCEPT !.broken = "overflow", !.settles = TRUE]

\* The long polls have no subscription: every request says what is known.
Consul == [Rereads EXCEPT !.baseline = "never"]

Nacos == [Rereads EXCEPT !.silent = {"baseline", "change"}]

Provider ==
    CASE scheme = "etcd" -> Etcd
      [] scheme = "launchdarkly" -> LaunchDarkly
      [] scheme = "k8s" -> K8s
      [] scheme = "firestore" -> Firestore
      [] scheme = "firebase-rtdb" -> FirebaseRTDB
      [] scheme = "mongodb" -> MongoDB
      [] scheme = "mongodb?key" -> MongoDBByKey
      [] scheme = "postgres" -> Postgres
      [] scheme = "redis" -> Redis
      [] scheme = "sops" -> Sops
      [] scheme = "sqlite" -> Sqlite
      [] scheme = "file" -> File
      [] scheme = "consul" -> Consul
      [] scheme = "nacos" -> Nacos

Polls == scheme \in {"consul", "nacos"}

-----------------------------------------------------------------------------
\* The backend, and what its client library does.

State == [kind |-> IF value = 0 THEN "absent" ELSE "value", value |-> value, stamp |-> writes]
Failure == [kind |-> "error", value |-> 0, stamp |-> 0]

\* How a change to v may come about.
Hows(v) == {IF v = 0 THEN "delete" ELSE "write"}
             \cup (IF scheme \in {"file", "sops"} THEN {"swap"} ELSE {})

Write ==
    /\ writes < MaxWrites /\ writes' = writes + 1
    /\ pc = "start" => scheme \in Early
    /\ \E v \in 0 .. MaxValue \ {value} : \E how \in Hows(v) :
          LET told == sub = "live" /\ how \notin Provider.unheard
          IN  /\ value' = v
              /\ notes' = IF told THEN Append(notes, State') ELSE notes
              /\ missed' = (sub \in {"asked", "live"} /\ ~told)
    /\ \/ index' = index + 1
       \/ scheme = "consul" /\ index > MaxWrites /\ index' = 1   \* a restored server
    /\ UNCHANGED <<scheme, drops, ctxDone, pc, next, hand, sub, known, armed, rcvVars>>

\* The server takes up the subscription.
Confirm ==
    /\ sub = "asked" /\ sub' = "live"
    /\ UNCHANGED <<envVars, pc, next, hand, notes, known, armed, rcvVars, missed>>

\* The connection breaks, with any number of pushed changes not yet received.
Break ==
    /\ sub = "live" /\ scheme \in Drops /\ drops < MaxDrops /\ drops' = drops + 1
    /\ sub' = "broken" /\ \E k \in 0 .. Len(notes) : notes' = SubSeq(notes, 1, k)
    /\ UNCHANGED <<scheme, value, index, writes, ctxDone, pc, next, hand, known, armed,
                   rcvVars, missed>>

Cancel ==
    /\ ~ctxDone /\ ctxDone' = TRUE
    /\ UNCHANGED <<scheme, value, index, writes, drops, loopVars, rcvVars, missed>>

Receive ==
    /\ channel # <<>> /\ channel' = Tail(channel)
    /\ held' = IF Head(channel).kind = "error" THEN held ELSE Head(channel)
    /\ word' = Head(channel).kind
    /\ UNCHANGED <<envVars, loopVars, missed>>

-----------------------------------------------------------------------------
\* The loop.

Say(u, then) == hand' = u /\ pc' = "emit" /\ next' = then
Go(to) == pc' = to /\ UNCHANGED <<hand, next>>

CallFails == scheme \in Drops /\ drops < MaxDrops /\ drops' = drops + 1

\* The subscription comes first, and the baseline is read after it.
SubscribesFirst ==
    /\ sub' = IF Provider.waits THEN "live" ELSE "asked"
    /\ notes' = IF Provider.opens = "state" \/ (Provider.opens = "present" /\ value # 0)
                THEN <<State>> ELSE <<>>
    /\ Go(IF Provider.baseline = "each" \/ (Provider.baseline = "first" /\ pc = "start")
          THEN "baseline" ELSE "wait")

Subscribe ==
    /\ pc \in {"start", "reopen"} /\ ~ctxDone
    /\ IF Polls THEN Go(IF Provider.baseline = "first" THEN "baseline" ELSE "wait")
                     /\ UNCHANGED <<sub, notes>>
       ELSE SubscribesFirst
    /\ UNCHANGED <<envVars, known, armed, rcvVars, missed>>

\* The k8s and firebase-rtdb loops dial inside the goroutine and try again.
SubscribeFails ==
    /\ pc \in {"start", "reopen"} /\ ~ctxDone /\ Provider.broken \in {"reopen", "report"}
    /\ ~Polls /\ CallFails
    /\ Say(Failure, "pause")
    /\ UNCHANGED <<scheme, value, index, writes, ctxDone, sub, notes, known, armed, rcvVars, missed>>

Baseline ==
    /\ pc = "baseline"
    /\ known' = IF scheme = "nacos" THEN value ELSE known
    /\ IF value = 0 /\ "baseline" \in Provider.silent THEN Go("wait") ELSE Say(State, "wait")
    /\ missed' = FALSE
    /\ UNCHANGED <<envVars, sub, notes, armed, rcvVars>>

BaselineFails ==
    /\ pc = "baseline" /\ CallFails
    /\ Say(Failure, IF Polls THEN "pause" ELSE "wait")
    /\ UNCHANGED <<scheme, value, index, writes, ctxDone, sub, notes, known, armed, rcvVars, missed>>

HandedOn(u) == IF u.kind = "absent" THEN [u EXCEPT !.kind = Provider.gone] ELSE u

\* A change was pushed.
Event ==
    /\ pc = "wait" /\ notes # <<>> /\ notes' = Tail(notes)
    /\ \/ Provider.settles /\ armed' = TRUE /\ UNCHANGED <<pc, next, hand>>
       \/ /\ ~Provider.settles /\ UNCHANGED armed
          /\ LET u == IF Provider.carries THEN Head(notes) ELSE State IN
                IF u.kind = "absent" /\ "change" \in Provider.silent THEN UNCHANGED <<pc, next, hand>>
                ELSE Say(HandedOn(u), "wait")
    /\ missed' = (missed /\ (Provider.carries \/ Provider.settles))
    /\ UNCHANGED <<envVars, sub, known, rcvVars>>

TimerFires ==
    /\ pc = "wait" /\ armed /\ armed' = FALSE /\ Say(State, "wait")
    /\ missed' = FALSE
    /\ UNCHANGED <<envVars, sub, notes, known, rcvVars>>

\* The read that follows a change, or a timer, fails: the change is used up.
ReadFails ==
    /\ pc = "wait" /\ ~Provider.carries /\ CallFails /\ Say(Failure, "wait")
    /\ \/ ~Provider.settles /\ notes # <<>> /\ notes' = Tail(notes) /\ UNCHANGED armed
       \/ armed /\ armed' = FALSE /\ UNCHANGED notes
    /\ UNCHANGED <<scheme, value, index, writes, ctxDone, sub, known, rcvVars, missed>>

\* The subscription is found broken.
Broken ==
    /\ pc = "wait" /\ sub = "broken" /\ notes = <<>>
    /\ CASE Provider.broken = "reopen" -> Go("pause") /\ sub' = "none"
         [] Provider.broken = "report" -> Say(Failure, "pause") /\ sub' = "none"
         [] Provider.broken = "stop" -> Say(Failure, "closed") /\ sub' = "none"
         [] Provider.broken = "end" -> Go("closed") /\ sub' = "none"
         [] Provider.broken = "deaf" -> Say(Failure, "wait") /\ UNCHANGED sub
         [] Provider.broken = "renew" -> sub' = "live" /\ UNCHANGED <<pc, next, hand>>
         [] Provider.broken = "overflow" -> Say(Failure, "wait") /\ sub' = "live"
    /\ UNCHANGED <<envVars, notes, known, armed, rcvVars, missed>>

\* The Realtime Database cancels the stream, for instance after a rule change.
CancelledByServer ==
    /\ scheme = "firebase-rtdb" /\ pc = "wait" /\ sub = "live" /\ notes = <<>>
    /\ CallFails /\ Say(Failure, "closed") /\ sub' = "none"
    /\ UNCHANGED <<scheme, value, index, writes, ctxDone, notes, known, armed, rcvVars, missed>>

\* The index only ever grows.
IndexGrows(new) == IF new < known THEN known ELSE new

\* An index that went back starts the watch afresh.
NextIndex(new) == IF new < known THEN 0 ELSE new

\* Consul's blocking query returns: at once when nothing is known, otherwise
\* when the index differs from the one sent or the wait time is over.
ConsulGet ==
    /\ scheme = "consul" /\ pc = "wait" /\ ~ctxDone /\ index # known
    /\ known' = NextIndex(index)
    /\ IF index < known THEN UNCHANGED <<pc, next, hand>> ELSE Say(State, "wait")
    /\ UNCHANGED <<envVars, sub, notes, armed, rcvVars, missed>>

\* The listener's answer names the configuration, and observe reads it again.
NacosRound ==
    /\ scheme = "nacos" /\ pc = "wait" /\ ~ctxDone /\ value # known
    /\ known' = value
    /\ IF value = 0 THEN UNCHANGED <<pc, next, hand>> ELSE Say(State, "wait")
    /\ UNCHANGED <<envVars, sub, notes, armed, rcvVars, missed>>

PollFails ==
    /\ Polls /\ pc = "wait" /\ ~ctxDone /\ CallFails
    /\ Say(Failure, "pause")
    /\ UNCHANGED <<scheme, value, index, writes, ctxDone, sub, notes, known, armed, rcvVars, missed>>

PauseOver ==
    /\ pc = "pause" /\ ~ctxDone /\ Go(IF Polls THEN "wait" ELSE "reopen")
    /\ UNCHANGED <<envVars, sub, notes, known, armed, rcvVars, missed>>

Send ==
    /\ pc = "emit" /\ Len(channel) < 1 /\ channel' = Append(channel, hand)
    /\ pc' = next /\ UNCHANGED <<next, hand, envVars, sub, notes, known, armed, held, word, missed>>

\* A send that waits for the receiver whatever becomes of the context.
NoticesBetween == pc \in {"start", "reopen", "wait", "pause"}

\* Every receive, send and pause of a loop also waits for the context.
Notices == pc \in {"start", "reopen", "wait", "pause", "emit"}

Done ==
    /\ ctxDone /\ Notices
    /\ pc' = "closed" /\ sub' = "none" /\ notes' = <<>>
    /\ UNCHANGED <<next, hand, envVars, known, armed, rcvVars, missed>>

Init ==
    /\ scheme \in Watched /\ value \in 0 .. MaxValue /\ index = MaxWrites + 1
    /\ writes = 0 /\ drops = 0 /\ ctxDone = FALSE
    /\ pc = "start" /\ next = "wait" /\ hand = Failure
    /\ sub = "none" /\ notes = <<>> /\ known = 0 /\ armed = FALSE
    /\ channel = <<>> /\ held = State /\ word = State.kind /\ missed = FALSE

LoopStep ==
    \/ Subscribe \/ Baseline \/ Event \/ TimerFires \/ Broken \/ ConsulGet \/ NacosRound
    \/ PauseOver \/ Send

Next ==
    \/ LoopStep \/ SubscribeFails \/ BaselineFails \/ ReadFails \/ PollFails
    \/ CancelledByServer \/ Done
    \/ Write \/ Confirm \/ Break \/ Cancel \/ Receive

Spec == Init /\ [][Next]_vars

\* The goroutine runs, the receiver receives until the context ends, a blocking
\* request is answered, a subscription is confirmed and a pause ends.  Nothing makes a
\* write or a failure happen.
FairSpec == Spec /\ WF_vars(LoopStep) /\ WF_vars(Done) /\ WF_vars(Confirm)
                 /\ WF_vars(~ctxDone /\ Receive)

-----------------------------------------------------------------------------
CatchesUp == drops = 0 \/ scheme \in Lossless

\* The receiver holds what the backend has: a value, or its absence, as Load found it or
\* as the provider hands it on.
Holds(v) == held.value = v /\ held.kind \in IF v = 0 THEN {"absent", Provider.gone} ELSE {"value"}

\* The backend keeps v, and the watch is one that would report it.
Keeps(v) == value = v /\ ~ctxDone /\ ~missed /\ (v = 0 => Provider.silent = {})

\* What a watch delivers.  Once the key keeps a value, or stays deleted, the receiver
\* ends up with it: no change falls between the baseline and the subscription, nor, for
\* the loops that start again from the backend's state, into a failure.  Excepted are
\* the changes no subscription is told of (missed), and deletions, which the loops of
\* etcd and nacos never and that of k8s not always report.  And nobody is handed a
\* state older than the one held; but k8s, whose baseline can be newer than the changes
\* already pushed.
Converges ==
    /\ [][scheme # "k8s" => held'.stamp >= held.stamp]_vars
    /\ \A v \in 0 .. MaxValue : <>[](Keeps(v) /\ CatchesUp) => <>[]Holds(v)


\* A cancelled watch ends, whatever it was doing and whether or not anybody
\* still receives.
EndsOnCancel == ctxDone ~> pc = "closed"
=============================================================================
