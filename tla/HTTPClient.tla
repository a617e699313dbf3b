----------------------------- MODULE HTTPClient -----------------------------
(***************************************************************************)
(* How concurrent resolves of HTTP backed refs share what they share: the  *)
(* bearer token (httpcore/oauth2.go, infisical/auth.go,                    *)
(* bitwarden/session.go and, without sharing the exchange, nacos/auth.go), *)
(* the conditional GET cache (httpcore/revalidate.go), and the middleware  *)
(* around the provider (middleware/cache.go, ratelimit.go, failover.go).   *)
(*                                                                         *)
(* A caller is one goroutine in Resolve.  Its record says where it is      *)
(* (`pc') and what it holds; every step between two uses of a lock or the  *)
(* network is an action.                                                   *)
(***************************************************************************)
EXTENDS Integers, Sequences

CONSTANTS
    Callers, Keys,
    Programs,     \* which ref each caller polls, in the programs considered
    Issuer,       \* how a ref's provider gets its token
    Revalidated,  \* refs read through the Revalidator
    Plain,        \* refs whose backend sends neither ETag nor Last-Modified
    Memoized,     \* refs read through middleware.Cache
    Replicated,   \* refs read through middleware.Failover
    MaxEntries,   \* the Revalidator's ceiling
    TTL,          \* middleware.Cache's lifetime
    Throttled,    \* refs read through middleware.RateLimit
    Gap,          \* its spacing; 0 = none
    Lifetime,     \* of a token; 0 when the endpoint does not say
    Leeway,       \* a token this close to its end is not used
    Kinds,        \* how the API may fail
    TokenKinds,   \* how the token endpoint may fail
    MaxVersion, MaxFaults, MaxTime, \* bounds: versions and failures of each ref, the clock
    None

\* The kinds, in the order ErrorKind looks for their sentinels in an error.
KindOrder == <<"not_found", "permission_denied", "unauthenticated", "unavailable",
               "rate_limited", "invalid", "unknown">>
ErrorKinds == {KindOrder[i] : i \in DOMAIN KindOrder}

ASSUME HTTPClientAssumption ==
    /\ Revalidated \subseteq Keys /\ Plain \subseteq Keys
    /\ Memoized \subseteq Keys /\ Replicated \subseteq Keys
    /\ Throttled \subseteq Keys /\ Programs \subseteq [Callers -> Keys]
    /\ Issuer \in [Keys -> {"oauth2", "infisical", "bitwarden", "nacos"}]
    /\ {MaxEntries, TTL, Gap, Lifetime, Leeway, MaxTime} \subseteq Nat
    /\ MaxEntries > 0 /\ Leeway > 0
    /\ MaxVersion \in [Keys -> Nat] /\ MaxFaults \in [Keys -> Nat]
    /\ None \notin Nat /\ None \notin Callers
    /\ None \notin [key : Keys, etag : Nat, body : Nat]
    /\ Kinds \cup TokenKinds \subseteq ErrorKinds
    \* Out of scope: one ref read through both caches.
    /\ Memoized \cap Revalidated = {}

VARIABLES
    now,
    ref,      \* the ref of each caller
    backend,  \* the version of each ref the API serves
    retired,  \* auxiliary: when each earlier version stopped being served
    faults,   \* failures of the servers so far
    token,    \* the cached token: when it is believed to end, and when it does
    inflight, \* the caller whose exchange the others wait for
    lru,      \* the Revalidator's entries, most recently used first
    memo,     \* middleware.Cache's entries
    next,     \* middleware.RateLimit's next free slot
    call      \* the callers

vars == <<now, ref, backend, retired, faults, token, inflight, lru, memo, next, call>>

\* The program's provider shares a token exchange among its callers; nacos makes one
\* for each.
Sharing == \A c \in Callers : Issuer[ref[c]] # "nacos"

\* A caller outside Resolve.
Idle == [pc |-> "idle"]

In(c, pc) == call[c].pc = pc

\* What a caller keeps through its call when it continues at pc.
Kept(c, pc) ==
    [pc |-> pc, key |-> call[c].key, start |-> call[c].start, cond |-> call[c].cond,
     retry |-> call[c].retry, cancelled |-> call[c].cancelled,
     said |-> call[c].said, current |-> call[c].current, alone |-> call[c].alone]

\* The fields of r, and those of s that r does not have.
Over(r, s) == [x \in DOMAIN r \cup DOMAIN s |-> IF x \in DOMAIN r THEN r[x] ELSE s[x]]

\* Continue a call at pc with the fields of r.
At(c, pc, r) == Over(r, Kept(c, pc))
Goto(c, pc, r) == call' = [call EXCEPT ![c] = At(c, pc, r)]

Init ==
    /\ now = 0 /\ faults = 0 /\ ref \in Programs
    /\ backend = [k \in Keys |-> 1]
    /\ retired = [k \in Keys |-> <<>>]
    /\ token = None /\ inflight = None
    /\ lru = <<>> /\ memo = [k \in Keys |-> None] /\ next = 0
    /\ call = [c \in Callers |-> Idle]

-----------------------------------------------------------------------------
(* The Revalidator's entries: [key, etag, body] *)

\* Where the key's entry is (the Revalidator's map), the entry, and the list without it.
Places(k) == {i \in DOMAIN lru : lru[i].key = k}
Entry(k) == IF Places(k) = {} THEN None ELSE lru[CHOOSE i \in Places(k) : TRUE]
Without(k) ==
    IF Places(k) = {} THEN lru
    ELSE LET i == CHOOSE i \in Places(k) : TRUE
         IN  SubSeq(lru, 1, i - 1) \o SubSeq(lru, i + 1, Len(lru))

\* validators and cached mark the entry recently used.
Touched(k) == IF Entry(k) = None THEN lru ELSE <<Entry(k)>> \o Without(k)

\* The validator a GET of the ref carries.
Validators(k) == IF k \in Revalidated /\ Entry(k) # None THEN Entry(k).etag ELSE None

Trim(s) == SubSeq(s, 1, IF Len(s) > MaxEntries THEN MaxEntries ELSE Len(s))

\* Variant: an entry that exists gets the new validators and keeps its body.
StoredBodyKept(k, v) ==
    LET body == IF Entry(k) = None THEN v ELSE Entry(k).body
    IN  Trim(<<[key |-> k, etag |-> v, body |-> body]>> \o Without(k))

\* store: nothing to revalidate with drops the entry; else it becomes the most
\* recently used one and the least recently used goes.
Stored(k, v) ==
    IF k \in Plain THEN Without(k)
    ELSE Trim(<<[key |-> k, etag |-> v, body |-> v]>> \o Without(k))

-----------------------------------------------------------------------------
(* Resolve: middleware.Cache, then middleware.RateLimit *)

\* What a caller brings back.
Ok(v) == [ok |-> TRUE, body |-> v, kind |-> None]
Failed(kind) == [ok |-> FALSE, body |-> None, kind |-> kind]

Hit(k) == k \in Memoized /\ memo[k] # None /\ now < memo[k].expires

\* A call begins.  Auxiliary: `current' collects the versions its ref has while it runs,
\* `alone' says no other call of the ref overlaps it, `said' the failures the API (or its
\* replica) and the issuer of tokens reported to it.
Begun(c, k) ==
    LET alone == \A d \in Callers \ {c} : In(d, "idle") \/ call[d].key # k
    IN  [key |-> k, start |-> IF k \in Memoized THEN now ELSE 0, cond |-> None,
         retry |-> FALSE, cancelled |-> FALSE,
         said |-> {}, current |-> IF alone THEN {backend[k]} ELSE {}, alone |-> alone]

\* Every other call of the ref is not alone any more.
Joined(c, k, r) ==
    [d \in Callers |->
        IF d = c THEN r
        ELSE IF ~In(d, "idle") /\ call[d].key = k
             THEN [call[d] EXCEPT !.alone = FALSE, !.current = {}]
        ELSE call[d]]

\* middleware.RateLimit reserves the next slot under its lock.
MustSpace(k) == k \in Throttled /\ Gap > 0
Slot(k) == IF MustSpace(k) /\ now < next THEN next ELSE now
NextSlot(k) == IF MustSpace(k) THEN Slot(k) + Gap ELSE next

Resolve(c, k) ==
    /\ In(c, "idle")
    /\ \/ /\ Hit(k)
          /\ call' = Joined(c, k, Over([pc |-> "done", result |-> Ok(memo[k].val), hit |-> TRUE],
                                       Begun(c, k)))
          /\ UNCHANGED next
       \/ /\ ~Hit(k)
          /\ Slot(k) <= MaxTime  \* bound: the slot comes
          /\ next' = NextSlot(k)
          /\ call' = Joined(c, k, Over([pc |-> "limited", slot |-> IF MustSpace(k) THEN Slot(k) ELSE 0],
                                       Begun(c, k)))
    /\ UNCHANGED <<now, ref, backend, retired, faults, token, inflight, lru, memo>>

\* The caller's context ends; what it waits for notices.
Cancel(c) ==
    /\ call[c].pc \notin {"idle", "done"} /\ ~call[c].cancelled
    /\ faults < MaxFaults[ref[c]] /\ faults' = faults + 1
    /\ call' = [call EXCEPT ![c].cancelled = TRUE]
    /\ UNCHANGED <<now, ref, backend, retired, token, inflight, lru, memo, next>>

\* The slot comes, and Get reads the validators; or the context ends and the slot
\* is lost.
Limited(c) ==
    LET k == call[c].key
    IN  /\ In(c, "limited")
        /\ \/ /\ now >= call[c].slot
              /\ lru' = IF k \in Revalidated THEN Touched(k) ELSE lru
              /\ Goto(c, "auth", [cond |-> Validators(k)])
           \/ /\ now < call[c].slot /\ call[c].cancelled
              /\ Goto(c, "done", [hit |-> FALSE, result |-> Failed("unknown")])
              /\ UNCHANGED lru
        /\ UNCHANGED <<now, ref, backend, retired, faults, token, inflight, memo, next>>

-----------------------------------------------------------------------------
(* The end of a call *)

\* ErrorKind: the first kind, in KindOrder, whose sentinel an error carries.
JoinedKind(kinds) ==
    KindOrder[CHOOSE i \in DOMAIN KindOrder :
                 /\ KindOrder[i] \in kinds
                 /\ \A j \in 1..(i - 1) : KindOrder[j] \notin kinds]

\* Variant: the entry's life starts when the value arrives.
ExpiresFromArrival(c) == now + TTL

\* middleware.Cache dates an entry by the start of the call that read it.
Expires(c) == call[c].start + TTL

Succeed(c, v) ==
    LET k == call[c].key
    IN  /\ memo' = IF k \in Memoized THEN [memo EXCEPT ![k] = [val |-> v, expires |-> Expires(c)]]
                   ELSE memo
        /\ Goto(c, "done", [hit |-> FALSE, result |-> Ok(v)])

\* The provider fails: middleware.Failover turns to the replica, unless the ref is
\* absent.
AfterFailure(c, kind) ==
    IF call[c].key \in Replicated /\ kind # "not_found"
    THEN At(c, "replica", [outcome |-> kind])
    ELSE At(c, "done", [result |-> Failed(kind), hit |-> FALSE])

Fail(c, kind) ==
    /\ call' = [call EXCEPT ![c] = AfterFailure(c, kind)]
    /\ UNCHANGED memo

\* The replica has the value, or fails too.
Replica(c) ==
    /\ In(c, "replica")
    /\ \/ /\ Succeed(c, backend[call[c].key])
          /\ UNCHANGED faults
       \/ /\ faults < MaxFaults[ref[c]] /\ faults' = faults + 1
          /\ \E kind \in Kinds :
                Goto(c, "done", [hit |-> FALSE, result |-> Failed(IF kind = "not_found" THEN kind
                                                   ELSE JoinedKind({call[c].outcome, kind})),
                                 said |-> call[c].said \cup {<<"api", kind>>}])
          /\ UNCHANGED memo
    /\ UNCHANGED <<now, ref, backend, retired, token, inflight, lru, next>>

Leave(c) ==
    /\ In(c, "done")
    /\ call' = [call EXCEPT ![c] = Idle]
    /\ UNCHANGED <<now, ref, backend, retired, faults, token, inflight, lru, memo, next>>

-----------------------------------------------------------------------------
(* build: the bearer token *)

\* Variant: the leeway is dropped.
UsableToTheEnd == token # None /\ now < token.expires

\* The cached token is used while it is further than the leeway from its end; nacos
\* accepts the boundary, and never a token without one.
Usable ==
    /\ token # None
    /\ IF Sharing THEN now + Leeway < token.expires
       ELSE Lifetime > 0 /\ now + Leeway <= token.expires

MustWait == Sharing /\ inflight # None

\* tokenFor, under its lock: use the cached token, wait for the exchange under way,
\* or start one.
Auth(c) ==
    /\ In(c, "auth")
    /\ \/ /\ Usable
          /\ Goto(c, "send", [live |-> now < token.ends])
          /\ UNCHANGED inflight
       \/ /\ ~Usable /\ MustWait
          /\ Goto(c, "waiting", [from |-> inflight, outcome |-> None])
          /\ UNCHANGED inflight
       \/ /\ ~Usable /\ ~MustWait
          /\ Goto(c, "exchange", [began |-> now])
          /\ inflight' = IF Sharing THEN c ELSE None
    /\ UNCHANGED <<now, ref, backend, retired, faults, token, lru, memo, next>>

\* Variant: the sentinel is added whatever the authenticator said.
AuthErrorAlways(kind) == JoinedKind({kind, "unauthenticated"})

\* authError: only a failure without a kind becomes unauthenticated.
AuthError(kind) == IF kind = "unknown" THEN "unauthenticated" ELSE kind

\* A token's life as the client reckons it, from its arrival; the server's clock
\* started no earlier than the exchange.
Life == IF Lifetime > 0 THEN Lifetime ELSE 2 * Leeway
NewToken(c) == [expires |-> now + Life, ends |-> call[c].began + Life]

\* How an exchange fails: as the endpoint's status says, or for what its body lacks.
OAuth2Fails == TokenKinds \cup {"invalid", "unauthenticated"}
InfisicalFails == TokenKinds \cup {"invalid", "unauthenticated"}
BitwardenFails == TokenKinds \cup {"invalid", "unauthenticated"}
NacosFails == TokenKinds \cup {"unavailable", "unauthenticated"}
ExchangeFailures(issuer) ==
    CASE issuer = "oauth2" -> OAuth2Fails
      [] issuer = "infisical" -> InfisicalFails
      [] issuer = "bitwarden" -> BitwardenFails
      [] issuer = "nacos" -> NacosFails

\* Variant: a failed exchange stays published.
ReleasedOnSuccess(ok) == IF ok THEN None ELSE inflight

\* The exchange is over, one way or the other: nobody waits for it from now on.
Released(ok) == None

\* The exchange ends.  The leader withdraws it and caches the token under the lock,
\* before it settles what the waiters read.
ExchangeEnds(c) ==
    /\ In(c, "exchange")
    /\ \/ /\ token' = NewToken(c)
          /\ inflight' = Released(TRUE)
          /\ Goto(c, "settle", [outcome |-> "ok"])
          /\ UNCHANGED faults
       \/ /\ inflight' = Released(FALSE)
          /\ \/ /\ faults < MaxFaults[ref[c]] /\ faults' = faults + 1
                /\ \E kind \in ExchangeFailures(Issuer[call[c].key]) :
                     Goto(c, "settle", [outcome |-> kind,
                                        said |-> call[c].said \cup {<<"issuer", kind>>}])
             \/ /\ call[c].cancelled
                /\ Goto(c, "settle", [outcome |-> "unavailable"])
                /\ UNCHANGED faults
          /\ UNCHANGED token
    /\ UNCHANGED <<now, ref, backend, retired, lru, memo, next>>

\* The leader closes the exchange's channel, every waiter has its result, and the
\* leader goes on with its own.
Settle(c) ==
    LET o == call[c].outcome
        woken == [d \in Callers |->
                    IF In(d, "waiting") /\ call[d].from = c
                    THEN [call[d] EXCEPT !.outcome = o, !.said = @ \cup call[c].said]
                    ELSE call[d]]
    IN  /\ In(c, "settle")
        /\ call' = [woken EXCEPT ![c] = IF o = "ok" THEN At(c, "send", [live |-> TRUE])
                                        ELSE AfterFailure(c, AuthError(o))]
        /\ UNCHANGED <<now, ref, backend, retired, faults, token, inflight, lru, memo, next>>

\* A waiter takes the leader's result, or leaves with its own context.
Waiting(c) ==
    /\ In(c, "waiting")
    /\ \/ call[c].outcome = "ok" /\ Goto(c, "send", [live |-> TRUE]) /\ UNCHANGED memo
       \/ call[c].outcome \notin {None, "ok"} /\ Fail(c, AuthError(call[c].outcome))
       \/ call[c].cancelled /\ Fail(c, "unavailable")
    /\ UNCHANGED <<now, ref, backend, retired, faults, token, inflight, lru, next>>

-----------------------------------------------------------------------------
(* Do's round trip, and what Get makes of it *)

\* The API answers: a failing status, 304 when the validator it was sent is current,
\* 304 to a request without one from a broken proxy, or the value.
Send(c) ==
    LET k == call[c].key
        v == backend[k]
        answer(status) == Goto(c, "answer", [status |-> status, body |-> v])
    IN  /\ In(c, "send")
        /\ \/ /\ answer(IF call[c].cond = v THEN "not_modified" ELSE "ok")
              /\ UNCHANGED faults
           \/ /\ faults < MaxFaults[ref[c]] /\ faults' = faults + 1
              /\ \/ \E kind \in Kinds :
                       Goto(c, "answer", [status |-> kind, body |-> None,
                                          said |-> call[c].said \cup {<<"api", kind>>}])
                 \/ k \in Revalidated /\ call[c].cond = None /\ answer("not_modified")
           \/ /\ call[c].cancelled /\ answer("unavailable")
              /\ UNCHANGED faults
        /\ UNCHANGED <<now, ref, backend, retired, token, inflight, lru, memo, next>>

\* Variant: a second 304 is passed on, with the body it does not have.
UnpairedPassedOn(c) == Succeed(c, None)

\* A 304 to a request without validators has no body to pair it with.
Unpaired(c) == Fail(c, "unavailable")

\* The answer arrives.  A failure drops the entry; a 304 is paired with the entry as
\* it is now, or asked again without validators; a value is stored.
Answer(c) ==
    LET k == call[c].key
        r == call[c].status
    IN  /\ In(c, "answer")
        /\ \/ /\ r \in Kinds \cup {"unavailable"}
              /\ lru' = IF k \in Revalidated THEN Without(k) ELSE lru
              /\ Fail(c, r)
           \/ /\ r = "not_modified" /\ Entry(k) # None /\ ~call[c].retry
              /\ lru' = Touched(k)
              /\ Succeed(c, Entry(k).body)
           \/ /\ r = "not_modified" /\ Entry(k) = None /\ ~call[c].retry
              /\ Goto(c, "auth", [cond |-> None, retry |-> TRUE])
              /\ UNCHANGED <<lru, memo>>
           \/ /\ r = "not_modified" /\ call[c].retry
              /\ lru' = Without(k)
              /\ Unpaired(c)
           \/ /\ r = "ok"
              /\ lru' = IF k \in Revalidated THEN Stored(k, call[c].body) ELSE lru
              /\ Succeed(c, call[c].body)
        /\ UNCHANGED <<now, ref, backend, retired, faults, token, inflight, next>>

-----------------------------------------------------------------------------

\* The value behind a ref changes.
BackendMoves(k) ==
    /\ backend[k] < MaxVersion[k]
    /\ backend' = [backend EXCEPT ![k] = @ + 1]
    /\ retired' = [retired EXCEPT ![k] = Append(@, IF k \in Memoized THEN now ELSE 0)]
    /\ call' = [c \in Callers |->
                  IF ~In(c, "idle") /\ call[c].key = k /\ call[c].alone
                  THEN [call[c] EXCEPT !.current = @ \cup {backend[k] + 1}] ELSE call[c]]
    /\ UNCHANGED <<now, ref, faults, token, inflight, lru, memo, next>>

\* The leeway covers what an exchange takes (nacos times it out well below).
ExchangeBound == IF Sharing THEN Leeway ELSE Leeway - 1

Tick ==
    /\ now < MaxTime
    /\ \A c \in Callers : In(c, "exchange") => now < call[c].began + ExchangeBound
    /\ now' = now + 1
    /\ UNCHANGED <<ref, backend, retired, faults, token, inflight, lru, memo, next, call>>

Step(c) ==
    \/ Limited(c) \/ Auth(c) \/ ExchangeEnds(c) \/ Settle(c) \/ Waiting(c)
    \/ Send(c) \/ Answer(c) \/ Replica(c) \/ Leave(c)

Next ==
    \/ \E c \in Callers : Resolve(c, ref[c])
    \/ \E c \in Callers : Step(c)
    \/ \E c \in Callers : Cancel(c)
    \/ \E k \in {ref[c] : c \in Callers} : BackendMoves(k)
    \/ Tick

\* Goroutines run, servers answer, and time passes.
Fairness == (\A c \in Callers : WF_vars(Step(c))) /\ WF_vars(Tick)

Spec == Init /\ [][Next]_vars /\ Fairness

-----------------------------------------------------------------------------
(* Properties *)

Done(c) == In(c, "done")

\* Callers who find no usable token share one round trip with the identity provider,
\* and a token taken from the cache is alive at its issuer, although the client starts
\* its life when it arrives (tokenFor, exchange, expiresAt, leeway).
TokenShared ==
    /\ Sharing => \A c, d \in Callers : In(c, "exchange") /\ In(d, "exchange") => c = d
    /\ \A c \in Callers : In(c, "send") => call[c].live

\* The kinds of failure that who reported, of the reports S.
Reported(who, S) == {kind \in ErrorKinds : <<who, kind>> \in S}

\* What a call that was told S may fail with: a kind of the API's, a transient one, the
\* kind of a failed exchange, and unauthenticated for one that has none.
Deserved(S) ==
    LET issuer == Reported("issuer", S)
    IN  Reported("api", S) \cup {"unavailable", "unknown"} \cup (issuer \ {"unknown"})
          \cup {kind \in {"unauthenticated"} : "unknown" \in issuer}

\* A call fails with a kind that a server it depended on reported while it ran: the API,
\* the replica, or the issuer in the exchange it made or waited for.  Cancellations, its
\* own or its leader's, and broken 304s end it with a transient kind only, and it is
\* unauthenticated only if a server said so or an exchange failed without a kind
\* (authError, Failover, tokenFor).  An issuer's 404 is passed on as not_found.
KindIsDeserved ==
    \A c \in Callers : Done(c) /\ ~call[c].result.ok =>
        call[c].result.kind \in Deserved(call[c].said)

\* A call nobody overlaps answers with a value the backend had while it ran, never an
\* empty one, through evictions, failures and broken 304s (Get).
AnswerIsCurrent ==
    \A c \in Callers : Done(c) /\ call[c].result.ok /\ ~call[c].hit /\ call[c].alone =>
        call[c].result.body \in call[c].current

\* The cache serves nothing older than its lifetime, however long the read that
\* filled it took and whichever of two reads finished last (middleware.Cache).
BoundedStaleness ==
    \A c \in Callers : Done(c) /\ call[c].hit =>
        LET k == call[c].key
            v == call[c].result.body
        IN  v = backend[k] \/ retired[k][v] > call[c].start - TTL

\* Every call returns: no waiter is left behind by a leader that failed or was
\* cancelled (tokenFor, RateLimit).
CallsReturn == \A c \in Callers : In(c, "limited") ~> In(c, "idle")
=============================================================================
