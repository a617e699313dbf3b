------------------------------ MODULE Requests ------------------------------
(* What a config server answers: New's gates (server/server.go, bindings.go),   *)
(* then authenticate, authorize and read for every route (server/handler.go,    *)
(* wire.go, policy.go), and what the admin endpoint of a Watcher answers        *)
(* (handler.go). A handler changes no state, so each is a function of the       *)
(* server's options, the request, and the snapshots it reads, which are Feed's. *)
EXTENDS Feed, Auth

-----------------------------------------------------------------------------
(* Building a server.                                                           *)

ToLower(scheme) == IF scheme = "EXEC" THEN "exec" ELSE scheme

\* resolveBindings: one raw binding after the other, a ref being what ParseRef made of
\* it. A gated scheme needs its option, whatever its case; ?decode= is refused.
Acceptable(b, o) ==
    /\ b.ref.ok
    /\ ToLower(b.ref.scheme) = "exec" => o.allowExec
    /\ ToLower(b.ref.scheme) = "mamori" => o.allowChaining
    /\ ~b.ref.decode

resolveBindings(o) ==
    /\ \A i, j \in DOMAIN o.bindings : i # j => o.bindings[i].name # o.bindings[j].name
    /\ \A i \in DOMAIN o.bindings : Acceptable(o.bindings[i], o)

New(o) ==
    /\ resolveBindings(o)
    /\ o.policy.kind # ""
    /\ o.auth.kind # "" \/ o.noAuth
    /\ ~(o.noAuth /\ o.tcp)
    /\ o.tcp => o.tls \/ o.insecureNoTLS

Bound(o) == {o.bindings[i].name : i \in DOMAIN o.bindings}

\* AllowAll, or PrefixPolicy with the names its globs match for each subject.
PolicyAllows(policy, subject, name) ==
    policy.kind = "all" \/ (subject \in DOMAIN policy.rules /\ name \in policy.rules[subject])

-----------------------------------------------------------------------------
(* Answering a request.                                                         *)

Failure(kind, status) == [status |-> status, kind |-> kind, value |-> 0, stale |-> FALSE]

statusForKind(kind) ==
    CASE kind = "not_found" -> 404
      [] kind = "unavailable" -> 503
      [] OTHER -> 500

\* authenticate: who the caller is, or how the request ends.
authenticate(o, r) ==
    LET v == Authenticate(o.auth, r)
    IN IF o.noAuth THEN Allow("") ELSE v

Unauthenticated(v) ==
    IF v.forbidden THEN Failure("permission_denied", 403) ELSE Failure("unauthenticated", 401)

\* lookupFresh and newValueBody: a value is served with the error it outlives.  A
\* pending binding reports an error of no known kind.
Read(o, name, s) ==
    IF name \notin Bound(o)
      THEN Failure("not_found", 404)
      ELSE LET kind == IF s.kind = "pending" THEN "unknown" ELSE s.kind
           IN IF s.value = 0
                THEN Failure(kind, statusForKind(kind))
                ELSE [status |-> 200, kind |-> kind, value |-> s.value, stale |-> kind # ""]

\* An entry read before the policy is asked: a denial of a missing name is a 404.
ReadFirst(o, subject, name, s) ==
    IF name \notin Bound(o) \/ PolicyAllows(o.policy, subject, name)
      THEN Read(o, name, s)
      ELSE Failure("permission_denied", 403)

\* One name of handleBatch: authorize, then read.
Entry(o, subject, name, s) ==
    IF PolicyAllows(o.policy, subject, name)
      THEN Read(o, name, s)
      ELSE Failure("permission_denied", 403)

Audit(subject, name, answer) ==
    [subject |-> subject, name |-> name, kind |-> answer.kind, status |-> answer.status]

\* handleValue: the answer and the audit record.
handleValue(o, r, name, s) ==
    LET v == authenticate(o, r)
        answer == IF ~v.ok THEN Unauthenticated(v)
                  ELSE IF ~PolicyAllows(o.policy, v.subject, name) THEN Failure("permission_denied", 403)
                  ELSE Read(o, name, s)
    IN [answer |-> answer, audit |-> Audit(IF v.ok THEN v.subject ELSE "", name, answer)]

\* handleBatch: authentication or a malformed body ends the whole request, everything
\* else is per name.
handleBatch(o, r, body, s) ==
    LET v == authenticate(o, r)
        fails(answer) == [answer |-> answer, entries |-> <<>>,
                          audit |-> <<Audit(IF v.ok THEN v.subject ELSE "", "", answer)>>]
        entries == [i \in DOMAIN body.names |-> Entry(o, v.subject, body.names[i], s)]
    IN IF ~v.ok THEN fails(Unauthenticated(v))
       ELSE IF ~body.wellFormed THEN fails(Failure("invalid", 400))
       ELSE [answer |-> Failure("", 200), entries |-> entries,
             audit |-> [i \in DOMAIN entries |-> Audit(v.subject, body.names[i], entries[i])]]

\* handleWatch, up to its poll loop: a first frame for each name, and the names it
\* goes on to poll, bound or not; with none the stream ends at once.
handleWatch(o, r, names, s) ==
    LET v == authenticate(o, r)
    IN IF ~v.ok THEN [answer |-> Unauthenticated(v), frames |-> <<>>, subs |-> {}]
       ELSE IF names = {} THEN [answer |-> Failure("invalid", 400), frames |-> <<>>, subs |-> {}]
       ELSE [answer |-> Failure("", 200),
             frames |-> [n \in names |-> Entry(o, v.subject, n, s)],
             subs |-> {n \in names : PolicyAllows(o.policy, v.subject, n)}]

-----------------------------------------------------------------------------
(* Readiness: server/resolve.go.  A binding is settled from its first update.   *)
(* Draining, which ends readiness for good, is in Server.                       *)

Settled(s) == s.kind # "pending"

readiness(r) == r \in alive /\ Settled(snapshot[r])

-----------------------------------------------------------------------------
(* The admin endpoint of a Watcher: handler.go.  failing is the set of fields   *)
(* Health reports.                                                              *)

authOK(auth, r) == auth.kind = "" \/ Authenticate(auth, r).ok

serveHealthz(auth, r, failing) ==
    [status |-> IF failing = {} THEN 200 ELSE 503,
     fields |-> IF authOK(auth, r) THEN failing ELSE {}]

serveStatus(auth, r, failing) ==
    IF authOK(auth, r)
      THEN [status |-> 200, fields |-> failing]
      ELSE [status |-> IF Authenticate(auth, r).forbidden THEN 403 ELSE 401, fields |-> {}]

-----------------------------------------------------------------------------
(* What the answers promise.                                                    *)

\* The caller's request cannot end in a read of the name.
Denied(o, r, name) ==
    LET v == authenticate(o, r) IN ~v.ok \/ ~PolicyAllows(o.policy, v.subject, name)

\* What a denied caller is told of a name, by any route, and what it may go on hearing.
Told(o, r, name, s) ==
    LET batch == handleBatch(o, r, [wellFormed |-> TRUE, names |-> <<name>>], s)
        watch == handleWatch(o, r, {name}, s)
    IN <<handleValue(o, r, name, s).answer, batch.answer, batch.entries, watch.answer,
         Range(watch.frames), watch.subs>>

\* A denied caller is told the same of every name in every state of the binding.
TellsNothing(o, r, names, snaps) ==
    \A m, n \in {x \in names : Denied(o, r, x)}, s, t \in snaps : Told(o, r, m, s) = Told(o, r, n, t)

\* Whoever gets a value is known to the server or came by a socket that its options
\* leave open, and is allowed the name.
EntitledOnly(o, r, names, snaps) ==
    \A n \in names, s \in snaps :
        handleValue(o, r, n, s).answer.status = 200 =>
            /\ (o.noAuth /\ ~r.overTCP) \/ (o.auth.kind # "" /\ Grants(o.auth, r))
            /\ PolicyAllows(o.policy, authenticate(o, r).subject, n)

\* A replica that said it is ready goes on being ready until it crashes, and never
\* answers that a binding is still pending: load balancers act on readyz once
\* (server/resolve.go readiness, resolverState.apply).
ReadyIsKept ==
    [][\A r \in Replicas : readiness(r) /\ r \in alive' => readiness(r)']_vars
=============================================================================
