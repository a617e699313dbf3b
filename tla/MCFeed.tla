------------------------------- MODULE MCFeed -------------------------------
(* Two replicas, the second with a clock one unit ahead, and the servers and    *)
(* callers whose requests are considered.                                       *)
EXTENDS Requests

MCEndpoints == <<1, 2>>
MCSkew == <<0, 1>>

-----------------------------------------------------------------------------
(* Authenticators: every scheme set and unset, and the compositions of two, of  *)
(* none, and of a composition.                                                  *)

Key(family, algs, key, keyfunc) ==
    [key |-> key, family |-> family, keyfunc |-> keyfunc, algorithms |-> algs,
     issuer |-> "iss", audiences |-> {"svc"}]

Leaves ==
    {[kind |-> "bearer", want |-> w] : w \in {"", "t1"}}
      \cup {[kind |-> "basic", user |-> "ann", pass |-> p] : p \in {"", "p1"}}
      \cup {[kind |-> "apikey", want |-> w] : w \in {"", "k1"}}
      \cup {[kind |-> "mtls", cns |-> c, dns |-> d] : c \in {{}, {"mesh"}}, d \in {{}, {"a.svc"}}}
      \cup {[kind |-> "peer", uids |-> u, gids |-> {}] : u \in {{}, {"uid:0"}}}
      \cup {[kind |-> "jwt", config |-> c] :
               c \in {k \in {Key("hmac", {}, "h1", ""), Key("", {"RS256"}, "", "h1"), Key("rsa", {}, "", "")} :
                         NewJWT(k)}}
      \cup {[kind |-> "custom", answer |-> v] : v \in {Deny(TRUE), Allow("app")}}

Composed(as) == {[kind |-> k, members |-> m] : k \in {"anyOf", "allOf"}, m \in {<<a, b>> : a, b \in as} \cup {<<>>}}

Small == {a \in Leaves : a.kind \in {"bearer", "apikey", "custom"}}
Schemes == Leaves \cup Composed(Leaves) \cup Composed(Small \cup Composed({a \in Small : a.kind = "bearer"}))

NoJWT == [alg |-> "", signedWith |-> "", exp |-> "", iss |-> "", aud |-> {}, sub |-> ""]
Tokens ==
    {NoJWT} \cup {[NoJWT EXCEPT !.alg = a, !.signedWith = k, !.exp = e, !.iss = "iss", !.aud = {"svc"}, !.sub = "joe"] :
                     a \in {"HS256", "RS256"}, k \in {"h1", "h2"}, e \in {"", "past", "future"}}

Nobody == [user |-> "", pass |-> "", bearer |-> "", key |-> "", cert |-> "", dns |-> {},
           uid |-> "", gid |-> "", jwt |-> NoJWT, overTCP |-> TRUE]
Callers ==
    {Nobody} \cup {[Nobody EXCEPT !.bearer = b, !.key = k] : b \in {"", "t1", "t2"}, k \in {"", "k1"}}
      \cup {[Nobody EXCEPT !.user = u, !.pass = p] : u \in {"ann", "bob"}, p \in {"", "p1"}}
      \cup {[Nobody EXCEPT !.cert = c, !.dns = d] : c \in {"mesh", "other"}, d \in {{}, {"a.svc"}}}
      \cup {[Nobody EXCEPT !.uid = u, !.gid = "gid:9", !.overTCP = FALSE] : u \in {"uid:0", "uid:7"}}
      \cup {[Nobody EXCEPT !.jwt = t] : t \in Tokens}

\* A composition of authenticators lets a request in exactly when its members say so,
\* under a name the request proved, and a secret that is not set admits nobody, be it
\* presented or not (authschemes.go, authpeercred.go, authjwt.go). The formula is about
\* schemes and requests alone: it is evaluated once, at the start.
AuthIsSound == Init => \A a \in Schemes, r \in Callers : Sound(a, r)

-----------------------------------------------------------------------------
(* Servers: the options New is given, and those it accepts.                     *)

Names == <<"bound", "hidden", "nowhere">>
Binding(name, scheme, decode) == [name |-> name, ref |-> [ok |-> TRUE, scheme |-> scheme, decode |-> decode]]
NoAuthenticator == [kind |-> ""]

Offered ==
    {[bindings |-> b, policy |-> p, auth |-> a, noAuth |-> n, tcp |-> t, tls |-> t, insecureNoTLS |-> FALSE,
      allowExec |-> FALSE, allowChaining |-> FALSE] :
        b \in {<<Binding("bound", "env", FALSE), Binding("hidden", s, d)>> :
                  s \in {"env", "EXEC", "mamori"}, d \in BOOLEAN},
        p \in {[kind |-> ""], [kind |-> "all"],
               [kind |-> "prefix", rules |-> [x \in {"bearer", "app"} |-> {"bound"}]]},
        a \in Small \cup {NoAuthenticator},
        n \in BOOLEAN, t \in BOOLEAN}

Servers == {o \in Offered : New(o)}

Clients == {[Nobody EXCEPT !.bearer = b, !.key = k, !.overTCP = t] :
               b \in {"", "t1"}, k \in {"", "k1"}, t \in BOOLEAN}

\* The requests a server can meet: over TCP only when it listens there.
Met(o, r) == r.overTCP => o.tcp

Snapshots ==
    {Pending, [Pending EXCEPT !.kind = "unavailable"],
     [value |-> 1, resolvedAt |-> 0, read |-> 0, kind |-> ""],
     [value |-> 1, resolvedAt |-> 0, read |-> 0, kind |-> "unavailable"]}

\* Only the entitled learn anything.  A caller that is not who it says, or may not
\* read a name, is told the same of every name and in every state of the binding,
\* whichever route it takes; a value goes only to an authenticated caller, or to one on
\* the local socket of a server without authentication, under the policy of a server
\* that New accepts; and the admin endpoint names failing fields only to an
\* authenticated caller (server/handler.go "a Policy denial must not vary in a way that
\* reveals anything about name"; server.go New; handler.go serveHealthz).
DeniedLearnsNothing ==
    Init =>
        /\ \A o \in Servers, r \in Clients :
              Met(o, r) => /\ TellsNothing(o, r, Range(Names), Snapshots)
                           /\ EntitledOnly(o, r, Range(Names), Snapshots)
        /\ \A a \in Small, r \in Clients : ~Grants(a, r) =>
              \A f, g \in (SUBSET {"x", "y"}) \ {{}} :
                 /\ serveHealthz(a, r, f) = serveHealthz(a, r, g)
                 /\ serveStatus(a, r, f) = serveStatus(a, r, g)

-----------------------------------------------------------------------------
(* The readers of text and values.                                              *)

Reading == INSTANCE MCReaders WITH Digits <- <<"0", "1">>, derivedVersionMaxDepth <- 3, DefaultSSEMaxLine <- 7, DefaultSSEMaxFrame <- 5

\* What reads text reads exactly what was written, or refuses it.  A JSON pointer
\* selects the node it points to and no other pointer does (jsonpointer.go); a command
\* line is split as a shell would, but for one backslash (builtin_exec.go splitArgs: "silently closing the
\* quote would run a command the author did not write"); a .env value is read back from
\* each of its spellings (builtin_dotenv.go); of a stream cut anywhere, exactly the
\* frames that arrived whole and within the bounds are delivered (httpcore/sse.go: "a
\* truncated frame is not a short frame"); a Nacos listener's answer wakes the watches
\* of the configurations it names (nacos/watch.go). And what names a place names no
\* other: the tool and the provider reach the same endpoint, a request stays under its
\* base URL (httpcore/do.go setPath), and a ref is never "quietly resolving to something
\* other than what it names" (nacos.go coordinatesFor and the readers like it).
ReadersAreExact == Init => Reading!Exact

\* A derived field's version changes when its value does and stays when it does not, as
\* far as the walk reads: two values that one field can hold have the same canonical
\* encoding only if they differ in nothing but which channel or function they hold, or
\* below derivedVersionMaxDepth (derivedversion.go: "the reported version now churns
\* exactly when ev.Changed does").
VersionMoves == Init => Reading!VersionsSeparate
=============================================================================
