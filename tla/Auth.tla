-------------------------------- MODULE Auth --------------------------------
(* Who is asking: the authentication schemes of authschemes.go,                 *)
(* authpeercred.go and x/authjwt, and their composition by AnyOf and AllOf.     *)
(* Both the config server and the admin endpoint call Authenticate once per     *)
(* request. Everything here is a pure function of the scheme and the request.   *)
(*                                                                              *)
(* An authenticator is a record with its kind and its configuration, a request  *)
(* a record with what the caller presents; "" is a secret that is not set, a    *)
(* header that is absent, or a certificate or credential that is not there.     *)
EXTENDS Naturals, Sequences, SequencesExt, FiniteSets

Allow(subject) == [ok |-> TRUE, subject |-> subject]
Deny(forbidden) == [ok |-> FALSE, forbidden |-> forbidden]

\* The signing algorithms each kind of key fixes.
Algorithms(family) ==
    CASE family = "hmac" -> {"HS256", "HS512"}
      [] family = "rsa" -> {"RS256", "PS256"}
      [] family = "ecdsa" -> {"ES256"}
      [] family = "eddsa" -> {"EdDSA"}

\* authjwt.New: exactly one key source, and the algorithms only with a Keyfunc.
NewJWT(c) ==
    /\ (c.key # "") # (c.keyfunc # "")
    /\ (c.key # "") => c.algorithms = {}
    /\ (c.keyfunc # "") => c.algorithms # {}

\* A Keyfunc's algorithms are as given, a key's are its family's.
ValidMethods(c) == IF c.key # "" THEN Algorithms(c.family) ELSE c.algorithms

\* jwt.ParseWithClaims with the options Authenticate passes it (external): the method
\* is a valid one, the signature is the key's, exp is there and not past, and the
\* issuer and an audience match when the configuration names them.
ParseWithClaims(c, t) ==
    /\ t.alg \in ValidMethods(c)
    /\ t.signedWith = (IF c.key # "" THEN c.key ELSE c.keyfunc)
    /\ t.exp = "future"
    /\ c.issuer # "" => t.iss = c.issuer
    /\ c.audiences # {} => t.aud \cap c.audiences # {}

\* An unset token equals an absent one.
bearerUnset(a, r) == IF r.bearer = a.want THEN Allow("bearer") ELSE Deny(FALSE)

bearerToken(a, r) ==
    IF a.want # "" /\ r.bearer # "" /\ r.bearer = a.want THEN Allow("bearer") ELSE Deny(FALSE)

basicAuth(a, r) ==
    IF a.pass # "" /\ r.user = a.user /\ r.pass = a.pass THEN Allow(a.user) ELSE Deny(FALSE)

apiKey(a, r) ==
    IF a.want # "" /\ r.key # "" /\ r.key = a.want THEN Allow("apikey") ELSE Deny(FALSE)

\* With no list at all any verified certificate will do.
mtls(a, r) ==
    IF /\ r.cert # ""
       /\ \/ a.cns = {} /\ a.dns = {}
          \/ r.cert \in a.cns
          \/ r.dns \cap a.dns # {}
      THEN Allow(r.cert) ELSE Deny(FALSE)

peerCred(a, r) ==
    IF /\ r.uid # ""
       /\ \/ a.uids = {} /\ a.gids = {}
          \/ r.uid \in a.uids
          \/ r.gid \in a.gids
      THEN Allow(r.uid) ELSE Deny(FALSE)

\* authjwt's Authenticate; the subject claim may be missing.
jwtAuth(a, r) ==
    IF r.jwt.alg # "" /\ ParseWithClaims(a.config, r.jwt) THEN Allow(r.jwt.sub) ELSE Deny(FALSE)

\* The first success decides, else the first error; with no members, refuse.
AnyOf(results) ==
    LET hit == SelectInSeq(results, LAMBDA x : x.ok)
    IN IF hit # 0 THEN results[hit] ELSE IF results = <<>> THEN Deny(FALSE) ELSE results[1]

\* The first error decides, else the first member names the caller.
AllOf(results) ==
    LET miss == SelectInSeq(results, LAMBDA x : ~x.ok)
    IN IF miss # 0 THEN results[miss] ELSE IF results = <<>> THEN Allow("") ELSE results[1]

\* A custom Authenticator of the application answers as it likes: "custom" stands for
\* one that allows, denies or forbids.
RECURSIVE Authenticate(_, _)
Authenticate(a, r) ==
    CASE a.kind = "bearer" -> bearerToken(a, r)
      [] a.kind = "basic" -> basicAuth(a, r)
      [] a.kind = "apikey" -> apiKey(a, r)
      [] a.kind = "mtls" -> mtls(a, r)
      [] a.kind = "peer" -> peerCred(a, r)
      [] a.kind = "jwt" -> jwtAuth(a, r)
      [] a.kind = "custom" -> a.answer
      [] a.kind = "anyOf" -> AnyOf([i \in DOMAIN a.members |-> Authenticate(a.members[i], r)])
      [] a.kind = "allOf" -> AllOf([i \in DOMAIN a.members |-> Authenticate(a.members[i], r)])

-----------------------------------------------------------------------------
(* References.                                                                  *)

\* The schemes a request satisfies on its own: what it presents is set on both sides
\* and agrees.
Presents(a, r) ==
    CASE a.kind = "bearer" -> a.want \in {r.bearer} \ {""}
      [] a.kind = "basic" -> a.pass \in {r.pass} \ {""} /\ a.user = r.user
      [] a.kind = "apikey" -> a.want \in {r.key} \ {""}
      [] a.kind = "mtls" -> /\ r.cert # ""
                            /\ a.cns \cup a.dns # {}
                                   => ({r.cert} \cap a.cns) \cup (r.dns \cap a.dns) # {}
      [] a.kind = "peer" -> /\ r.uid # ""
                            /\ a.uids \cup a.gids # {} => r.uid \in a.uids \/ r.gid \in a.gids
      [] a.kind = "jwt" -> /\ r.jwt.exp = "future"
                           /\ r.jwt.signedWith \in {a.config.key, a.config.keyfunc} \ {""}
                           /\ r.jwt.alg \in ValidMethods(a.config)
                           /\ a.config.issuer \in {"", r.jwt.iss}
                           /\ a.config.audiences = {} \/ r.jwt.aud \cap a.config.audiences # {}
      [] a.kind = "custom" -> a.answer.ok

RECURSIVE Grants(_, _)
Grants(a, r) ==
    CASE a.kind = "anyOf" -> \E i \in DOMAIN a.members : Grants(a.members[i], r)
      [] a.kind = "allOf" -> \A i \in DOMAIN a.members : Grants(a.members[i], r)
      [] OTHER -> Presents(a, r)

\* The names a request has proved: those its satisfied schemes would give it.
RECURSIVE Proved(_, _)
Proved(a, r) ==
    IF a.kind \in {"anyOf", "allOf"}
      THEN UNION {Proved(a.members[i], r) : i \in DOMAIN a.members}
      ELSE IF Presents(a, r) THEN {Authenticate(a, r).subject} ELSE {}

\* A scheme lets a request in exactly when it is granted, under a name it proved; only
\* AllOf of nothing gives no name.
Sound(a, r) ==
    LET v == Authenticate(a, r)
    IN /\ v.ok <=> Grants(a, r)
       /\ v.ok => v.subject \in Proved(a, r) \cup {""}
=============================================================================
