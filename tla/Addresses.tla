------------------------------ MODULE Addresses -----------------------------
(* What names a place: the endpoint of a mamori server and the credential for   *)
(* it (providers/mamori/mamori.go, and cmd/mamori/client.go and flags.go, which *)
(* read the same endpoint on their own), the path of a request under a base URL *)
(* (providers/httpcore/do.go), and the refs of the providers whose path holds a *)
(* container and a name.                                                        *)
(*                                                                              *)
(* A text is a sequence of characters, as in Readers; "%2F" stands for the      *)
(* three characters that encode "/", and "%" alone for an escape of nothing.    *)
EXTENDS Readers

TrimLeft(s, c) ==
    LET other == {i \in DOMAIN s : s[i] # c}
    IN IF other = {} THEN <<>> ELSE From(s, Min(other))

TrimRight(s, cs) ==
    LET other == {i \in DOMAIN s : s[i] \notin cs}
    IN IF other = {} THEN <<>> ELSE SubSeq(s, 1, Max(other))

-----------------------------------------------------------------------------
(* Endpoints.                                                                   *)

\* url.Parse: the scheme before "://", and the path from the next slash on.
URL(s) ==
    LET rest == From(s, 3)
        schemed == Len(s) >= 2 /\ s[2] = "://"
    IN [ok |-> Find(s, "%") = 0,
        scheme |-> IF schemed THEN s[1] ELSE "",
        path |-> IF schemed /\ Find(rest, "/") # 0 THEN From(rest, Find(rest, "/")) ELSE <<>>]

Unix(path) == Read([base |-> <<"http", "://", "unix">>, socket |-> path])
Web(endpoint) == Read([base |-> TrimRight(endpoint, {"/"}), socket |-> <<>>])

\* The provider's reading of an endpoint.
parseEndpoint(endpoint, insecure) ==
    LET u == URL(endpoint)
    IN CASE endpoint = <<>> \/ ~u.ok -> Refused("invalid")
         [] endpoint # <<>> /\ u.ok /\ u.scheme = "unix" ->
              IF u.path = <<>> THEN Refused("invalid") ELSE Unix(u.path)
         [] endpoint # <<>> /\ u.ok /\ u.scheme = "https" -> Web(endpoint)
         [] endpoint # <<>> /\ u.ok /\ u.scheme = "http" ->
              IF insecure THEN Web(endpoint) ELSE Refused("invalid")
         [] OTHER -> Refused("invalid")

\* The command line tool's, which classifies no error.
toolParseEndpoint(endpoint, insecure) ==
    LET u == URL(endpoint)
        known == endpoint # <<>> /\ u.ok
    IN CASE known /\ u.scheme = "unix" /\ u.path # <<>> -> Unix(u.path)
         [] known /\ u.scheme = "https" -> Web(endpoint)
         [] known /\ u.scheme = "http" /\ insecure -> Web(endpoint)
         [] OTHER -> Refused("failed")

configuredEndpoints(cfg) ==
    CASE cfg.endpoint # <<>> /\ cfg.endpoints # <<>> -> Refused("invalid")
      [] cfg.endpoint = <<>> /\ cfg.endpoints # <<>> -> Read(cfg.endpoints)
      [] OTHER -> Read(<<cfg.endpoint>>)

\* One endpoint that cannot be read and the provider has none.
newEndpoints(cfg) ==
    LET addrs == configuredEndpoints(cfg)
        read == [i \in DOMAIN addrs.val |-> parseEndpoint(addrs.val[i], cfg.insecure)]
    IN IF addrs.kind # "ok" THEN addrs
       ELSE IF \E i \in DOMAIN read : read[i].kind # "ok" THEN Refused("invalid")
       ELSE Read([i \in DOMAIN read |-> read[i].val])

\* A flag's value, or what its file holds without the blanks at its end.
resolveValue(value, file) ==
    CASE value # <<>> -> Read(value)
      [] value = <<>> /\ file.ok -> Read(TrimRight(file.text, Blank))
      [] OTHER -> Refused("failed")

\* NoFile is the flag that was not given.
NoFile == [ok |-> FALSE, text |-> <<"none">>]

resolveCredential(f) ==
    LET bearerSet == f.bearer # <<>> \/ f.bearerFile # NoFile
        basicSet == f.basic # <<>> \/ f.basicFile # NoFile
        got == CASE bearerSet -> resolveValue(f.bearer, f.bearerFile)
                 [] ~bearerSet /\ basicSet -> resolveValue(f.basic, f.basicFile)
                 [] OTHER -> Read(<<>>)
    IN IF (bearerSet /\ basicSet) \/ got.kind # "ok" \/ f.cert # f.key \/ (f.cert /\ ~f.loads) THEN Refused("failed")
       ELSE Read([scheme |-> IF bearerSet THEN "Bearer" ELSE IF basicSet THEN "Basic" ELSE "",
                  value |-> got.val, cert |-> f.cert])

-----------------------------------------------------------------------------
(* Request paths.                                                               *)

PathUnescape(s) ==
    IF Find(s, "%") # 0 THEN Refused("invalid")
    ELSE Read([i \in DOMAIN s |-> CASE s[i] = "%2F" -> "/" [] s[i] = "%2E" -> "." [] OTHER -> s[i]])

\* strings.FieldsFunc at either slash: the pieces that are not empty.
Segments(s) ==
    LET one == [i \in DOMAIN s |-> IF s[i] = "\\" THEN "/" ELSE s[i]]
    IN SelectSeq(Pieces(one, "/"), LAMBDA p : p # <<>>)

hasDotSegment(p) == \E i \in DOMAIN Segments(p) : Segments(p)[i] \in {<<".">>, <<".", ".">>}

joinPath(base, p) ==
    CASE p = <<>> -> base
      [] p # <<>> /\ base \in {<<>>, <<"/">>} -> <<"/">> \o TrimPrefix(p, <<"/">>)
      [] OTHER -> (IF Last(base) = "/" THEN Front(base) ELSE base) \o <<"/">> \o TrimPrefix(p, <<"/">>)

\* The escaped path on the wire.
setPath(basePath, reqPath) ==
    LET req == PathUnescape(reqPath)
        raw == joinPath(basePath, reqPath)
    IN IF req.kind # "ok" \/ hasDotSegment(req.val) \/ PathUnescape(raw).kind # "ok"
         THEN Refused("invalid") ELSE Read(raw)

\* A body is read to one byte past the limit, to tell a whole one from a longer one.
readBounded(body, max) ==
    LET b == SubSeq(body, 1, IF Len(body) > max + 1 THEN max + 1 ELSE Len(body))
    IN IF Len(b) > max THEN Refused("invalid") ELSE Read(b)

-----------------------------------------------------------------------------
(* Refs of a container and a name. Given a path and the configured container.   *)

Place(container, name) ==
    IF container = <<>> \/ name = <<>> THEN Refused("invalid") ELSE Read([in |-> container, name |-> name])

\* nacos: the path is cut at its first slash, and what follows holds no other.
coordinatesFor(path, group) ==
    LET p == TrimPrefix(path, <<"/">>)
        at == Find(p, "/")
    IN CASE at = 0 -> Place(group, p)
         [] at # 0 /\ Find(From(p, at + 1), "/") # 0 -> Refused("invalid")
         [] OTHER -> Place(SubSeq(p, 1, at - 1), From(p, at + 1))

\* heroku: an empty app falls back to the configured one.
targetFor(path, app) ==
    LET parts == Pieces(TrimPrefix(path, <<"/">>), "/")
    IN CASE Len(parts) = 1 -> Place(app, parts[1])
         [] Len(parts) = 2 -> Place(IF parts[1] = <<>> THEN app ELSE parts[1], parts[2])
         [] OTHER -> Refused("invalid")

\* vercel-gc
parsePath(path, store) ==
    LET segs == Pieces(TrimLeft(path, "/"), "/")
    IN CASE Len(segs) = 1 -> Place(store, segs[1])
         [] Len(segs) = 2 -> Place(segs[1], segs[2])
         [] OTHER -> Refused("invalid")

\* scaleway-sm: the name follows the last slash, and the directory may be the root.
parseRef(path) ==
    LET p == TrimLeft(path, "/")
        cuts == {i \in DOMAIN p : p[i] = "/"}
        at == IF cuts = {} THEN 0 ELSE Max(cuts)
    IN Place(<<"/">> \o SubSeq(p, 1, at - 1), From(p, at + 1))
=============================================================================
