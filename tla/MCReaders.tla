------------------------------ MODULE MCReaders -----------------------------
(* The texts, documents and values on which the readers are compared with their *)
(* references.                                                                  *)
EXTENDS Values, Addresses

-----------------------------------------------------------------------------
(* JSON pointers.                                                               *)

Leaves == {Scalar("x"), Scalar("y")}
Names == {<<>>, <<"a">>, <<"0">>, <<"/">>, <<"~", "1">>}
Inner == Leaves \cup {Arr(<<Scalar("x"), Scalar("y"), Scalar("x")>>)}
           \cup {Obj([n \in {m} |-> Scalar("x")]) : m \in Names}
Documents ==
    Inner \cup {Arr(<<d, e>>) : d, e \in Inner}
      \cup {Obj(m) : m \in UNION {[{n, k} -> Inner] : n, k \in {<<"a">>, <<"/">>, <<"~", "1">>}}}
Pointers ==
    {<<>>} \cup {<<"/">> \o p : p \in SeqOf({"/", "~", "0", "1", "a"}, 4)}

PointersSelect == \A doc \in Documents, ptr \in Pointers : PointsTo(doc, ptr)

-----------------------------------------------------------------------------
(* Command lines: every text of up to five characters.                          *)

CommandLines == SeqOf({"a", " ", "'", "\"", "\\"}, 5)

\* A command line is read as a shell would, or refused where a shell would wait for
\* more, save that splitArgs drops a backslash a shell keeps between double quotes; and
\* a command that fails to run is never taken for a value that is absent.
CommandsRead ==
    \A s \in CommandLines :
        LET shell == Shell(s)
            argv == [i \in DOMAIN shell.val |-> SelectSeq(shell.val[i], LAMBDA c : c # Kept)]
            args == splitArgs(s)
        IN /\ args = IF shell.kind = "ok" THEN Read(argv) ELSE shell
           /\ \A how \in {"ok", "EACCES", "ENOENT", "exit"} :
                 LET got == execResolve(s, how)
                 IN /\ got.kind # "not_found"
                    /\ got.kind = "ok" => how = "ok" /\ got = args /\ got.val # <<>>

-----------------------------------------------------------------------------
(* .env files of two assignments.                                               *)

Contents == SeqOf({"a", " ", "#", "'", "\"", "\\", "\n"}, 2) \cup {<<"a", "\\", "n">>, <<"a", " ", "#">>}
Assign(k, text, ex) == (IF ex THEN <<"export", " ">> ELSE <<>>) \o <<k, "=">> \o text \o <<"\n">>
Errnos == {"", "ENOENT", "EACCES", "EIO"}
File(text) == [stat |-> "", read |-> "", text |-> text]

\* A value is read back from every spelling of it, the last assignment wins, a comment
\* assigns nothing, and only a key that is not there is absent. Where nothing is quoted
\* the flatten reader agrees.
EnvFilesRead ==
    /\ \A v \in Contents, w \in {<<"a">>, <<"\n", "\\">>} : \A sv \in Spellings(v) : \A k \in {"K", "L"}, ex \in BOOLEAN :
         LET text == Assign("K", sv, ex) \o <<"#", "K", "=", "z", "\n", "\n">>
                       \o Assign(k, <<"\"">> \o Escaped(w) \o <<"\"">>, ~ex)
             get(name) == dotenvResolve(File(text), <<name>>)
         IN /\ get("K") = Read(IF k = "K" THEN w ELSE v)
            /\ get("L") = IF k = "L" THEN Read(w) ELSE Refused("not_found")
    /\ \A v, w \in {c \in Contents : Bare(c)} :
         LET text == Assign("K", v, FALSE) \o Assign("L", w, FALSE)
         IN parseEnvPayload(text) = parseDotenv(text)
    /\ \A f \in [stat : Errnos, read : Errnos, text : {<<>>}] :
         dotenvResolve(f, <<"K">>).kind = "not_found" => {f.stat, f.read} \cap {"EACCES", "EIO"} = {} \/ f.stat = "ENOENT"

-----------------------------------------------------------------------------
(* Streams of up to two frames and heartbeats, cut anywhere.                    *)

Lines == {<<>>, <<"x">>, <<":", "x">>}
Items ==
    {[name |-> ""]} \cup {[name |-> "update", lines |-> <<l>>] : l \in Lines \cup {<<"x", "x", "x", "x">>}}
      \cup {[name |-> "put", lines |-> <<l, m>>] : l \in Lines, m \in {<<>>, <<" ", "x">>, <<"x", "x">>}}
Bounds == {[maxLine |-> 0, maxFrame |-> 4], [maxLine |-> 6, maxFrame |-> 0]}

StreamsRead ==
    /\ \A items \in SeqOf(Items, 2), b \in Bounds : StreamRead(NewSSEDecoder(b), items)
    /\ \A l \in Lines : /\ writeSSEValue(l) = Written([name |-> "update", lines |-> <<l>>])
                        /\ writeSSEError(l) = Written([name |-> "error", lines |-> <<l>>])

-----------------------------------------------------------------------------
(* Nacos listener answers naming up to two configurations.                      *)

Ids == {<<"app">>, <<"a", "+", "b">>}
Coordinates == {[dataID |-> d, group |-> g] : d \in Ids, g \in {<<"g">>, <<"h">>}}
Tenants == {<<>>, <<"t">>, <<"u">>}
Encode(s) ==
    [i \in DOMAIN s |-> CASE s[i] = LineSep -> "%01" [] s[i] = WordSep -> "%02" [] s[i] = "+" -> "%2B" [] OTHER -> s[i]]
Listed(c, t) == c.dataID \o <<WordSep>> \o c.group \o (IF t = <<>> THEN <<>> ELSE <<WordSep>> \o t) \o <<LineSep>>

\* A listener's answer wakes the watch of the configuration it names, under its tenant
\* or none as Nacos writes it, alone or beside another; it wakes no watch of another
\* configuration, nor one of another tenant.
ChangesRead ==
    \A c, d \in Coordinates, t, own \in Tenants :
        LET woken == changedConfigs(Encode(Listed(d, t)), c, own)
        IN /\ c = d /\ t \in {own, <<>>} => woken
           /\ c # d \/ (own # <<>> /\ t \notin {own, <<>>}) => ~woken
           /\ changedConfigs(Encode(Listed(d, t) \o Listed(c, own)), c, own)
           /\ ~changedConfigs(<<"\n">>, c, own)

-----------------------------------------------------------------------------
(* Endpoints and the credential for one.                                        *)

EndpointTexts ==
    {<<>>, <<"%">>, <<"h">>, <<"unix", "://">>}
      \cup {<<s, "://">> \o r : s \in {"unix", "https", "http", "ftp"}, r \in {<<"h">>, <<"h", "/", "/">>, <<"/", "s">>}}

\* The tool reaches what the provider reaches, plaintext is spoken only where it was
\* asked for, and a list of endpoints is taken whole or not at all.
EndpointsRead ==
    /\ \A e \in EndpointTexts, insecure \in BOOLEAN :
         LET p == parseEndpoint(e, insecure)
             t == toolParseEndpoint(e, insecure)
         IN /\ p.kind = "ok" <=> t.kind = "ok"
            /\ p.kind = "ok" => /\ p.val = t.val /\ Last(p.val.base) # "/"
                                /\ URL(e).scheme = "http" => insecure
    /\ \A one \in {<<>>, <<"https", "://", "h">>}, many \in SeqOf(EndpointTexts, 2) :
         LET got == newEndpoints([endpoint |-> one, endpoints |-> many, insecure |-> FALSE])
             named == IF one = <<>> THEN many ELSE <<one>> \o many
         IN /\ got.kind = "ok" <=> /\ one = <<>> \/ many = <<>>
                                   /\ named # <<>>
                                   /\ \A i \in DOMAIN named : parseEndpoint(named[i], FALSE).kind = "ok"
            /\ got.kind = "ok" => got.val = [i \in DOMAIN named |-> parseEndpoint(named[i], FALSE).val]

Files == {NoFile, [ok |-> FALSE, text |-> <<>>], [ok |-> TRUE, text |-> <<"t", "\n">>]}

\* A credential is sent as it was given, under one scheme, or nothing is sent.
CredentialsRead ==
    \A f \in [bearer : {<<>>, <<"t">>}, bearerFile : Files, basic : {<<>>, <<"t">>}, basicFile : Files,
              cert : BOOLEAN, key : BOOLEAN, loads : BOOLEAN] :
        LET got == resolveCredential(f)
            given(v, file) == v # <<>> \/ file # NoFile
        IN got.kind = "ok" =>
             /\ got.val.scheme = "Bearer" <=> given(f.bearer, f.bearerFile)
             /\ got.val.scheme = "Basic" <=> given(f.basic, f.basicFile)
             /\ got.val.value = IF got.val.scheme = "" THEN <<>> ELSE <<"t">>
             /\ f.cert = f.key /\ (got.val.cert => f.loads)

-----------------------------------------------------------------------------
(* Request paths.                                                               *)

Bases == {<<>>, <<"/">>, <<"/", "b">>, <<"/", "b", "/">>}
RequestPaths == SeqOf({"/", ".", "a", "%2F", "%2E"}, 4) \cup SeqOf({"/", "\\", "%", "."}, 3)

\* Where a server goes that drops "." and takes ".." for a step up.
Normal(segs) ==
    LET step(at, seg) == CASE seg = <<".">> -> at
                           [] seg = <<".", ".">> -> IF at = <<>> THEN at ELSE Front(at)
                           [] OTHER -> Append(at, seg)
    IN FoldLeft(step, <<>>, segs)

\* A request stays under its base URL, encoded or not, at the path it was given; and a
\* body is read whole or refused.
RequestsStay ==
    /\ \A base \in Bases, req \in RequestPaths :
         LET got == setPath(base, req)
         IN /\ got.kind = "ok" =>
                  Normal(Segments(PathUnescape(got.val).val)) = Segments(base) \o Segments(PathUnescape(req).val)
            /\ (\A i \in DOMAIN req : req[i] \notin {".", "%2E", "%"}) => got.kind = "ok"
    /\ \A body \in SeqOf({"x"}, 4), max \in 0..3 :
         readBounded(body, max) = IF Len(body) <= max THEN Read(body) ELSE Refused("invalid")

-----------------------------------------------------------------------------
(* Refs of a container and a name.                                              *)

RefPaths == SeqOf({"/", "a", "b"}, 5)

\* A ref is read as what it says, the container given or configured, by the providers
\* alike, or refused.
RefsNamePlaces ==
    \A path \in RefPaths, own \in {<<>>, <<"d">>} :
        LET bare == TrimLeft(path, "/")
            slashes == Cardinality({i \in DOMAIN bare : bare[i] = "/"})
            says(got) == got.kind = "ok" =>
                            \/ bare = got.val.name /\ got.val.in = own
                            \/ bare = got.val.in \o <<"/">> \o got.val.name /\ slashes = 1
            wellFormed == bare # <<>> /\ Last(bare) # "/"
        IN /\ says(coordinatesFor(path, own)) /\ says(targetFor(path, own)) /\ says(parsePath(path, own))
           /\ parseRef(path).kind = "ok" <=> wellFormed
           /\ wellFormed => LET got == parseRef(path).val
                            IN bare = (IF got.in = <<"/">> /\ slashes = 0 THEN <<>> ELSE Append(Tail(got.in), "/")) \o got.name
           /\ wellFormed /\ slashes <= 1 /\ own # <<>> /\ Len(path) - Len(bare) <= 1 =>
                 \A got \in {coordinatesFor(path, own), targetFor(path, own), parsePath(path, own)} : got.kind = "ok"

Exact ==
    /\ PointersSelect /\ CommandsRead /\ EnvFilesRead /\ StreamsRead /\ ChangesRead
    /\ EndpointsRead /\ CredentialsRead /\ RequestsStay /\ RefsNamePlaces

-----------------------------------------------------------------------------
(* The versions of derived values.                                              *)

Texts == SeqOf({"s", ";", "1", ":"}, 2)
Str(t) == [kind |-> "string", text |-> t]
Nil == [kind |-> "nil"]
Slice(e) == [kind |-> "slice", elems |-> e]
Struct(a, b) == [kind |-> "struct", fields |-> <<[name |-> "A", val |-> a], [name |-> "B", val |-> b]>>]
Strs == {Str(t) : t \in Texts}
Short == {Str(t) : t \in SeqOf({";", "1"}, 1)}

Ptr(t) == [kind |-> "pointer", elem |-> t]
Map(es) == [kind |-> "map", entries |-> es]
Numbers ==
    {[kind |-> "int", n |-> n] : n \in -1..2} \cup {[kind |-> "uint", n |-> n] : n \in 0..2}
      \cup {[kind |-> "float", text |-> x] : x \in {"1", "-1", "0.5"}}
      \cup {[kind |-> "complex", re |-> x, im |-> y] : x, y \in {"1", "-1"}}
      \cup {[kind |-> "bool", text |-> b] : b \in {"true", "false"}}
Identities == {[kind |-> k, id |-> n] : k \in {"chan", "func"}, n \in 1..2}

\* Linked lists of up to four strings: a bound of 3 reads the first string and whether
\* there is a second.
RECURSIVE Lists(_)
Lists(n) == IF n = 0 THEN {Nil} ELSE {Nil} \cup {Ptr(Struct(s, l)) : s \in Short, l \in Lists(n - 1)}

\* For each static type, values it may hold: a string; a struct of two; a nil or
\* non-nil slice; a pointer beside it; a list; a map, also one whose keys are channels;
\* an interface, whose dynamic type varies.
TypedValues ==
    {Strs, {Struct(a, b) : a, b \in Strs},
     {Nil} \cup {Slice(<<a, b>>) : a, b \in Strs} \cup {Slice(<<a>>) : a \in Strs} \cup {Slice(<<>>)},
     {Struct(a, b) : a \in {Nil} \cup {Slice(e) : e \in SeqOf(Short, 2)},
                     b \in {Nil} \cup {Ptr(t) : t \in Short}},
     Lists(4),
     {Nil} \cup {Map({<<k, m[k]>> : k \in DOMAIN m}) : m \in UNION {[ks -> Short] : ks \in SUBSET Short}},
     {Map({<<k, m[k]>> : k \in DOMAIN m}) :
         m \in UNION {[ks -> Short] : ks \in SUBSET {x \in Identities : x.kind = "chan"}}},
     {[kind |-> "interface", elem |-> e] :
         e \in Short \cup Numbers \cup Identities
                \cup {[kind |-> k, text |-> s.text] : k \in {"secret", "bytes"}, s \in Short}} \cup {Nil}}

VersionsSeparate == \A values \in TypedValues : Separates(values)
=============================================================================
