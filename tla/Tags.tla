-------------------------------- MODULE Tags --------------------------------
(* Struct tags and the two readers of them. At run time decode.go's walkSpecs   *)
(* turns a config struct into the fields Load and Watch resolve, reading each   *)
(* source tag with ref.go and refvars.go. The command line tool reads the same  *)
(* tags without running the program: explain and schema list them (extract.go), *)
(* policy and diff draw the backend paths from them, vet flags a secret in a    *)
(* plain field. Everything here is a pure function of the tags.                 *)
(*                                                                              *)
(* A tag is a sequence of tokens: words, and the marks : // , ? # $ { } and     *)
(* space. A struct is a sequence of fields; a field's tags are a record holding *)
(* only the tags that are present, as reflect.StructTag.Lookup sees them.       *)
EXTENDS Naturals, Sequences, SequencesExt, FiniteSets, FiniteSetsExt

CONSTANTS
    Words,          \* the tokens that may start a scheme
    Codings,        \* the codings ?decode= knows
    SecretSchemes   \* the schemes sourcetag lists as secret-bearing

Good(v) == [ok |-> TRUE, val |-> v]
Bad == [ok |-> FALSE]

-----------------------------------------------------------------------------
(* Source refs: ref.go.                                                         *)

TrimSpace(s) ==
    LET kept == {i \in DOMAIN s : s[i] # " "}
    IN IF kept = {} THEN <<>> ELSE SubSeq(s, Min(kept), Max(kept))

Cut(s, mark) == SelectInSeq(s, LAMBDA c : c = mark)
Before(s, i) == SubSeq(s, 1, i - 1)
After(s, i) == SubSeq(s, i + 1, Len(s))
TrimPrefix(s, p) == IF s # <<>> /\ s[1] = p THEN Tail(s) ELSE s

\* schemeStart, matched at the start of s: blanks, then a scheme and its colon.
SchemeStartSpaced(s) ==
    LET t == SubSeq(s, Len(s) - Len(TrimSpace(Append(s, ":"))) + 2, Len(s))
    IN Len(t) > 1 /\ t[1] \in Words /\ t[2] = ":"

\* The pieces of s between the commas in cuts.
Pieces(s, cuts) ==
    LET cs == <<0>> \o SetToSortSeq(cuts, <) \o <<Len(s) + 1>>
    IN [k \in 1..(Len(cs) - 1) |-> SubSeq(s, cs[k] + 1, cs[k + 1] - 1)]

SplitAt(s, Starts(_)) ==
    Pieces(s, {i \in DOMAIN s : s[i] = "," /\ Starts(After(s, i))})

splitChain(tag) == SplitAt(tag, SchemeStartSpaced)

ParseRef(text) ==
    LET tag == TrimSpace(text)
        colon == Cut(tag, ":")
        rest == TrimPrefix(After(tag, colon), "//")
        query == Cut(rest, "?")
        named == IF query = 0 THEN rest ELSE Before(rest, query)
        hash == Cut(named, "#")
    IN IF colon < 2
         THEN Bad
         ELSE Good([scheme |-> Before(tag, colon),
                    path |-> IF hash = 0 THEN named ELSE Before(named, hash),
                    key |-> IF hash = 0 THEN <<>> ELSE After(named, hash),
                    opts |-> IF query = 0 THEN <<>> ELSE After(rest, query),
                    raw |-> tag])

\* The values of a sequence of results, or Bad if one of them is.
All(results) ==
    IF \A i \in DOMAIN results : results[i].ok
      THEN Good([i \in DOMAIN results |-> results[i].val])
      ELSE Bad

ParseRefs(text) ==
    LET tag == TrimSpace(text)
        parts == splitChain(tag)
    IN IF tag = <<>> THEN Bad ELSE All([i \in DOMAIN parts |-> ParseRef(parts[i])])

\* expandRefVars: ${name} is the variable's value and an error if there is none, $$
\* is a dollar sign, and so is a dollar sign before anything else.
RECURSIVE expandRefVars(_, _)
expandRefVars(s, vars) ==
    LET rest(n) == expandRefVars(SubSeq(s, n + 1, Len(s)), vars)
        follow(text, r) == IF r.ok THEN Good(text \o r.val) ELSE Bad
        close == Cut(s, "}")
        name == SubSeq(s, 3, close - 1)
    IN CASE s = <<>> -> Good(<<>>)
         [] s # <<>> /\ s[1] # "$" -> follow(<<s[1]>>, rest(1))
         [] Len(s) > 1 /\ s[1] = "$" /\ s[2] = "$" -> follow(<<"$">>, rest(2))
         [] Len(s) > 1 /\ s[1] = "$" /\ s[2] = "{" ->
              IF close = 0 \/ name \notin DOMAIN vars
                THEN Bad
                ELSE follow(vars[name], rest(close))
         [] OTHER -> follow(<<"$">>, rest(1))

\* The codings a ref's ?decode= names, each trimmed; all of them must be known.
Pipeline(ref) ==
    IF Len(ref.opts) > 1 /\ ref.opts[1] = "decode="
      THEN LET parts == SplitAt(Tail(ref.opts), LAMBDA s : TRUE)
           IN [i \in DOMAIN parts |-> TrimSpace(parts[i])]
      ELSE <<>>

parseDecodePipeline(ref) ==
    \A i \in DOMAIN Pipeline(ref) :
        Len(Pipeline(ref)[i]) = 1 /\ Pipeline(ref)[i][1] \in Codings

-----------------------------------------------------------------------------
(* The runtime's reading of a struct: decode.go.                                *)

Has(f, tag) == tag \in DOMAIN f.tags
Tag(f, tag) == IF Has(f, tag) THEN f.tags[tag] ELSE <<>>
Path(prefix, f) == Append(prefix, f.name)
IsStruct(f) == f.type = "struct"
IsSecret(f) == f.type \in {"secret.String", "secret.Bytes"}

onFailPolicy(f) ==
    CASE ~Has(f, "onfail") -> Good("keeplast")
      [] Tag(f, "onfail") = <<"keeplast">> -> Good("keeplast")
      [] Tag(f, "onfail") = <<"default">> /\ Has(f, "default") -> Good("default")
      [] Tag(f, "onfail") = <<"fail">> -> Good("fail")
      [] OTHER -> Bad

\* The spec of a field with a source.
Spec1(f, prefix, vars) ==
    LET text == expandRefVars(f.tags.source, vars)
        refs == ParseRefs(text.val)
        policy == onFailPolicy(f)
    IN IF \/ ~text.ok
          \/ ~refs.ok
          \/ \E i \in DOMAIN refs.val : ~parseDecodePipeline(refs.val[i])
          \/ ~policy.ok
          \/ IsStruct(f) /\ ~Has(f, "flatten")
         THEN Bad
         ELSE Good(<<[path |-> Path(prefix, f), refs |-> refs.val, default |-> Tag(f, "default"),
                      hasDefault |-> Has(f, "default"),
                      optional |-> Tag(f, "optional") = <<"true">>,
                      onfail |-> policy.val, sensitive |-> IsSecret(f)]>>)

RECURSIVE walkSpecs(_, _, _)
walkSpecs(st, prefix, vars) ==
    LET one(f) ==
            IF ~f.exported THEN Good(<<>>)
            ELSE IF Has(f, "source") THEN Spec1(f, prefix, vars)
            ELSE IF IsStruct(f) THEN walkSpecs(f.fields, Path(prefix, f), vars)
            ELSE Good(<<>>)
        each == All([i \in DOMAIN st |-> one(st[i])])
    IN IF each.ok THEN Good(FlattenSeq(each.val)) ELSE Bad

fieldSpecs(st, vars) == walkSpecs(st, <<>>, vars)

-----------------------------------------------------------------------------
(* The command line tool's reading: extract.go, sourcetag.go, policy.go.        *)

\* chainSchemeStart: as schemeStart, but no blank may come first.
ChainSchemeStart(s) == Len(s) > 1 /\ s[1] \in Words /\ s[2] = ":"

SplitOnEveryComma(tag) == SplitAt(tag, LAMBDA s : TRUE)

SplitChain(tag) == SplitAt(tag, ChainSchemeStart)

SchemeOf(ref) ==
    LET tag == TrimSpace(ref)
    IN IF Cut(tag, ":") < 2 THEN Bad ELSE Good(Before(tag, Cut(tag, ":")))

\* A ref's path: up to the first # or ?, without the leading //.
refPath(ref) ==
    LET tag == TrimSpace(ref)
        rest == TrimPrefix(After(tag, Cut(tag, ":")), "//")
        end == SelectInSeq(rest, LAMBDA c : c \in {"#", "?"})
    IN IF end = 0 THEN rest ELSE Before(rest, end)

FirstSensitiveScheme(tag) ==
    LET parts == SplitChain(TrimSpace(tag))
    IN \E i \in DOMAIN parts :
           SchemeOf(parts[i]).ok /\ SchemeOf(parts[i]).val \in SecretSchemes

Field(f, prefix, kind) ==
    [path |-> Path(prefix, f), kind |-> kind, type |-> f.type,
     refs |-> IF kind = "source" THEN SplitChain(f.tags.source) ELSE <<>>,
     default |-> Tag(f, "default"), hasDefault |-> Has(f, "default"),
     optional |-> Tag(f, "optional") = <<"true">>,
     sensitive |-> IsSecret(f) \/ (kind = "source" /\ FirstSensitiveScheme(f.tags.source)),
     onfail |-> IF kind = "source" THEN Tag(f, "onfail") ELSE <<>>,
     validate |-> Tag(f, "validate")]

RECURSIVE walkFields(_, _)
walkFields(st, prefix) ==
    LET one(f) ==
            IF ~f.exported THEN <<>>
            ELSE IF Has(f, "source") THEN <<Field(f, prefix, "source")>>
            ELSE IF IsStruct(f) THEN walkFields(f.fields, Path(prefix, f))
            ELSE IF Has(f, "validate") THEN <<Field(f, prefix, "validate")>>
            ELSE <<>>
    IN FlattenSeq([i \in DOMAIN st |-> one(st[i])])

\* derivedFields: a declared path already listed as validate-only becomes derived,
\* and one not listed at all is added once; paths holds those that name a field.
derivedFields(walked, paths) ==
    LET listed == {walked[i].path : i \in DOMAIN walked}
        promoted == [i \in DOMAIN walked |->
                        IF walked[i].kind = "validate" /\ walked[i].path \in Range(paths)
                          THEN [walked[i] EXCEPT !.kind = "derived"]
                          ELSE walked[i]]
        firsts == {i \in DOMAIN paths : paths[i] \notin listed
                                          /\ \A j \in 1..(i - 1) : paths[j] # paths[i]}
        added == [k \in 1..Cardinality(firsts) |->
                     Field([name |-> Last(paths[SetToSortSeq(firsts, <)[k]]), type |-> "derived",
                            tags |-> <<>>],
                           Front(paths[SetToSortSeq(firsts, <)[k]]), "derived")]
    IN promoted \o added

Extract(st, paths) == derivedFields(walkFields(st, <<>>), paths)

\* What explain prints: every field but the validate-only ones.
withoutValidateOnly(fields) == SelectSeq(fields, LAMBDA f : f.kind # "validate")

\* The backend paths a listing reads, each with its scheme.
collectPolicyRefs(fields) ==
    {<<SchemeOf(ref).val, refPath(ref)>> :
        ref \in {r \in UNION {Range(fields[i].refs) : i \in {j \in DOMAIN fields :
                                                               fields[j].kind = "source"}} :
                    SchemeOf(r).ok}}

plainSecretKind(type) == type \in {"string", "[]byte"}

\* What vet reports of a field: a secret-bearing scheme in a plain string or []byte.
checkField(f) ==
    Has(f, "source") /\ FirstSensitiveScheme(f.tags.source) /\ plainSecretKind(f.type)

-----------------------------------------------------------------------------
(* Comparing two listings: diffmodel.go.                                        *)

firstIndexOf(chain) ==
    [r \in Range(chain) |-> Min({i \in DOMAIN chain : chain[i] = r})]

\* Two chains of the same refs are the same, in whatever order.
diffChainAsSets(base, head) ==
    {[kind |-> "removed", ref |-> r] : r \in Range(base) \ Range(head)}
      \cup {[kind |-> "added", ref |-> r] : r \in Range(head) \ Range(base)}

diffChain(base, head) ==
    LET b == firstIndexOf(base)
        h == firstIndexOf(head)
    IN {[kind |-> "removed", ref |-> r] : r \in DOMAIN b \ DOMAIN h}
         \cup {[kind |-> "added", ref |-> r] : r \in DOMAIN h \ DOMAIN b}
         \cup {[kind |-> "moved", ref |-> r] : r \in {x \in DOMAIN b \cap DOMAIN h : b[x] # h[x]}}

\* defaultAttr: no default prints differently from any default but "(none)".
defaultAttr(f) == IF f.hasDefault THEN f.default ELSE <<"(none)">>

diffAttrs(b, h) ==
    {a \in {"type", "optional", "sensitive", "onfail", "validate"} : b[a] # h[a]}
      \cup {a \in {"default"} : defaultAttr(b) # defaultAttr(h)}

indexFields(fields) ==
    [p \in {fields[i].path : i \in DOMAIN fields} |->
        fields[Min({i \in DOMAIN fields : fields[i].path = p})]]

\* The paths that differ, each with its verdict.
diffFields(base, head) ==
    LET b == indexFields(base)
        h == indexFields(head)
    IN {[path |-> p, kind |-> "removed"] : p \in DOMAIN b \ DOMAIN h}
         \cup {[path |-> p, kind |-> "added"] : p \in DOMAIN h \ DOMAIN b}
         \cup {[path |-> p, kind |-> "modified"] :
                  p \in {x \in DOMAIN b \cap DOMAIN h :
                            diffAttrs(b[x], h[x]) # {} \/ diffChain(b[x].refs, h[x].refs) # {}}}

\* missingFrom, for every scheme.
missingFrom(want, have) == want \ have

\* A surface is what explain prints of a program: a sequence of structs, each with its
\* package and name as key and its fields.
Surface(structs) == UNION {collectPolicyRefs(structs[i].fields) : i \in DOMAIN structs}

computePrivilegeDelta(base, head) ==
    [added |-> missingFrom(Surface(head), Surface(base)),
     removed |-> missingFrom(Surface(base), Surface(head))]

indexStructs(structs) ==
    [k \in {structs[i].key : i \in DOMAIN structs} |->
        structs[Min({i \in DOMAIN structs : structs[i].key = k})].fields]

computeDiff(base, head) ==
    LET b == indexStructs(base)
        h == indexStructs(head)
        both == DOMAIN b \cap DOMAIN h
    IN [structs |-> {[key |-> k, kind |-> "removed", fields |-> {}] : k \in DOMAIN b \ DOMAIN h}
                      \cup {[key |-> k, kind |-> "added", fields |-> {}] : k \in DOMAIN h \ DOMAIN b}
                      \cup {[key |-> k, kind |-> "modified", fields |-> diffFields(b[k], h[k])] :
                               k \in {x \in both : diffFields(b[x], h[x]) # {}}},
        privilege |-> computePrivilegeDelta(base, head)]

Empty(d) == d.structs = {} /\ d.privilege.added = {} /\ d.privilege.removed = {}

PrivilegeGrew(d) == d.privilege.added # {}

-----------------------------------------------------------------------------
(* What the tool says against what the program does.                            *)

\* The refs a struct resolves at run time, by scheme and path.
Resolved(specs) == {<<r.scheme, r.path>> : r \in UNION {Range(specs[i].refs) : i \in DOMAIN specs}}

\* What is listed of a sourced field is what the runtime makes of it.
ShowsSpec(f, spec) ==
    /\ f.path = spec.path
    /\ [i \in DOMAIN f.refs |-> TrimSpace(f.refs[i])] = [i \in DOMAIN spec.refs |-> spec.refs[i].raw]
    /\ f.default = spec.default /\ f.hasDefault = spec.hasDefault
    /\ f.optional = spec.optional
    /\ (IF f.onfail = <<>> THEN "keeplast" ELSE f.onfail[1]) = spec.onfail
    /\ f.sensitive <=> \/ spec.sensitive
                       \/ \E i \in DOMAIN spec.refs : spec.refs[i].scheme \in SecretSchemes

\* Every field of a struct, with those one level down.
FieldsOf(st) == Range(st) \cup UNION {Range(f.fields) : f \in {g \in Range(st) : IsStruct(g)}}

\* A struct the runtime accepts is listed as the runtime reads it, whatever the derive
\* hooks declare to write; the paths that policy grants are the ones it resolves; and
\* vet flags the plain fields that a secret-bearing ref may fill.
ListedAsRead(st, paths) ==
    LET specs == fieldSpecs(st, <<>>)
        shown == SelectSeq(Extract(st, paths), LAMBDA f : f.kind = "source")
    IN specs.ok =>
          /\ \A f \in FieldsOf(st) : Has(f, "source") =>
                (checkField(f) <=>
                    /\ f.type \in {"string", "[]byte"}
                    /\ \E r \in Range(ParseRefs(f.tags.source).val) : r.scheme \in SecretSchemes)
          /\ Len(shown) = Len(specs.val)
          /\ \A i \in DOMAIN shown : ShowsSpec(shown[i], specs.val[i])
          /\ collectPolicyRefs(shown) = Resolved(specs.val)

\* The ref a chain takes its value from when exactly the refs in up answer.
Taken(spec, up) ==
    LET hits == {i \in DOMAIN spec.refs : spec.refs[i].raw \in up}
    IN IF hits = {} THEN <<>> ELSE spec.refs[Min(hits)].raw

\* Two structs that take every field from the same place whatever answers, and treat
\* what is absent or failing alike.
ReadAlike(base, head) ==
    /\ Len(base) = Len(head)
    /\ \A i \in DOMAIN base :
          /\ \A a \in {"path", "default", "hasDefault", "optional", "onfail"} :
                 base[i][a] = head[i][a]
          /\ \A up \in SUBSET {r.raw : r \in Range(base[i].refs) \cup Range(head[i].refs)} :
                 Taken(base[i], up) = Taken(head[i], up)

Explain(key, st) == [key |-> key, fields |-> withoutValidateOnly(Extract(st, <<>>))]

\* A diff of two accepted structs of one name that comes out empty hides no change in
\* what is read, one that was renamed is never silent, and the privilege verdict is
\* that of the paths really resolved.
DiffTells(base, head) ==
    LET b == fieldSpecs(base, <<>>)
        h == fieldSpecs(head, <<>>)
        d(key) == computeDiff(<<Explain("A", base)>>, <<Explain(key, head)>>)
    IN b.ok /\ h.ok =>
          /\ Empty(d("A")) => ReadAlike(b.val, h.val)
          /\ ~Empty(d("B"))
          /\ \A key \in {"A", "B"} :
                PrivilegeGrew(d(key)) <=> ~(Resolved(h.val) \subseteq Resolved(b.val))
=============================================================================
