------------------------------- MODULE Values -------------------------------
(* What becomes of a resolved value. jsonpointer.go selects a part of a JSON    *)
(* payload by an RFC 6901 pointer. derivedversion.go gives a derived field a    *)
(* version by hashing a canonical encoding of its value; VersionHash is taken   *)
(* to separate different byte strings, so the version is the encoding itself.   *)
(*                                                                              *)
(* A text is a sequence of characters. A JSON document is an object (a function *)
(* from texts), an array, a scalar, or a node that does not parse.              *)
EXTENDS Integers, Sequences, SequencesExt, FiniteSets, FiniteSetsExt

CONSTANTS
    Digits,                \* the characters "0", "1", ... in use, in order
    derivedVersionMaxDepth \* how deep a value is read

Obj(m) == [kind |-> "{", members |-> m]
Arr(e) == [kind |-> "[", elems |-> e]
Scalar(s) == [kind |-> "scalar", text |-> s]

-----------------------------------------------------------------------------
(* JSON pointers: jsonpointer.go.                                               *)

Selected(v) == [kind |-> "ok", node |-> v]
Fault(k) == [kind |-> k]

\* unescapeToken: one pass from the left; ~ must be followed by 0 or 1.
RECURSIVE unescapeToken(_)
unescapeToken(tok) ==
    LET then(c, n) ==
            LET rest == unescapeToken(SubSeq(tok, n + 1, Len(tok)))
            IN IF rest.kind = "ok" THEN Selected(<<c>> \o rest.node) ELSE rest
    IN CASE tok = <<>> -> Selected(<<>>)
         [] tok # <<>> /\ tok[1] # "~" -> then(tok[1], 1)
         [] Len(tok) > 1 /\ tok[1] = "~" /\ tok[2] = "0" -> then("~", 2)
         [] Len(tok) > 1 /\ tok[1] = "~" /\ tok[2] = "1" -> then("/", 2)
         [] OTHER -> Fault("invalid")

Digit(c) == SelectInSeq(Digits, LAMBDA d : d = c) - 1

\* arrayIndex: digits only, and no leading zero.
arrayIndex(tok) ==
    IF /\ tok # <<>>
       /\ \A i \in DOMAIN tok : tok[i] \in Range(Digits)
       /\ ~(Len(tok) > 1 /\ tok[1] = Digits[1])
      THEN Selected(FoldLeft(LAMBDA n, c : Len(Digits) * n + Digit(c), 0, tok))
      ELSE Fault("invalid")

descend(node, tok) ==
    CASE node.kind = "{" ->
           IF tok \in DOMAIN node.members THEN Selected(node.members[tok]) ELSE Fault("not_found")
      [] node.kind = "[" ->
           LET i == arrayIndex(tok)
           IN IF i.kind # "ok" THEN i
              ELSE IF i.node >= Len(node.elems) THEN Fault("not_found")
              ELSE Selected(node.elems[i.node + 1])
      [] OTHER -> Fault("invalid")

\* The reference tokens of a pointer, which begins with /.
Tokens(ptr) ==
    LET slashes == SetToSortSeq({i \in DOMAIN ptr : ptr[i] = "/"}, <) \o <<Len(ptr) + 1>>
    IN [k \in 1..(Len(slashes) - 1) |-> SubSeq(ptr, slashes[k] + 1, slashes[k + 1] - 1)]

selectPointer(doc, ptr) ==
    LET step(at, raw) ==
            IF at.kind # "ok" THEN at
            ELSE LET tok == unescapeToken(raw)
                 IN IF tok.kind # "ok" THEN tok ELSE descend(at.node, tok.node)
    IN FoldLeft(step, Selected(doc), Tokens(ptr))

-----------------------------------------------------------------------------
(* Canonical encoding: derivedversion.go. A value is tagged with its reflect    *)
(* kind; two values are compared only when one static type holds both.          *)

RECURSIVE Decimal(_)
Decimal(n) ==
    IF n < Len(Digits)
      THEN <<Digits[n + 1]>>
      ELSE Append(Decimal(n \div Len(Digits)), Digits[(n % Len(Digits)) + 1])

appendBytes(b) == b

appendLenBytes(b) == Decimal(Len(b)) \o <<":">> \o b

\* The dynamic type's name, part of what an interface encodes.
TypeName(v) == <<v.kind>>

\* strconv's text of a number, a float's spelled as one character.
Number(v) ==
    CASE v.kind = "float" -> <<v.text>>
      [] v.kind = "complex" -> <<v.re, "+", v.im>>
      [] v.kind \in {"int", "uint"} -> IF v.n < 0 THEN <<"-">> \o Decimal(-v.n) ELSE Decimal(v.n)

RECURSIVE appendCanonical(_, _)
appendCanonical(v, depth) ==
    LET inner(e) == appendCanonical(e, depth + 1)
    IN CASE depth > derivedVersionMaxDepth -> <<"t", "r", "u", "n", "c">>
         [] depth <= derivedVersionMaxDepth ->
           CASE v.kind = "nil" -> <<"n", "i", "l">>
             [] v.kind \in {"string", "secret"} -> <<"s">> \o appendLenBytes(v.text)
             [] v.kind = "bytes" -> <<"b">> \o appendLenBytes(v.text)
             [] v.kind = "bool" -> <<v.text>>
             [] v.kind \in {"int", "uint", "float", "complex"} -> Number(v)
             [] v.kind \in {"chan", "func"} -> <<v.kind>>
             [] v.kind = "pointer" -> <<"*">> \o inner(v.elem)
             [] v.kind = "interface" -> <<"*">> \o appendLenBytes(TypeName(v.elem)) \o inner(v.elem)
             [] v.kind = "struct" ->
                  <<"{">> \o FlattenSeq([i \in DOMAIN v.fields |->
                                <<v.fields[i].name, "=">> \o inner(v.fields[i].val) \o <<";">>])
                          \o <<"}">>
             [] v.kind = "slice" ->
                  <<"[">> \o FlattenSeq([i \in DOMAIN v.elems |-> inner(v.elems[i]) \o <<";">>]) \o <<"]">>
             [] v.kind = "map" ->
                  \* sorted by their encoded form, here some fixed order; entries that
                  \* encode alike are all written
                  LET entry(e) == inner(e[1]) \o <<"=">> \o inner(e[2]) \o <<";">>
                      sorted == SetToSeq({entry(e) : e \in v.entries})
                      alike(x) == Cardinality({e \in v.entries : entry(e) = x})
                  IN <<"m", "[">> \o FlattenSeq([i \in DOMAIN sorted |->
                                        FlattenSeq([k \in 1..alike(sorted[i]) |-> sorted[i]])]) \o <<"]">>

\* At the top a string, a secret or a byte slice is its own bytes.
canonicalBytes(v) ==
    IF v.kind \in {"string", "secret", "bytes"} THEN v.text ELSE appendCanonical(v, 0)

derivedVersion(v) == canonicalBytes(v)

-----------------------------------------------------------------------------
(* References.                                                                  *)

\* RFC 6901's escaping of a member name.
Escape(name) ==
    FlattenSeq([i \in DOMAIN name |->
        CASE name[i] = "~" -> <<"~", "0">> [] name[i] = "/" -> <<"~", "1">> [] OTHER -> <<name[i]>>])

\* Every node of a document with the pointer to it.
RECURSIVE Nodes(_)
Nodes(doc) ==
    {[ptr |-> <<>>, node |-> doc]} \cup
    CASE doc.kind = "{" ->
           UNION {{[ptr |-> <<"/">> \o Escape(name) \o n.ptr, node |-> n.node] :
                      n \in Nodes(doc.members[name])} : name \in DOMAIN doc.members}
      [] doc.kind = "[" ->
           UNION {{[ptr |-> <<"/">> \o Decimal(i - 1) \o n.ptr, node |-> n.node] :
                      n \in Nodes(doc.elems[i])} : i \in DOMAIN doc.elems}
      [] OTHER -> {}

\* A pointer selects what it points to, and only a node's own pointer selects it.
PointsTo(doc, ptr) ==
    LET got == selectPointer(doc, ptr)
    IN /\ \A n \in Nodes(doc) : n.ptr = ptr => got = Selected(n.node)
       /\ got.kind = "ok" => \E n \in Nodes(doc) : n.ptr = ptr /\ n.node = got.node

\* A value without what its version does not read: the identity of a channel or a
\* function, and all that lies deeper than the bound.
RECURSIVE Seen(_, _)
Seen(v, depth) ==
    LET inner(e) == Seen(e, depth + 1)
    IN IF depth > derivedVersionMaxDepth THEN [kind |-> "deep"]
       ELSE CASE v.kind \in {"chan", "func"} -> [kind |-> v.kind]
              [] v.kind \in {"pointer", "interface"} ->
                   [kind |-> v.kind, type |-> v.elem.kind, elem |-> inner(v.elem)]
              [] v.kind = "struct" -> [kind |-> "struct", vals |-> [i \in DOMAIN v.fields |-> inner(v.fields[i].val)]]
              [] v.kind = "slice" -> [kind |-> "slice", elems |-> [i \in DOMAIN v.elems |-> inner(v.elems[i])]]
              [] v.kind = "map" ->
                   LET entry(e) == <<inner(e[1]), inner(e[2])>>
                   IN [kind |-> "map", count |-> [x \in {entry(e) : e \in v.entries} |->
                                                     Cardinality({e \in v.entries : entry(e) = x})]]
              [] OTHER -> v

\* Of one type's values, those that differ in what is read have different versions, and
\* those that do not have one.
Separates(values) ==
    \A v, w \in values : derivedVersion(v) = derivedVersion(w) <=> Seen(v, 0) = Seen(w, 0)
=============================================================================
