------------------------------- MODULE MCTags -------------------------------
(* The structs whose listing by the command line tool is compared with the      *)
(* runtime's reading.                                                           *)
EXTENDS Tags, TLC

F(name, type, tags) == [name |-> name, exported |-> TRUE, type |-> type, tags |-> tags]
Nest(name, tags, fields) ==
    [name |-> name, exported |-> TRUE, type |-> "struct", tags |-> tags, fields |-> fields]

Env == <<"env", ":", "X">>
Param == <<"aws-ps", ":", "//", "$", "{", "svc", "}">>
Secret == <<"aws-sm", ":", "//", "db", "#", "pw">>
Exec == <<"exec", ":", "echo", " ", "a", ",", "b">>
Decoded == <<"file", ":", "//", "p", "?", "decode=", "hex", ",", " ", "gzip">>

\* The struct this instance loads.
MCStruct ==
    <<F("a", "string", [source |-> Param, default |-> <<"d">>, onfail |-> <<"default">>]),
      F("b", "string", [source |-> Decoded]),
      Nest("n", [validate |-> <<"required">>],
           <<F("c", "secret.String", [source |-> Env \o <<",", " ">> \o Secret,
                                      optional |-> <<"true">>, onfail |-> <<"fail">>])>>)>>

-----------------------------------------------------------------------------
(* The structs compared: every chain of up to two refs, compact or with a blank *)
(* after the comma, in a plain or a secret field, with and without the tags that *)
(* say what happens when it fails, at the top or inside a validated struct.     *)

Sources ==
    LET one == {Env, Secret, Exec, Decoded}
        pair(j) == {r \o j \o s : r \in one, s \in one}
    IN one \cup pair(<<",">>) \cup pair(<<",", " ">>)
         \cup {<<>>, <<"X">>, <<" ">> \o Env \o <<" ">>, Decoded \o <<",", "X">>}

Plain(src) == <<F("a", "string", [source |-> src])>>

Structs ==
    {Plain(src) : src \in Sources}
      \cup {<<Nest("n", [validate |-> <<"required">>],
                   <<F("a", "secret.String", [source |-> src, onfail |-> p] @@ d)>>),
              F("v", "string", [validate |-> <<"min">>])>> :
                src \in Sources, p \in {<<"fail">>, <<"default">>, <<"never">>},
                d \in {[optional |-> <<"true">>], [default |-> <<>>]}}

\* No separating comma of the struct is followed by a blank.
Compact(st) ==
    \A f \in FieldsOf(st) :
        Has(f, "source") =>
            \A i \in 1..(Len(f.tags.source) - 1) :
                f.tags.source[i] = "," /\ f.tags.source[i + 1] = " "
                    => ~SchemeStartSpaced(After(f.tags.source, i))

Accepted == {st \in Structs : Compact(st) /\ fieldSpecs(st, <<>>).ok}

\* The paths derive hooks declare: none, or a validated field, a sourced one, and the
\* first again.
Derives == {<<>>, << <<"v">>, <<"a">>, <<"v">> >>}

Listed == \A st \in Structs : ListedAsRead(st, <<>>)

ListedWhenCompact ==
    \A st \in Structs, paths \in Derives : Compact(st) => ListedAsRead(st, paths)

Told == \A base, head \in Accepted : DiffTells(base, head)
=============================================================================
