------------------------------- MODULE MCLoad -------------------------------
(* An instance of Load for TLC. The fields it loads are what walkSpecs makes of *)
(* one struct's tags: a batched field that masks errors with its default, a     *)
(* required field of another scheme, and an optional chain of two refs. Beside  *)
(* it stand the structs whose listing by the command line tool is compared with *)
(* the runtime's reading.                                                       *)
EXTENDS Load

CONSTANTS v1, v2, dflt

Tool == INSTANCE MCTags
    WITH Words <- {"env", "X", "aws-ps", "aws-sm", "db", "exec", "echo", "file", "p", "a", "b", "hex"},
         Codings <- {"hex", "gzip"},
         SecretSchemes <- {<<"aws-sm">>, <<"exec">>}

MCVals == {v1, v2}
MCVersion == [v \in {v1, v2, dflt} |-> IF v = dflt THEN DefaultVersion ELSE v]
MCDefault == [f \in Fields |-> dflt]
MCLens == <<1, 1, 2>>
MCPolicy == <<"default", "keeplast", "fail">>
MCSchemes == << <<"aws-ps">>, <<"file">> >>
MCHasDefault == {1}
MCOptional == {3}
MCBatched == {<<"aws-ps">>}

\* The validator rejects one value of the first and of the third field, and a combination
\* of the first two.
MCAcceptable == {c \in Configs : c[1] # v2 /\ (c[2] = v2 => c[1] = v1) /\ c[3] # v2}
NoDerived(c) == FALSE

\* The values above are what fieldSpecs reads in MCStruct.
ASSUME AsTagged ==
    LET specs == Tool!fieldSpecs(Tool!MCStruct, [n \in {<<"svc">>} |-> <<"api">>]).val
    IN  /\ DOMAIN specs = Fields
        /\ \A f \in Fields : /\ Len(specs[f].refs) = MCLens[f]
                              /\ specs[f].onfail = MCPolicy[f]
                              /\ specs[f].hasDefault = (f \in MCHasDefault)
                              /\ specs[f].optional = (f \in MCOptional)
        /\ \A f \in Single : specs[f].refs[1].scheme = MCSchemes[f]

\* The dispatch queue and the history, which no step of Load reads.
MCView == <<engineVars, batchVars, lastGood, version, pin, cfg, bootVars, refused,
            phase, loadVars, origin, fileVars, unheard>>

-----------------------------------------------------------------------------

\* The command line tool tells the truth about the program.  A struct the runtime
\* accepts is listed by explain as the runtime reads it, field by field and ref by ref,
\* policy grants exactly the paths it resolves and vet flags the plain fields a secret
\* may fill, when its chains are written without a blank after the comma (extract.go
\* walkFields against decode.go walkSpecs).  And diff is silent only about two structs
\* that take every value from the same place whatever answers, and says that privileges
\* grew exactly when a path is resolved that was not (diffmodel.go computeDiff).  The
\* formula is about the tags alone: it is evaluated once, when the first load starts.
ToolIsTrue == [][LoadInit => Tool!ListedWhenCompact /\ Tool!Told]_allVars

\* sourcetag.go: chainSchemeStart "mirrors mamori's unexported ref.go schemeStart
\* regexp", so the tool's notion of the refs in any tag "matches what ParseRefs
\* actually parses at runtime".
ToolReadsTagsAlike == [][LoadInit => Tool!Listed]_allVars
=============================================================================
