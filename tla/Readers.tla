------------------------------ MODULE Readers -------------------------------
(* The readers of text that stand between a backend and a value: the command    *)
(* line of an exec: ref (builtin_exec.go), .env files (builtin_dotenv.go and    *)
(* decode.go), the server-sent events of the streaming providers and of the     *)
(* server (providers/httpcore/sse.go, server/wire.go), and the list of changed  *)
(* configurations a Nacos listener answers with (providers/nacos/watch.go).     *)
(*                                                                              *)
(* A text is a sequence of characters; a word whose spelling no reader looks    *)
(* into counts as one character.                                                *)
EXTENDS Naturals, Sequences, SequencesExt, FiniteSets, FiniteSetsExt

CONSTANTS DefaultSSEMaxLine, DefaultSSEMaxFrame    \* the bounds of a stream that sets none

From(s, i) == SubSeq(s, i, Len(s))

\* The place of the first c of a text, 0 if there is none.
Find(s, c) == SelectInSeq(s, LAMBDA x : x = c)

\* strings.Split by one character; a text without it is one piece.
Pieces(s, c) ==
    LET step(ps, x) == IF x = c THEN Append(ps, <<>>) ELSE [ps EXCEPT ![Len(ps)] = Append(@, x)]
    IN FoldLeft(step, << <<>> >>, s)

Blank == {" ", "\t", "\n", "\r"}

TrimSpace(s) ==
    LET solid == {i \in DOMAIN s : s[i] \notin Blank}
    IN IF solid = {} THEN <<>> ELSE SubSeq(s, Min(solid), Max(solid))

TrimPrefix(s, p) == IF IsPrefix(p, s) THEN From(s, Len(p) + 1) ELSE s

Read(v) == [kind |-> "ok", val |-> v]
Refused(k) == [kind |-> k]

-----------------------------------------------------------------------------
(* Command lines.                                                               *)

\* What stands between double quotes, s beginning after the first: a backslash takes
\* the next character literally, if there is one.
RECURSIVE Quoted(_)
Quoted(s) ==
    LET then(c, n) == LET q == Quoted(From(s, n + 1)) IN [q EXCEPT !.text = <<c>> \o q.text]
    IN CASE s = <<>> -> [closed |-> FALSE, text |-> <<>>, rest |-> <<>>]
         [] Len(s) > 1 /\ s[1] = "\\" -> then(s[2], 2)
         [] s # <<>> /\ s[1] = "\"" -> [closed |-> TRUE, text |-> <<>>, rest |-> Tail(s)]
         [] OTHER -> then(s[1], 1)

\* The loop of splitArgs from some place on, with cur holding an argument if has.
RECURSIVE splitFrom(_, _, _)
splitFrom(s, cur, has) ==
    LET args == IF has THEN <<cur>> ELSE <<>>
        before(r) == IF r.kind = "ok" THEN Read(args \o r.val) ELSE r
    IN IF s = <<>> THEN Read(args)
       ELSE CASE s[1] = "'" ->
                   LET end == Find(Tail(s), "'")
                   IN IF end = 0 THEN Refused("invalid")
                      ELSE splitFrom(From(s, end + 2), cur \o SubSeq(s, 2, end), TRUE)
              [] s[1] = "\"" ->
                   LET q == Quoted(Tail(s))
                   IN IF q.closed THEN splitFrom(q.rest, cur \o q.text, TRUE) ELSE Refused("invalid")
              [] s[1] = "\\" ->
                   IF Len(s) = 1 THEN Refused("invalid") ELSE splitFrom(From(s, 3), Append(cur, s[2]), TRUE)
              [] s[1] \in Blank -> before(splitFrom(Tail(s), <<>>, FALSE))
              [] OTHER -> splitFrom(Tail(s), Append(cur, s[1]), TRUE)

splitArgs(s) == splitFrom(s, <<>>, FALSE)

\* execProvider.Resolve of the command s, which ends as how says: "ok", or how it fails.
\* A command that cannot run says nothing about the value.
execResolve(s, how) ==
    LET fields == splitArgs(s)
    IN IF fields.kind # "ok" THEN fields
       ELSE IF fields.val = <<>> THEN Refused("invalid")
       ELSE CASE how = "ok" -> Read(fields.val)
              [] how = "EACCES" -> Refused("permission_denied")
              [] OTHER -> Refused("failed")

-----------------------------------------------------------------------------
(* .env files.                                                                  *)

\* strings.NewReplacer over the five escapes, left to right.
RECURSIVE Unescaped(_)
Unescaped(s) ==
    LET means == [c \in {"n", "r", "t", "\"", "\\"} |->
                     CASE c = "n" -> "\n" [] c = "r" -> "\r" [] c = "t" -> "\t" [] OTHER -> c]
    IN IF s = <<>> THEN <<>>
       ELSE IF Len(s) > 1 /\ s[1] = "\\" /\ s[2] \in DOMAIN means
         THEN <<means[s[2]]>> \o Unescaped(From(s, 3))
         ELSE <<s[1]>> \o Unescaped(Tail(s))

\* The place of the first " #", or one past the end.
CommentAt(v) ==
    LET at == {i \in 1..(Len(v) - 1) : v[i] = " " /\ v[i + 1] = "#"}
    IN IF at = {} THEN Len(v) + 1 ELSE Min(at)

parseDotenvValue(v) ==
    LET between(q) == Len(v) >= 2 /\ v[1] = q /\ v[Len(v)] = q
        inner == SubSeq(v, 2, Len(v) - 1)
    IN CASE between("'") -> inner
         [] between("\"") -> Unescaped(inner)
         [] OTHER -> TrimSpace(SubSeq(v, 1, CommentAt(v) - 1))

\* The pairs of a text's lines in order: keyed cuts a trimmed line that is neither
\* blank nor a comment at its first "=".
Pairs(text, keyed(_)) ==
    LET trimmed == [i \in DOMAIN Pieces(text, "\n") |-> TrimSpace(Pieces(text, "\n")[i])]
        lines == SelectSeq(trimmed, LAMBDA l : l # <<>> /\ l[1] # "#")
        read == [i \in DOMAIN lines |-> keyed(lines[i])]
        cut(l) == [key |-> TrimSpace(SubSeq(l, 1, Find(l, "=") - 1)), val |-> TrimSpace(From(l, Find(l, "=") + 1))]
        paired == SelectSeq(read, LAMBDA l : Find(l, "=") # 0)
    IN [i \in DOMAIN paired |-> cut(paired[i])]

\* A map holds the last of the pairs with a key.
LastOf(pairs, value(_)) ==
    [k \in {pairs[i].key : i \in DOMAIN pairs} |->
        value(pairs[Max({i \in DOMAIN pairs : pairs[i].key = k})].val)]

parseDotenv(text) ==
    LET keyed(line) == TrimPrefix(line, <<"export", " ">>)
    IN LastOf(SelectSeq(Pairs(text, keyed), LAMBDA p : p.key # <<>>), parseDotenvValue)

\* decode.go's reading of a flatten:"env" payload: no quotes, no export.
parseEnvPayload(text) ==
    LET same(x) == x
    IN LastOf(Pairs(text, same), same)

classifyFileErr(e) ==
    CASE e = "ENOENT" -> Refused("not_found")
      [] e = "EACCES" -> Refused("permission_denied")
      [] OTHER -> Refused("failed")

\* dotenvProvider.Resolve of a key of a file: [stat, read] are "" or how the call fails.
dotenvResolve(file, key) ==
    IF file.stat # "" THEN classifyFileErr(file.stat)
    ELSE IF file.read # "" THEN classifyFileErr(file.read)
    ELSE IF key = <<>> THEN Read(file.text)
    ELSE LET vars == parseDotenv(file.text)
         IN IF key \in DOMAIN vars THEN Read(vars[key]) ELSE Refused("not_found")
-----------------------------------------------------------------------------
(* Server-sent events. Lengths are counted in characters of the text.           *)

Event(name) == <<"event", ":", " ", name, "\n">>
Data(line) == <<"data", ":", " ">> \o line \o <<"\n">>

\* server/wire.go: a value or an error is one line of JSON.
writeSSEValue(body) == Event("update") \o Data(body) \o <<"\n">>
writeSSEError(body) == Event("error") \o Data(body) \o <<"\n">>
writeSSEHeartbeat == <<":", " ", "heartbeat", "\n", "\n">>

\* The bounds of a decoder; a bound that is not positive is the default.
NewSSEDecoder(cfg) ==
    [maxLine |-> IF cfg.maxLine > 0 THEN cfg.maxLine ELSE DefaultSSEMaxLine,
     maxFrame |-> IF cfg.maxFrame > 0 THEN cfg.maxFrame ELSE DefaultSSEMaxFrame]

\* bufio.ScanLines: the last line may lack its newline, and is none when empty.
ScanLines(text) ==
    LET lines == Pieces(text, "\n")
    IN IF Last(lines) = <<>> THEN Front(lines) ELSE lines

\* What Next holds while it reads a frame.
NoFrame == [name |-> <<>>, data |-> <<>>, haveField |-> FALSE, haveData |-> FALSE]

\* One line read into the frame at, by a decoder that has returned out so far.
NextLine(dec, st, raw) ==
    LET at == st.at
        line == IF raw # <<>> /\ Last(raw) = "\r" THEN Front(raw) ELSE raw
        colon == IF Find(line, ":") = 0 THEN Len(line) + 1 ELSE Find(line, ":")
        field == SubSeq(line, 1, colon - 1)
        value == TrimPrefix(From(line, colon + 1), <<" ">>)
        joined == at.data \o (IF at.haveData THEN <<"\n">> ELSE <<>>) \o value
    IN CASE st.end # "" -> st
         [] st.end = "" /\ Len(raw) > dec.maxLine -> [st EXCEPT !.end = "line too long"]
         [] st.end = "" /\ Len(raw) <= dec.maxLine /\ line = <<>> ->
              IF at.haveField
                THEN [st EXCEPT !.out = Append(@, [name |-> at.name, data |-> at.data]), !.at = NoFrame]
                ELSE st
         [] st.end = "" /\ Len(raw) <= dec.maxLine /\ line # <<>> ->
              CASE line[1] # ":" /\ field = <<"event">> ->
                     [st EXCEPT !.at.name = value, !.at.haveField = TRUE]
                [] line[1] # ":" /\ field = <<"data">> ->
                     IF Len(joined) > dec.maxFrame THEN [st EXCEPT !.end = "frame too long"]
                     ELSE [st EXCEPT !.at.data = joined, !.at.haveField = TRUE, !.at.haveData = TRUE]
                [] OTHER -> st

\* The frame being read is returned when the text ends.
AtEOFDispatch(st) ==
    IF st.end = "" /\ st.at.haveField
      THEN [st EXCEPT !.out = Append(@, [name |-> st.at.name, data |-> st.at.data]), !.end = "EOF"]
      ELSE IF st.end = "" THEN [st EXCEPT !.end = "EOF"] ELSE st

\* The text ends: the frame being read is dropped.
AtEOF(st) == IF st.end = "" THEN [st EXCEPT !.end = "EOF"] ELSE st

\* The frames that Next returns, call after call, and how it ends.
Decode(dec, text) ==
    LET step(st, raw) == NextLine(dec, st, raw)
    IN AtEOF(FoldLeft(step, [out |-> <<>>, end |-> "", at |-> NoFrame], ScanLines(text)))

-----------------------------------------------------------------------------
(* The answer of a Nacos listener: entries of words, percent encoded.           *)

WordSep == "^B"
LineSep == "^A"

\* url.QueryUnescape, on the characters that are written encoded: "%" before a letter
\* stands for the byte so encoded, and an escape of nothing is an error.
QueryUnescape(s) ==
    LET byte == [c \in {"%01", "%02", "%2B", "+"} |->
                    CASE c = "%01" -> LineSep [] c = "%02" -> WordSep [] c = "%2B" -> "+" [] OTHER -> " "]
    IN IF Find(s, "%") # 0 THEN Refused("invalid")
       ELSE Read([i \in DOMAIN s |-> IF s[i] \in DOMAIN byte THEN byte[s[i]] ELSE s[i]])

\* Does the body name the configuration [dataID, group] of the tenant?
changedConfigs(body, c, tenant) ==
    LET raw == TrimSpace(body)
        un == QueryUnescape(raw)
        entries == Pieces(IF un.kind = "ok" THEN un.val ELSE raw, LineSep)
        names(f) == /\ Len(f) >= 2 /\ f[1] = c.dataID /\ f[2] = c.group
                    /\ ~(Len(f) > 2 /\ tenant # <<>> /\ f[3] # tenant)
    IN raw # <<>> /\ \E i \in DOMAIN entries : entries[i] # <<>> /\ names(Pieces(entries[i], WordSep))
-----------------------------------------------------------------------------
(* References.                                                                  *)

\* A command line read character by character, in one of five modes, as a POSIX shell
\* quotes: between double quotes a backslash escapes only a character that is special
\* there, and before any other it stays, here as Kept.
Kept == "kept \\"
Shell(s) ==
    LET mode(st, m) == [st EXCEPT !.mode = m, !.has = TRUE]
        put(st, cs, m) == [mode(st, m) EXCEPT !.cur = @ \o cs]
        closed(st) == [st EXCEPT !.args = IF st.has THEN Append(@, st.cur) ELSE @, !.cur = <<>>, !.has = FALSE]
        step(st, c) ==
            CASE st.mode = "bare" /\ c = "'" -> mode(st, "single")
              [] st.mode = "bare" /\ c = "\"" -> mode(st, "double")
              [] st.mode = "bare" /\ c = "\\" -> mode(st, "escape")
              [] st.mode = "bare" /\ c \in Blank -> closed(st)
              [] st.mode = "single" /\ c = "'" -> mode(st, "bare")
              [] st.mode = "double" /\ c = "\"" -> mode(st, "bare")
              [] st.mode = "double" /\ c = "\\" -> mode(st, "escape in double")
              [] st.mode = "escape in double" /\ c \notin {"\"", "\\"} -> put(st, <<Kept, c>>, "double")
              [] st.mode \in {"escape", "bare"} -> put(st, <<c>>, "bare")
              [] st.mode = "single" -> put(st, <<c>>, "single")
              [] OTHER -> put(st, <<c>>, "double")
        end == FoldLeft(step, [mode |-> "bare", args |-> <<>>, cur |-> <<>>, has |-> FALSE], s)
    IN IF end.mode = "bare" THEN Read(closed(end).args) ELSE Refused("invalid")

\* A value as a .env file holds it, in each of the ways it may: an empty value takes no
\* comment, since the blank before it is trimmed away.
Escaped(v) ==
    FlattenSeq([i \in DOMAIN v |->
        CASE v[i] = "\n" -> <<"\\", "n">> [] v[i] \in {"\"", "\\"} -> <<"\\", v[i]>> [] OTHER -> <<v[i]>>])
Bare(v) == \A i \in DOMAIN v : v[i] \notin Blank \cup {"#", "'", "\""}
Spellings(v) ==
    {<<"\"">> \o Escaped(v) \o <<"\"">>}
      \cup (IF Find(v, "\n") = 0 THEN {<<"'">> \o v \o <<"'">>} ELSE {})
      \cup (IF Bare(v) THEN {v} ELSE {})
      \cup (IF Bare(v) /\ v # <<>> THEN {v \o <<" ", "#", "c">>} ELSE {})

\* A frame as a backend writes it: its name and the lines of its data; an item with no
\* name is a heartbeat.
Written(item) ==
    IF item.name = "" THEN writeSSEHeartbeat
    ELSE Event(item.name) \o FlattenSeq([i \in DOMAIN item.lines |-> Data(item.lines[i])]) \o <<"\n">>
Joined(lines) == Tail(FlattenSeq([i \in DOMAIN lines |-> <<"\n">> \o lines[i]]))
Fits(dec, item) ==
    item.name # "" => /\ \A i \in DOMAIN item.lines : Len(item.lines[i]) + 3 <= dec.maxLine
                      /\ Len(Joined(item.lines)) <= dec.maxFrame

\* However much of a stream arrives, exactly the frames that arrived whole are
\* returned, in order and none after one that breaks a bound, which is refused and
\* never cut short.
StreamRead(dec, items) ==
    LET texts == [i \in DOMAIN items |-> Written(items[i])]
        text == FlattenSeq(texts)
        ends == [i \in DOMAIN items |-> Len(FlattenSeq(SubSeq(texts, 1, i)))]
        sound(i) == \A j \in 1..i : Fits(dec, items[j])
        whole(n) == SelectSeq([i \in DOMAIN items |-> i],
                              LAMBDA i : ends[i] <= n /\ sound(i) /\ items[i].name # "")
    IN \A n \in 0..Len(text) :
         LET got == Decode(dec, SubSeq(text, 1, n))
             due == whole(n)
         IN /\ got.out = [k \in DOMAIN due |->
                             [name |-> <<items[due[k]].name>>, data |-> Joined(items[due[k]].lines)]]
            /\ (\E i \in DOMAIN items : ends[i] <= n /\ ~Fits(dec, items[i])) => got.end # "EOF"
            /\ sound(Len(items)) => got.end = "EOF"
=============================================================================
