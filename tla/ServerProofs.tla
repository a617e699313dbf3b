---------------------------- MODULE ServerProofs ----------------------------
(* What a Close of Server leaves behind, and whose socket is at the path: for *)
(* any number of servers and Close calls, any listeners and inode numbers.    *)
EXTENDS Server, Integers, FiniteSetTheorems, TLAPS

Closers == Callers \cup {"watch"}

\* Where a goroutine can be: in Serve's setup, in a teardown, elsewhere.
Setup == {"unlink", "listen", "identify", "tcp", "begin"}
Steps == {"cancel", "stat", "remove", "shutdown", "quiesce", "close", "join", "resolvers",
          "settle", "torn"}
Places == {"idle", "armed", "wait", "drain", "run", "returned"} \cup Setup \cup Steps

Results == {"none", "nil", "errClosed", "bindError", "bindAfterClose"}

TypeOK ==
    /\ pc \in [Servers -> [Threads -> Places]]
    /\ snap \in [Servers -> [Threads -> [entries : SUBSET Listeners, mine : BOOLEAN]]]
    /\ ln \in [Servers -> [Listeners -> {"none", "open", "closed"}]]
    /\ gor \in [Servers -> [Listeners -> {"none", "ready", "serving", "done"}]]
    /\ entries \in [Servers -> SUBSET Listeners] /\ shut \in [Servers -> SUBSET Listeners]
    /\ closed \in [Servers -> BOOLEAN] /\ closeDone \in [Servers -> BOOLEAN]
    /\ draining \in [Servers -> BOOLEAN] /\ stream \in [Servers -> BOOLEAN]
    /\ resolving \in [Servers -> {"none", "live", "done", "gone"}]
    /\ listenWG \in [Servers -> Int] /\ result \in [Servers -> Results]

\* One Close at most is between its first step and its last; the flags say so.
Closing(s) ==
    /\ \A t \in Closers :
          /\ pc[s][t] \in {"wait", "drain"} \cup Steps => closed[s]
          /\ pc[s][t] \in {"drain"} \cup Steps => ~closeDone[s]
          /\ pc[s][t] \in Steps => draining[s]
    /\ \A t, u \in Closers :
          pc[s][t] \in {"drain"} \cup Steps /\ pc[s][u] \in {"drain"} \cup Steps => t = u
    /\ \A t \in Callers : pc[s][t] = "returned" => closeDone[s]
    /\ closeDone[s] => closed[s] /\ draining[s]
    /\ pc[s]["serve"] \in Steps => closed[s]
    /\ pc[s]["serve"] \in {"idle"} \cup Setup => pc[s]["watch"] = "idle"

\* 1 for a listener goroutine that is counted.
Counted(g) == IF g \in {"ready", "serving"} THEN 1 ELSE 0

\* The listeners, their goroutines and where Serve is.
Listening(s) ==
    /\ \A l \in Listeners :
          /\ gor[s][l] # "none" =>
                /\ l \in entries[s]
                /\ pc[s]["serve"] = "run" \/ (pc[s]["serve"] = "returned" /\ result[s] = "nil")
          /\ ln[s][l] # "none" => l \in entries[s] \/ (l = "unix" /\ pc[s]["serve"] = "identify")
          /\ l \in entries[s] => ln[s][l] # "none"
          /\ gor[s][l] # "none" /\ (l \in shut[s] \/ ln[s][l] = "closed") => draining[s]
    /\ stream[s] => \E l \in Listeners : gor[s][l] # "none"
    /\ listenWG[s] = Counted(gor[s]["unix"]) + Counted(gor[s]["tcp"])
    /\ pc[s]["serve"] \in {"idle", "unlink", "listen", "identify"} => entries[s] = {}
    /\ pc[s]["serve"] \notin {"wait", "drain"}
    /\ pc[s]["serve"] = "idle" => resolving[s] = "none"
    /\ pc[s]["serve"] = "identify" => ln[s]["unix"] # "none"
    /\ pc[s]["serve"] = "returned" <=> result[s] # "none"
    /\ pc[s]["serve"] = "returned" /\ result[s] = "errClosed" =>
          (\A l \in Listeners : ln[s][l] # "open") /\ resolving[s] \in {"none", "gone"}

\* Serve has not begun, or was out of its setup before anybody closed the server.
Early(s) ==
    \/ pc[s]["serve"] \in {"idle", "run"}
    \/ pc[s]["serve"] = "returned" /\ result[s] \in {"nil", "bindError"}

\* How far the teardown of goroutine t has come.
Reached(s, t) ==
    /\ pc[s][t] \in {"quiesce", "close", "join", "resolvers", "settle", "torn"} =>
          entries[s] \subseteq shut[s]
          /\ \A l \in Listeners : gor[s][l] = "serving" => ln[s][l] # "open"
    /\ pc[s][t] \in {"close", "join", "resolvers", "settle", "torn"} => ~stream[s]
    /\ pc[s][t] \in {"join", "resolvers", "settle", "torn"} =>
          \A l \in Listeners : ln[s][l] # "open"
    /\ pc[s][t] \in {"resolvers", "settle", "torn"} =>
          \A l \in Listeners : gor[s][l] \in {"none", "done"}
    /\ pc[s][t] = "torn" => resolving[s] \in {"none", "gone"}

\* What a teardown has read of the entries is what there is.
Read(s, t) ==
    pc[s][t] \in {"stat", "remove", "shutdown", "quiesce", "close"} => snap[s][t].entries = entries[s]

\* The teardown of the first Close,
Torn(s) ==
    Early(s) => (\A t \in Closers : Reached(s, t) /\ Read(s, t)) /\ (closeDone[s] => Quiet(s))

\* and Serve's own.
OwnTorn(s) ==
    /\ Read(s, "serve")
    /\ pc[s]["serve"] \in {"join", "resolvers", "settle", "torn"} =>
          \A l \in Listeners : ln[s][l] # "open"
    /\ pc[s]["serve"] = "torn" => resolving[s] \in {"none", "gone"}

\* No teardown has read an entry that is not there.
Copied(s) == \A t \in Threads : snap[s][t].entries \subseteq entries[s]

\* Serve tears the server down, or did.
Again(s) == pc[s]["serve"] \in Steps \/ result[s] = "errClosed"

\* Nothing was closed or shut down.
Fresh(s) == shut[s] = {} /\ \A l \in Listeners : ln[s][l] # "closed"

\* Where a Close is before its shutdown step.
Opening == {"drain", "cancel", "stat", "remove", "shutdown"}

\* Until a shutdown step the listeners are as Serve left them.
Intact(s) ==
    /\ ~closed[s] => Fresh(s)
    /\ ~Again(s) /\ (\E t \in Closers : pc[s][t] \in Opening) => Fresh(s)

Local(s) == Closing(s) /\ Listening(s) /\ Torn(s) /\ OwnTorn(s) /\ Copied(s) /\ Intact(s)

Inv == TypeOK /\ \A s \in Servers : Local(s)

\* No goroutine of another server is about to unlink the path.
Spared(s) ==
    \A r \in Servers \ {s}, t \in Threads : pc[r][t] = "remove" => ~snap[r][t].mine

\* The path, between a server's unlink and the end of its life.
Held(s) ==
    /\ pc[s]["serve"] \in {"listen", "identify"} =>
          /\ holder = s /\ path \in {0, own[s]}
          /\ \A r \in Servers \ {s} : pc[r]["serve"] \notin {"listen", "identify"}
    /\ pc[s]["serve"] = "listen" => path = 0 /\ Spared(s)
    /\ "unix" \in entries[s] => ident[s] \in {0, own[s]}
    /\ ln[s]["unix"] = "open" =>
          /\ own[s] # 0
          /\ \A r \in Servers \ {s} : ln[r]["unix"] = "open" => own[r] # own[s]
    /\ /\ holder = s /\ ln[s]["unix"] = "open" /\ ~closed[s]
       /\ \A r \in Servers \ {s} : ~Again(r)
       => path = own[s] /\ Spared(s)

PathInv == DOMAIN own = Servers /\ DOMAIN ident = Servers /\ \A s \in Servers : Held(s)

-----------------------------------------------------------------------------
(* What the steps are made of *)

\* The state of server r that Local reads is what it was.
Same(r) ==
    /\ pc'[r] = pc[r] /\ snap'[r] = snap[r] /\ ln'[r] = ln[r] /\ gor'[r] = gor[r]
    /\ entries'[r] = entries[r] /\ shut'[r] = shut[r] /\ closed'[r] = closed[r]
    /\ closeDone'[r] = closeDone[r] /\ draining'[r] = draining[r] /\ stream'[r] = stream[r]
    /\ resolving'[r] = resolving[r] /\ listenWG'[r] = listenWG[r] /\ result'[r] = result[r]

Only(s) == \A r \in Servers \ {s} : Same(r)

\* A step of server s does what it must for the invariant.
Kept(s) == TypeOK' /\ Only(s) /\ Local(s)'

\* Serve, the context watcher and the Close calls are different goroutines.
LEMMA ThreadKinds ==
    /\ Threads = Closers \cup {"serve"} /\ "serve" \notin Closers
    /\ "watch" \in Closers /\ "watch" \notin Callers /\ Callers \subseteq Closers
BY Zenon, ServerAssumption DEF Threads, Closers

\* The order of closeTransports and of the teardown around it, step by step.
LEMMA AfterIs ==
    /\ After("cancel") = "stat" /\ After("stat") = "remove" /\ After("remove") = "shutdown"
    /\ After("shutdown") = "quiesce" /\ After("quiesce") = "close" /\ After("close") = "join"
    /\ After("join") = "resolvers" /\ After("resolvers") = "settle" /\ After("settle") = "torn"
<1>1. \A j \in 1 .. 9 : /\ TeardownOrder[j] = "cancel" <=> j = 1
                        /\ TeardownOrder[j] = "stat" <=> j = 2
                        /\ TeardownOrder[j] = "remove" <=> j = 3
                        /\ TeardownOrder[j] = "shutdown" <=> j = 4
                        /\ TeardownOrder[j] = "quiesce" <=> j = 5
                        /\ TeardownOrder[j] = "close" <=> j = 6
                        /\ TeardownOrder[j] = "join" <=> j = 7
                        /\ TeardownOrder[j] = "resolvers" <=> j = 8
                        /\ TeardownOrder[j] = "settle" <=> j = 9
  BY DEF TeardownOrder
<1> QED
  BY <1>1 DEF After, TeardownOrder

\* The steps of a teardown are the ones its order lists.
LEMMA StepsListed == \A p \in Steps : \E i \in 1 .. 10 : TeardownOrder[i] = p
BY DEF Steps, TeardownOrder

\* len(entries), for the two listeners there are.
LEMMA CountIs ==
    ASSUME TypeOK, NEW s \in Servers
    PROVE  Count(s) = (IF "unix" \in entries[s] THEN 1 ELSE 0) + (IF "tcp" \in entries[s] THEN 1 ELSE 0)
<1>1. entries[s] \in {{}, {"unix"}, {"tcp"}, {"unix", "tcp"}}
  <2>1. entries[s] \subseteq {"unix", "tcp"}
    BY DEF TypeOK, Listeners
  <2> QED
    BY <2>1
<1>2. Cardinality({}) = 0 /\ Cardinality({"unix"}) = 1 /\ Cardinality({"tcp"}) = 1
  BY FS_EmptySet, FS_Singleton
<1>3. Cardinality({"unix", "tcp"}) = 2
  <2>1. IsFiniteSet({"unix"}) /\ "tcp" \notin {"unix"}
    BY Zenon, FS_Singleton
  <2>2. Cardinality({"unix"} \cup {"tcp"}) = Cardinality({"unix"}) + 1
    BY <2>1, FS_AddElement
  <2>3. {"unix"} \cup {"tcp"} = {"unix", "tcp"}
    OBVIOUS
  <2> QED
    BY <1>2, <2>2, <2>3
<1>4. CASE entries[s] = {}
  BY <1>2, <1>4 DEF Count
<1>5. CASE entries[s] = {"unix"}
  BY <1>2, <1>5 DEF Count
<1>6. CASE entries[s] = {"tcp"}
  BY <1>2, <1>6 DEF Count
<1>7. CASE entries[s] = {"unix", "tcp"}
  BY <1>3, <1>7 DEF Count
<1> QED
  BY <1>1, <1>4, <1>5, <1>6, <1>7

\* A step that closes a listener of a draining server, or moves its goroutine.
LEMMA ListeningKept ==
    ASSUME NEW s, Listening(s), pc'[s]["serve"] = pc[s]["serve"], entries'[s] = entries[s],
           result'[s] = result[s], stream'[s] => stream[s],
           resolving[s] \in {"none", "gone"} => resolving'[s] = resolving[s],
           \A l \in Listeners :
              /\ gor'[s][l] # "none" <=> gor[s][l] # "none"
              /\ ln'[s][l] # "none" <=> ln[s][l] # "none"
              /\ ln'[s][l] = "open" => ln[s][l] = "open"
              /\ gor'[s][l] # "none" /\ (l \in shut'[s] \/ ln'[s][l] = "closed") => draining'[s],
           listenWG'[s] = Counted(gor'[s]["unix"]) + Counted(gor'[s]["tcp"])
    PROVE  Listening(s)'
<1>1. \A l \in Listeners :
         /\ gor'[s][l] # "none" =>
               /\ l \in entries'[s]
               /\ pc'[s]["serve"] = "run" \/ (pc'[s]["serve"] = "returned" /\ result'[s] = "nil")
         /\ ln'[s][l] # "none" => l \in entries'[s] \/ (l = "unix" /\ pc'[s]["serve"] = "identify")
         /\ l \in entries'[s] => ln'[s][l] # "none"
  BY Zenon DEF Listening
<1>2. stream'[s] => \E l \in Listeners : gor'[s][l] # "none"
  BY Zenon DEF Listening
<1>3. /\ pc'[s]["serve"] \in {"idle", "unlink", "listen", "identify"} => entries'[s] = {}
      /\ pc'[s]["serve"] \notin {"wait", "drain"}
      /\ pc'[s]["serve"] = "idle" => resolving'[s] = "none"
      /\ pc'[s]["serve"] = "returned" <=> result'[s] # "none"
  BY Zenon DEF Listening
<1>4. pc'[s]["serve"] = "identify" => ln'[s]["unix"] # "none"
  <2>1. "unix" \in Listeners
    BY Zenon DEF Listeners
  <2> QED
    BY Zenon, <2>1 DEF Listening
<1>5. pc'[s]["serve"] = "returned" /\ result'[s] = "errClosed" =>
         (\A l \in Listeners : ln'[s][l] # "open") /\ resolving'[s] \in {"none", "gone"}
  BY Zenon DEF Listening
<1> QED
  BY Zenon, <1>1, <1>2, <1>3, <1>4, <1>5 DEF Listening

\* Listening reads Serve's place only.
LEMMA ListeningSame ==
    ASSUME NEW s, Listening(s), pc'[s]["serve"] = pc[s]["serve"], gor'[s] = gor[s],
           ln'[s] = ln[s], entries'[s] = entries[s], shut'[s] = shut[s],
           draining[s] => draining'[s], stream'[s] = stream[s], listenWG'[s] = listenWG[s],
           resolving[s] \in {"none", "gone"} => resolving'[s] = resolving[s],
           result'[s] = result[s]
    PROVE  Listening(s)'
<1>1. \A l \in Listeners : gor[s][l] # "none" /\ (l \in shut[s] \/ ln[s][l] = "closed") => draining[s]
  BY Zenon DEF Listening
<1>2. listenWG[s] = Counted(gor[s]["unix"]) + Counted(gor[s]["tcp"])
  BY Zenon DEF Listening
<1> QED
  BY Zenon, <1>1, <1>2, ListeningKept

\* A step of one server leaves the others' invariant alone.
LEMMA SameLocal ==
    ASSUME NEW r \in Servers, Same(r), Local(r)
    PROVE  Local(r)'
<1>1. Closing(r)'
  BY Zenon DEF Same, Local, Closing
<1>2. Listening(r)'
  BY Zenon, ListeningSame DEF Same, Local
<1>3. Torn(r)' /\ OwnTorn(r)'
  <2>1. Early(r)' => Early(r)
    BY Zenon DEF Same, Early
  <2>2. Quiet(r) => Quiet(r)'
    BY Zenon DEF Same, Quiet
  <2>3. ASSUME NEW t PROVE (Reached(r, t) => Reached(r, t)') /\ (Read(r, t) => Read(r, t)')
    BY Zenon DEF Same, Reached, Read
  <2>4. Torn(r)'
    BY Zenon, <2>1, <2>2, <2>3 DEF Same, Local, Torn
  <2>5. OwnTorn(r)'
    BY Zenon, <2>3 DEF Same, Local, OwnTorn
  <2> QED
    BY Zenon, <2>4, <2>5
<1>4. Copied(r)' /\ Intact(r)'
  BY Zenon DEF Same, Local, Copied, Intact, Fresh, Again
<1> QED
  BY <1>1, <1>2, <1>3, <1>4 DEF Local

-----------------------------------------------------------------------------
(* What keeps each part of the invariant *)

\* Serve moves: a teardown only of a closed server, and never back to its setup.
LEMMA ClosingServe ==
    ASSUME NEW s, Closing(s), \A u \in Closers : pc'[s][u] = pc[s][u],
           closed'[s] = closed[s], closeDone'[s] = closeDone[s], draining'[s] = draining[s],
           pc'[s]["serve"] \in Steps => closed[s],
           pc'[s]["serve"] \in {"idle"} \cup Setup => pc[s]["serve"] \in {"idle"} \cup Setup
    PROVE  Closing(s)'
BY ThreadKinds DEF Closing

\* A Close that drained goes on.
LEMMA ClosingTears ==
    ASSUME NEW s, Closing(s), NEW t \in Closers, pc[s][t] \in {"drain"} \cup Steps,
           pc'[s][t] \in Steps, \A u \in Threads \ {t} : pc'[s][u] = pc[s][u],
           closed'[s] = closed[s], closeDone'[s] = closeDone[s], draining'[s]
    PROVE  Closing(s)'
<1>1. /\ closed[s] /\ ~closeDone[s] /\ pc'[s]["serve"] = pc[s]["serve"]
      /\ \A u \in Closers \ {t} : /\ pc'[s][u] = pc[s][u]
                                  /\ pc[s][u] \notin {"drain"} \cup Steps
  BY ThreadKinds DEF Closing
<1>2. \A u \in Callers : pc'[s][u] = "returned" => pc[s][u] = "returned"
  BY <1>1, ThreadKinds DEF Steps
<1>3. pc[s]["serve"] \in {"idle"} \cup Setup => t # "watch"
  BY Zenon DEF Closing, Steps
<1> QED
  BY <1>1, <1>2, <1>3, ThreadKinds DEF Closing

\* Where no Close has come to its teardown there is nothing to have reached.
LEMMA TornOpen ==
    ASSUME NEW s, \A u \in Closers : pc'[s][u] \notin Steps, ~closeDone'[s]
    PROVE  Torn(s)'
BY DEF Torn, Reached, Read, Steps

\* The Close that tears down is the only one.
LEMMA TornTears ==
    ASSUME NEW s, Closing(s)', NEW t \in Closers, pc'[s][t] \in Steps,
           Early(s)' => Reached(s, t)' /\ Read(s, t)'
    PROVE  Torn(s)'
<1>1. ~closeDone'[s] /\ \A u \in Closers \ {t} : pc'[s][u] \notin Steps
  BY DEF Closing
<1>2. \A u \in Closers \ {t} : Reached(s, u)' /\ Read(s, u)'
  BY <1>1 DEF Reached, Read, Steps
<1> QED
  BY <1>1, <1>2 DEF Torn

\* Nothing that a teardown has done is undone.
Done(s) ==
    /\ \A l \in Listeners :
          /\ gor'[s][l] = "serving" /\ ln'[s][l] = "open" =>
                (gor[s][l] = "serving" /\ ln[s][l] = "open") \/ l \in entries[s] \ shut[s]
          /\ ln'[s][l] = "open" => ln[s][l] = "open"
          /\ gor'[s][l] \in {"none", "done"} \/ gor[s][l] \notin {"none", "done"}
    /\ stream'[s] => \/ stream[s]
                     \/ \E l \in Listeners : gor[s][l] = "serving" /\ ln[s][l] = "open"
    /\ resolving[s] \in {"none", "gone"} => resolving'[s] \in {"none", "gone"}

\* A step that undoes nothing keeps what the first Close has reached.
LEMMA TornSame ==
    ASSUME NEW s, Torn(s), Done(s), Early(s)' => Early(s),
           \A u \in Closers : pc'[s][u] \in Steps =>
               pc'[s][u] = pc[s][u] /\ snap'[s][u].entries = snap[s][u].entries,
           entries'[s] = entries[s], shut'[s] = shut[s], closeDone'[s] = closeDone[s]
    PROVE  Torn(s)'
<1> SUFFICES ASSUME Early(s)'
             PROVE  (\A t \in Closers : Reached(s, t)' /\ Read(s, t)') /\ (closeDone'[s] => Quiet(s)')
  BY Zenon DEF Torn
<1>1. closeDone'[s] => Quiet(s)'
  BY Zenon DEF Torn, Done, Quiet
<1>2. ASSUME NEW t \in Closers PROVE Reached(s, t)' /\ Read(s, t)'
  <2>1. CASE pc'[s][t] \notin Steps
    BY <2>1 DEF Reached, Read, Steps
  <2>2. CASE pc'[s][t] \in Steps
    <3>1. Reached(s, t) /\ Read(s, t) /\ pc'[s][t] = pc[s][t]
      BY <1>2, <2>2 DEF Torn
    <3>2. Reached(s, t)'
      BY Zenon, <3>1 DEF Reached, Done
    <3>3. Read(s, t)'
      BY <1>2, <2>2, <3>1 DEF Read
    <3> QED
      BY <3>2, <3>3
  <2> QED
    BY <2>1, <2>2
<1> QED
  BY <1>1, <1>2

\* The same for Serve's own teardown.
LEMMA OwnSame ==
    ASSUME NEW s, OwnTorn(s), pc'[s]["serve"] \in Steps =>
               /\ pc'[s]["serve"] = pc[s]["serve"] /\ entries'[s] = entries[s]
               /\ snap'[s]["serve"].entries = snap[s]["serve"].entries
               /\ \A l \in Listeners : ln'[s][l] = "open" => ln[s][l] = "open"
               /\ resolving[s] \in {"none", "gone"} => resolving'[s] \in {"none", "gone"}
    PROVE  OwnTorn(s)'
BY DEF OwnTorn, Read, Steps

\* A step that closes nothing keeps the listeners as they are.
LEMMA IntactSame ==
    ASSUME NEW s, Intact(s), Fresh(s) => Fresh(s)', Again(s) => Again(s)', closed[s] => closed'[s],
           \A u \in Closers : pc'[s][u] \in Opening => pc[s][u] \in Opening \/ ~closed[s]
    PROVE  Intact(s)'
BY DEF Intact

\* A step that may close them is past the point.
LEMMA IntactPast ==
    ASSUME NEW s, closed'[s], Again(s)' \/ \A u \in Closers : pc'[s][u] \notin Opening
    PROVE  Intact(s)'
BY DEF Intact

\* A listener is as it was, or one of the entries was closed.
Closes(s) ==
    \A l \in Listeners : ln'[s][l] = ln[s][l] \/ (l \in entries[s] /\ ln'[s][l] = "closed")

\* A step of a teardown leaves the rest of the server alone.
Aside(s) ==
    /\ gor'[s] = gor[s] /\ entries'[s] = entries[s] /\ closed'[s] = closed[s]
    /\ closeDone'[s] = closeDone[s] /\ stream'[s] = stream[s]
    /\ listenWG'[s] = listenWG[s] /\ result'[s] = result[s]
    /\ resolving[s] \in {"none", "gone"} => resolving'[s] = resolving[s]

\* A step of Serve's own teardown: nothing is listening yet.
LEMMA ServeTears ==
    ASSUME NEW s, Local(s), Aside(s), Closes(s), draining'[s] = draining[s],
           pc[s]["serve"] \in Steps, pc'[s]["serve"] \in Steps,
           \A u \in Closers : pc'[s][u] = pc[s][u], OwnTorn(s)', Copied(s)'
    PROVE  Local(s)'
<1>1. Closing(s)'
  BY Zenon, ClosingServe DEF Local, Closing, Aside, Steps, Setup
<1>2. /\ \A l \in Listeners : gor[s][l] = "none"
      /\ pc'[s]["serve"] \notin {"idle", "unlink", "listen", "identify", "run", "returned",
                                 "wait", "drain"}
      /\ pc[s]["serve"] \notin {"idle", "unlink", "listen", "identify", "run", "returned"}
      /\ result'[s] = "none"
  BY Zenon DEF Local, Listening, Steps, Aside
<1>3. Listening(s)'
  <2>1. \A l \in Listeners : /\ gor'[s][l] = "none" /\ (ln'[s][l] # "none" => l \in entries'[s])
                             /\ l \in entries'[s] => ln'[s][l] # "none"
    BY Zenon, <1>2 DEF Local, Listening, Aside, Closes
  <2>2. /\ stream'[s] => \E l \in Listeners : gor'[s][l] # "none"
        /\ listenWG'[s] = Counted(gor'[s]["unix"]) + Counted(gor'[s]["tcp"])
    BY Zenon DEF Local, Listening, Aside
  <2> QED
    BY Zenon, <1>2, <2>1, <2>2 DEF Listening, Counted
<1>4. Torn(s)'
  BY Zenon, <1>2 DEF Torn, Early
<1>5. Intact(s)'
  <2>1. closed'[s] /\ Again(s)'
    BY Zenon DEF Local, Closing, Aside, Again
  <2> QED
    BY Zenon, <2>1, IntactPast
<1> QED
  BY <1>1, <1>3, <1>4, <1>5 DEF Local

\* A step of the teardown of a Close: what it has reached is for the step to say.
LEMMA CloserTears ==
    ASSUME NEW s, Local(s), Aside(s), Closes(s), draining'[s], NEW t \in Closers,
           pc[s][t] \in {"drain"} \cup Steps, pc'[s][t] \in Steps,
           \A u \in Threads \ {t} : pc'[s][u] = pc[s][u],
           snap'[s]["serve"] = snap[s]["serve"], Copied(s)',
           pc'[s][t] \in Opening => pc[s][t] \in Opening /\ shut'[s] = shut[s] /\ ln'[s] = ln[s],
           Early(s) => Reached(s, t)' /\ Read(s, t)'
    PROVE  Local(s)'
<1>1. Closing(s)'
  BY Zenon, ClosingTears DEF Local, Aside
<1>2. pc'[s]["serve"] = pc[s]["serve"]
  BY Zenon, ThreadKinds
<1>3. Listening(s)'
  <2>1. \A l \in Listeners :
           /\ gor'[s][l] = gor[s][l] /\ (ln'[s][l] # "none" <=> ln[s][l] # "none")
           /\ ln'[s][l] = "open" => ln[s][l] = "open"
    BY Zenon DEF Local, Listening, Aside, Closes
  <2>2. /\ entries'[s] = entries[s] /\ stream'[s] = stream[s] /\ listenWG'[s] = listenWG[s]
        /\ result'[s] = result[s] /\ gor'[s] = gor[s]
        /\ resolving[s] \in {"none", "gone"} => resolving'[s] = resolving[s]
    BY Zenon DEF Aside
  <2>3. listenWG'[s] = Counted(gor'[s]["unix"]) + Counted(gor'[s]["tcp"])
    BY Zenon, <2>2 DEF Local, Listening
  <2> QED
    BY Zenon, <1>2, <2>1, <2>2, <2>3, ListeningKept DEF Local
<1>4. Torn(s)'
  <2>1. Early(s)' => Early(s)
    BY Zenon, <1>2 DEF Early, Aside
  <2> QED
    BY Zenon, <1>1, <2>1, TornTears
<1>5. OwnTorn(s)'
  <2>1. \A l \in Listeners : ln'[s][l] = "open" => ln[s][l] = "open"
    BY Zenon DEF Closes
  <2>2. /\ entries'[s] = entries[s]
        /\ resolving[s] \in {"none", "gone"} => resolving'[s] \in {"none", "gone"}
    BY Zenon DEF Aside
  <2> QED
    BY Zenon, <1>2, <2>1, <2>2, OwnSame DEF Local
<1>6. Intact(s)'
  <2>1. closed'[s]
    BY Zenon DEF Local, Closing, Aside
  <2>2. \A u \in Closers \ {t} : pc'[s][u] \notin Opening
    <3>1. \A u \in Closers : u # t => pc[s][u] \notin {"drain"} \cup Steps
      BY Zenon DEF Local, Closing
    <3>2. Opening \subseteq {"drain"} \cup Steps
      BY Zenon DEF Opening, Steps
    <3> QED
      BY Zenon, <3>1, <3>2, ThreadKinds
  <2>3. CASE pc'[s][t] \notin Opening
    BY Zenon, <2>1, <2>2, <2>3, IntactPast
  <2>4. CASE pc'[s][t] \in Opening
    <3>1. (Fresh(s) => Fresh(s)') /\ (Again(s) => Again(s)')
      BY Zenon, <1>2, <2>4 DEF Fresh, Again, Aside
    <3> QED
      BY Zenon, <2>1, <2>2, <2>4, <3>1, IntactSame DEF Local
  <2> QED
    BY Zenon, <2>3, <2>4
<1> QED
  BY Zenon, <1>1, <1>3, <1>4, <1>5, <1>6 DEF Local

\* Goroutine t of server s, and no other, goes to q.
Goes(s, t, q) ==
    /\ pc' \in [Servers -> [Threads -> Places]] /\ pc'[s][t] = q
    /\ \A u \in Threads \ {t} : pc'[s][u] = pc[s][u]
    /\ \A r \in Servers \ {s} : pc'[r] = pc[r]

\* What Goto does.
LEMMA GotoGoes ==
    ASSUME TypeOK, NEW s \in Servers, NEW t \in Threads, NEW q \in Places, Goto(s, t, q)
    PROVE  Goes(s, t, q)
BY DEF TypeOK, Goto, Goes

\* A server's flags and its Close calls are left alone, and nothing is closed.
Stays(s) ==
    /\ \A u \in Closers : pc'[s][u] = pc[s][u]
    /\ snap'[s] = snap[s] /\ closed'[s] = closed[s] /\ closeDone'[s] = closeDone[s]
    /\ draining'[s] = draining[s] /\ shut'[s] = shut[s] /\ entries[s] \subseteq entries'[s]
    /\ \A l \in Listeners : ln'[s][l] = "closed" => ln[s][l] = "closed"

\* A step of Serve outside of a teardown.
LEMMA ServeMoves ==
    ASSUME NEW s, Local(s), Stays(s), Listening(s)', Again(s) => Again(s)',
           pc'[s]["serve"] \in Steps => closed[s] /\ pc'[s]["serve"] = "cancel",
           pc'[s]["serve"] \in {"idle"} \cup Setup => pc[s]["serve"] \in {"idle"} \cup Setup,
           Torn(s)' \/ ~Early(s)' \/ ~closed[s]
    PROVE  Local(s)'
<1>1. Closing(s)'
  BY Zenon, ClosingServe DEF Local, Stays
<1>2. Torn(s)'
  <2>1. ~Early(s)' => Torn(s)'
    BY DEF Torn
  <2>2. ~closed[s] => Torn(s)'
    <3>1. ~closed[s] => ~closeDone'[s] /\ \A u \in Closers : pc'[s][u] \notin Steps
      BY Zenon DEF Local, Closing, Stays
    <3> QED
      BY Zenon, <3>1, TornOpen
  <2> QED
    BY <2>1, <2>2
<1>3. OwnTorn(s)'
  BY Zenon DEF OwnTorn, Read, Steps
<1>4. Copied(s)'
  BY Zenon DEF Local, Copied, Stays
<1>5. Intact(s)'
  <2>1. Fresh(s) => Fresh(s)'
    BY Zenon DEF Fresh, Stays
  <2> QED
    BY Zenon, <2>1, IntactSame DEF Local, Stays
<1> QED
  BY Zenon, <1>1, <1>2, <1>3, <1>4, <1>5 DEF Local

\* A step of a Close before or after its teardown, or of the context watcher.
LEMMA CloserMoves ==
    ASSUME NEW s, Local(s), Closing(s)', Torn(s)', pc'[s]["serve"] = pc[s]["serve"],
           \A u \in Closers : pc'[s][u] \in Opening => pc[s][u] \in Opening \/ ~closed[s],
           UNCHANGED <<snap, ln, gor, entries, shut, draining, stream, resolving, listenWG, result>>,
           closed[s] => closed'[s]
    PROVE  Local(s)'
<1>1. Listening(s)'
  BY Zenon, ListeningSame DEF Local
<1>2. OwnTorn(s)' /\ Copied(s)'
  BY Zenon DEF Local, OwnTorn, Read, Copied
<1>3. Intact(s)'
  <2>1. (Fresh(s) => Fresh(s)') /\ (Again(s) => Again(s)')
    BY DEF Fresh, Again
  <2> QED
    BY Zenon, <2>1, IntactSame DEF Local
<1> QED
  BY Zenon, <1>1, <1>2, <1>3 DEF Local

\* A step of the world, of a handler or of a listener goroutine.
LEMMA WorldMoves ==
    ASSUME NEW s, Local(s), Listening(s)', Done(s), Fresh(s) => Fresh(s)',
           UNCHANGED <<pc, snap, entries, shut, closed, closeDone, draining, result>>
    PROVE  Local(s)'
<1>1. Closing(s)' /\ Copied(s)'
  BY Zenon DEF Local, Closing, Copied
<1>2. Torn(s)'
  <2>1. Early(s)' => Early(s)
    BY Zenon DEF Early
  <2> QED
    BY Zenon, <2>1, TornSame DEF Local
<1>3. OwnTorn(s)'
  BY Zenon DEF Local, OwnTorn, Read, Done
<1>4. Intact(s)'
  BY Zenon DEF Local, Intact, Again
<1> QED
  BY <1>1, <1>2, <1>3, <1>4 DEF Local

-----------------------------------------------------------------------------
(* Every step keeps the invariant of its server: Serve *)

\* Serve starts, or is refused.
LEMMA StartKeeps ==
    ASSUME Inv, NEW s \in Servers, Start(s)
    PROVE  Kept(s)
<1>1. TypeOK /\ Local(s) /\ "serve" \in Threads /\ pc[s]["serve"] = "idle"
  BY Zenon, ThreadKinds DEF Inv, Start
<1>2. UNCHANGED <<snap, ln, gor, entries, shut, closed, closeDone, draining, stream, listenWG>>
  BY Zenon DEF Start, flags
<1>3. CASE closed[s]
  <2>1. /\ Goes(s, "serve", "returned") /\ resolving' = resolving
        /\ result' = [result EXCEPT ![s] = "errClosed"]
    BY <1>1, <1>3, GotoGoes DEF Start, Places
  <2>2. TypeOK' /\ Only(s) /\ result'[s] = "errClosed"
    BY Zenon, <1>1, <1>2, <2>1 DEF TypeOK, Goes, Only, Same, Results
  <2>3. Stays(s) /\ pc'[s]["serve"] = "returned"
    BY <1>2, <2>1, ThreadKinds DEF Stays, Goes
  <2>4. Listening(s)'
    BY Zenon, <1>1, <1>2, <2>1, <2>2, <2>3 DEF Local, Listening
  <2>5. ~Early(s)' /\ Again(s)'
    BY <2>2, <2>3 DEF Early, Again
  <2> QED
    BY <1>1, <2>2, <2>3, <2>4, <2>5, ServeMoves DEF Kept, Steps, Setup
<1>4. CASE ~closed[s]
  <2>1. /\ Goes(s, "serve", "unlink") /\ result' = result
        /\ \E v \in {"done", "live"} : resolving' = [resolving EXCEPT ![s] = v]
    BY Zenon, <1>1, <1>4, GotoGoes DEF Start, Places, Setup
  <2>2. TypeOK' /\ Only(s)
    BY Zenon, <1>1, <1>2, <2>1 DEF TypeOK, Goes, Only, Same
  <2>3. Stays(s) /\ pc'[s]["serve"] = "unlink"
    BY Zenon, <1>2, <2>1, ThreadKinds DEF Stays, Goes
  <2>4. Listening(s)'
    BY Zenon, <1>1, <1>2, <2>1, <2>3 DEF Local, Listening
  <2>5. Again(s) => Again(s)'
    BY <1>1, <2>1 DEF Again, Steps
  <2> QED
    BY Zenon, <1>1, <1>4, <2>2, <2>3, <2>4, <2>5, ServeMoves DEF Kept, Steps, Setup
<1> QED
  BY <1>3, <1>4

\* Serve clears the path.
LEMMA BindUnlinkKeeps ==
    ASSUME Inv, NEW s \in Servers, BindUnlink(s)
    PROVE  Kept(s)
<1>1. TypeOK /\ Local(s) /\ "serve" \in Threads /\ pc[s]["serve"] = "unlink"
  BY Zenon, ThreadKinds DEF Inv, BindUnlink
<1>2. /\ Goes(s, "serve", "listen")
      /\ UNCHANGED <<snap, ln, gor, entries, shut, closed, closeDone, draining, stream,
                     resolving, listenWG, result>>
  BY <1>1, GotoGoes DEF BindUnlink, Places, Setup, work, flags
<1>3. TypeOK' /\ Only(s)
  BY <1>1, <1>2 DEF TypeOK, Goes, Only, Same
<1>4. Stays(s) /\ pc'[s]["serve"] = "listen"
  BY <1>2, ThreadKinds DEF Stays, Goes
<1>5. Listening(s)'
  BY Zenon, <1>1, <1>2, <1>4 DEF Local, Listening
<1>6. ~Early(s)' /\ (Again(s) => Again(s)')
  BY <1>1, <1>2, <1>4 DEF Early, Again, Steps
<1> QED
  BY <1>1, <1>3, <1>4, <1>5, <1>6, ServeMoves DEF Kept, Steps, Setup

\* A bind fails: Serve returns, and what it bound before stays open.
LEMMA BindErrorKeeps ==
    ASSUME Inv, NEW s \in Servers, BindError(s), pc[s]["serve"] \in {"listen", "tcp"},
           UNCHANGED <<snap, ln, gor, entries, shut, closed, closeDone, draining, stream,
                       resolving, listenWG>>
    PROVE  Kept(s)
<1>1. TypeOK /\ Local(s) /\ "serve" \in Threads
  BY Zenon, ThreadKinds DEF Inv
<1>2. Goes(s, "serve", "returned")
  BY <1>1, GotoGoes DEF BindError, Places
<1>3. /\ TypeOK' /\ Only(s)
      /\ result'[s] = IF closed[s] THEN "bindAfterClose" ELSE "bindError"
  BY Zenon, <1>1, <1>2 DEF BindError, TypeOK, Goes, Only, Same, Results
<1>4. Stays(s) /\ pc'[s]["serve"] = "returned"
  BY <1>2, ThreadKinds DEF Stays, Goes
<1>5. Listening(s)'
  BY Zenon, <1>1, <1>3, <1>4 DEF Local, Listening
<1>6. (~Early(s)' \/ ~closed[s]) /\ ~Again(s)
  BY Zenon, <1>1, <1>3, <1>4 DEF Local, Listening, Early, Again, Steps
<1> QED
  BY <1>1, <1>3, <1>4, <1>5, <1>6, ServeMoves DEF Kept, Steps, Setup

\* Serve binds the socket, or fails.
LEMMA BindListenKeeps ==
    ASSUME Inv, NEW s \in Servers, BindListen(s)
    PROVE  Kept(s)
<1>1. TypeOK /\ Local(s) /\ "serve" \in Threads /\ pc[s]["serve"] = "listen"
  BY Zenon, ThreadKinds DEF Inv, BindListen
<1>2. UNCHANGED <<snap, gor, entries, shut, closed, closeDone, draining, stream, resolving, listenWG>>
  BY Zenon DEF BindListen, flags
<1>3. CASE ln' = ln /\ BindError(s)
  BY Zenon, <1>1, <1>2, <1>3, BindErrorKeeps
<1>4. CASE /\ ln' = [ln EXCEPT ![s]["unix"] = "open"]
           /\ Goto(s, "serve", "identify") /\ result' = result
  <2>1. Goes(s, "serve", "identify")
    BY <1>1, <1>4, GotoGoes DEF Places, Setup
  <2>2. /\ ln' \in [Servers -> [Listeners -> {"none", "open", "closed"}]]
        /\ ln'[s]["unix"] = "open" /\ ln'[s]["tcp"] = ln[s]["tcp"]
        /\ \A r \in Servers \ {s} : ln'[r] = ln[r]
    BY <1>1, <1>4 DEF TypeOK, Listeners
  <2>3. TypeOK' /\ Only(s)
    BY Zenon, <1>1, <1>2, <1>4, <2>1, <2>2 DEF TypeOK, Goes, Only, Same
  <2>4. Stays(s) /\ pc'[s]["serve"] = "identify"
    BY Zenon, <1>2, <2>1, <2>2, ThreadKinds DEF Stays, Goes, Listeners
  <2>5. Listening(s)'
    BY Zenon, <1>1, <1>2, <1>4, <2>2, <2>4 DEF Local, Listening, Listeners
  <2>6. ~Early(s)' /\ (Again(s) => Again(s)')
    BY <1>1, <1>4, <2>4 DEF Early, Again, Steps
  <2> QED
    BY Zenon, <1>1, <2>3, <2>4, <2>5, <2>6, ServeMoves DEF Kept, Steps, Setup
<1> QED
  BY Zenon, <1>3, <1>4 DEF BindListen

\* Serve records the socket.
LEMMA BindIdentifyKeeps ==
    ASSUME Inv, NEW s \in Servers, BindIdentify(s)
    PROVE  Kept(s)
<1>1. TypeOK /\ Local(s) /\ "serve" \in Threads /\ pc[s]["serve"] = "identify"
  BY Zenon, ThreadKinds DEF Inv, BindIdentify
<1>2. UNCHANGED <<snap, ln, gor, shut, closed, closeDone, draining, stream, resolving, listenWG,
                  result>>
  BY Zenon DEF BindIdentify, flags
<1>3. PICK q \in {"tcp", "begin"} : Goto(s, "serve", q)
  BY Zenon DEF BindIdentify
<1>4. Goes(s, "serve", q) /\ entries' = [entries EXCEPT ![s] = @ \cup {"unix"}]
  BY Zenon, <1>1, <1>3, GotoGoes DEF Places, Setup, BindIdentify
<1>5. TypeOK' /\ Only(s) /\ entries'[s] = {"unix"} /\ entries[s] = {}
  BY Zenon, <1>1, <1>2, <1>4 DEF TypeOK, Goes, Only, Same, Listeners, Local, Listening
<1>6. Stays(s) /\ pc'[s]["serve"] \in {"tcp", "begin"}
  BY Zenon, <1>2, <1>4, <1>5, ThreadKinds DEF Stays, Goes
<1>7. ln[s]["unix"] # "none" /\ ln[s]["tcp"] = "none"
  BY Zenon, <1>1, <1>5 DEF Local, Listening, Listeners
<1>8. Listening(s)'
  BY Zenon, <1>1, <1>2, <1>5, <1>6, <1>7 DEF Local, Listening, Listeners
<1>9. ~Early(s)' /\ (Again(s) => Again(s)')
  BY <1>1, <1>2, <1>6 DEF Early, Again, Steps
<1> QED
  BY <1>1, <1>5, <1>6, <1>8, <1>9, ServeMoves DEF Kept, Steps, Setup

\* Serve binds the TCP listener, or fails.
LEMMA BindTCPKeeps ==
    ASSUME Inv, NEW s \in Servers, BindTCP(s)
    PROVE  Kept(s)
<1>1. TypeOK /\ Local(s) /\ "serve" \in Threads /\ pc[s]["serve"] = "tcp"
  BY Zenon, ThreadKinds DEF Inv, BindTCP
<1>2. UNCHANGED <<snap, gor, shut, closed, closeDone, draining, stream, resolving, listenWG>>
  BY Zenon DEF BindTCP, flags
<1>3. CASE ln' = ln /\ entries' = entries /\ BindError(s)
  BY Zenon, <1>1, <1>2, <1>3, BindErrorKeeps
<1>4. CASE /\ ln' = [ln EXCEPT ![s]["tcp"] = "open"]
           /\ entries' = [entries EXCEPT ![s] = @ \cup {"tcp"}]
           /\ Goto(s, "serve", "begin") /\ result' = result
  <2>1. Goes(s, "serve", "begin")
    BY <1>1, <1>4, GotoGoes DEF Places, Setup
  <2>2. /\ ln' \in [Servers -> [Listeners -> {"none", "open", "closed"}]]
        /\ ln'[s]["tcp"] = "open" /\ ln'[s]["unix"] = ln[s]["unix"]
        /\ \A r \in Servers \ {s} : ln'[r] = ln[r]
    BY <1>1, <1>4 DEF TypeOK, Listeners
  <2>3. TypeOK' /\ Only(s) /\ entries'[s] = entries[s] \cup {"tcp"}
    BY Zenon, <1>1, <1>2, <1>4, <2>1, <2>2 DEF TypeOK, Goes, Only, Same, Listeners
  <2>4. Stays(s) /\ pc'[s]["serve"] = "begin"
    BY Zenon, <1>2, <2>1, <2>2, <2>3, ThreadKinds DEF Stays, Goes, Listeners
  <2>5. Listening(s)'
    BY Zenon, <1>1, <1>2, <1>4, <2>2, <2>3, <2>4 DEF Local, Listening, Listeners
  <2>6. ~Early(s)' /\ (Again(s) => Again(s)')
    BY <1>1, <1>4, <2>4 DEF Early, Again, Steps
  <2> QED
    BY Zenon, <1>1, <2>3, <2>4, <2>5, <2>6, ServeMoves DEF Kept, Steps, Setup
<1> QED
  BY Zenon, <1>3, <1>4 DEF BindTCP

\* Serve starts the listener goroutines, or finds the server closed.
LEMMA BeginListeningKeeps ==
    ASSUME Inv, NEW s \in Servers, BeginListening(s)
    PROVE  Kept(s)
<1>1. TypeOK /\ Local(s) /\ "serve" \in Threads /\ pc[s]["serve"] = "begin"
  BY Zenon, ThreadKinds DEF Inv, BeginListening
<1>2. UNCHANGED <<snap, ln, entries, shut, closed, closeDone, draining, stream, resolving, result>>
  BY Zenon DEF BeginListening, flags
<1>3. CASE closed[s]
  <2>1. Goes(s, "serve", "cancel") /\ UNCHANGED <<gor, listenWG>>
    BY <1>1, <1>3, GotoGoes DEF BeginListening, MayListen, Places, Steps
  <2>2. TypeOK' /\ Only(s)
    BY Zenon, <1>1, <1>2, <2>1 DEF TypeOK, Goes, Only, Same
  <2>3. Stays(s) /\ pc'[s]["serve"] = "cancel"
    BY <1>2, <2>1, ThreadKinds DEF Stays, Goes
  <2>4. Listening(s)'
    BY Zenon, <1>1, <1>2, <2>1, <2>3 DEF Local, Listening
  <2>5. ~Early(s)' /\ Again(s)'
    BY <2>3 DEF Early, Again, Steps
  <2> QED
    BY Zenon, <1>1, <1>3, <2>2, <2>3, <2>4, <2>5, ServeMoves DEF Kept, Steps, Setup
<1>4. CASE ~closed[s]
  <2>1. /\ listenWG' = [listenWG EXCEPT ![s] = @ + Count(s)]
        /\ gor' = [gor EXCEPT ![s] = [l \in Listeners |->
                                      IF l \in entries[s] THEN "ready" ELSE "none"]]
        /\ pc' = [pc EXCEPT ![s]["serve"] = "run", ![s]["watch"] = "armed"]
    BY Zenon, <1>4 DEF BeginListening, MayListen
  <2>2. /\ pc' \in [Servers -> [Threads -> Places]] /\ \A r \in Servers \ {s} : pc'[r] = pc[r]
        /\ pc'[s]["serve"] = "run" /\ pc'[s]["watch"] = "armed"
        /\ \A u \in Callers : pc'[s][u] = pc[s][u]
    <3> DEFINE p == [pc EXCEPT ![s]["serve"] = "run"]
    <3>1. /\ p \in [Servers -> [Threads -> Places]] /\ \A r \in Servers \ {s} : p[r] = pc[r]
          /\ p[s]["serve"] = "run" /\ \A u \in Threads \ {"serve"} : p[s][u] = pc[s][u]
      BY <1>1 DEF TypeOK, Places
    <3>2. pc' = [p EXCEPT ![s]["watch"] = "armed"]
      BY <2>1
    <3>3. "watch" \in Threads /\ Callers \subseteq Threads \ {"serve", "watch"}
      BY ThreadKinds
    <3> HIDE DEF p
    <3> QED
      BY <1>1, <3>1, <3>2, <3>3 DEF Places
  <2>3. /\ gor' \in [Servers -> [Listeners -> {"none", "ready", "serving", "done"}]]
        /\ \A l \in Listeners : gor'[s][l] = IF l \in entries[s] THEN "ready" ELSE "none"
        /\ \A r \in Servers \ {s} : gor'[r] = gor[r]
    BY <1>1, <2>1 DEF TypeOK
  <2>4. /\ Count(s) = (IF "unix" \in entries[s] THEN 1 ELSE 0)
                      + (IF "tcp" \in entries[s] THEN 1 ELSE 0)
        /\ listenWG[s] = 0
    BY <1>1, CountIs DEF Local, Listening, Listeners, Counted
  <2>5. /\ listenWG' \in [Servers -> Int] /\ listenWG'[s] = Count(s)
        /\ \A r \in Servers \ {s} : listenWG'[r] = listenWG[r]
    BY <1>1, <2>1, <2>4 DEF TypeOK
  <2>6. TypeOK' /\ Only(s)
    BY Zenon, <1>1, <1>2, <2>2, <2>3, <2>5 DEF TypeOK, Only, Same
  <2>7. Fresh(s) /\ ~closeDone[s] /\ \A u \in Closers : pc[s][u] \notin {"wait", "drain"} \cup Steps
    BY Zenon, <1>1, <1>4 DEF Local, Intact, Closing
  <2>8. \A u \in Closers : pc'[s][u] \notin {"wait", "drain"} \cup Steps
    BY <2>2, <2>7 DEF Closers, Steps
  <2>9. Closing(s)' /\ Torn(s)'
    <3>1. Torn(s)'
      BY <1>2, <2>7, <2>8, TornOpen
    <3>2. pc'[s]["serve"] \notin Steps /\ pc'[s]["serve"] \notin {"idle"} \cup Setup
      BY <2>2 DEF Steps, Setup
    <3>3. \A u \in Callers : pc'[s][u] = "returned" => closeDone[s]
      BY Zenon, <1>1, <2>2 DEF Local, Closing
    <3> QED
      BY Zenon, <1>2, <2>7, <2>8, <3>1, <3>2, <3>3, ThreadKinds DEF Closing
  <2>10. Listening(s)'
    <3>1. \A l \in Listeners : ln[s][l] # "closed" /\ l \notin shut[s]
      BY Zenon, <2>7 DEF Fresh
    <3>2. listenWG'[s] = Counted(gor'[s]["unix"]) + Counted(gor'[s]["tcp"])
      BY Zenon, <2>3, <2>4, <2>5 DEF Counted, Listeners
    <3>3. ~stream[s] /\ result[s] = "none"
      BY Zenon, <1>1 DEF Local, Listening
    <3> QED
      BY Zenon, <1>1, <1>2, <2>2, <2>3, <3>1, <3>2, <3>3 DEF Local, Listening
  <2>11. OwnTorn(s)' /\ Copied(s)'
    BY Zenon, <1>1, <1>2, <2>2 DEF Local, OwnTorn, Read, Copied
  <2>12. Intact(s)'
    BY Zenon, <1>2, <2>7 DEF Intact, Fresh
  <2> QED
    BY Zenon, <2>6, <2>9, <2>10, <2>11, <2>12 DEF Kept, Local
<1> QED
  BY <1>3, <1>4

\* Serve returns after its listeners.
LEMMA ServeReturnsKeeps ==
    ASSUME Inv, NEW s \in Servers, ServeReturns(s)
    PROVE  Kept(s)
<1>1. TypeOK /\ Local(s) /\ "serve" \in Threads /\ pc[s]["serve"] = "run"
  BY Zenon, ThreadKinds DEF Inv, ServeReturns
<1>2. /\ Goes(s, "serve", "returned")
      /\ UNCHANGED <<snap, ln, gor, entries, shut, closed, closeDone, draining, stream,
                     resolving, listenWG>>
  BY Zenon, <1>1, GotoGoes DEF ServeReturns, Places, work, flags
<1>3. TypeOK' /\ Only(s) /\ result'[s] = "nil"
  BY Zenon, <1>1, <1>2 DEF ServeReturns, TypeOK, Goes, Only, Same, Results
<1>4. Stays(s) /\ pc'[s]["serve"] = "returned"
  BY <1>2, ThreadKinds DEF Stays, Goes
<1>5. Listening(s)'
  BY Zenon, <1>1, <1>2, <1>3, <1>4 DEF Local, Listening
<1>6. Early(s) /\ ~Again(s)
  BY Zenon, <1>1 DEF Local, Listening, Early, Again, Steps
<1>7. Torn(s)'
  <2>1. Done(s)
    BY Zenon, <1>2 DEF Done
  <2> QED
    BY Zenon, <1>1, <1>2, <1>4, <1>6, <2>1, TornSame DEF Local, Stays
<1> QED
  BY Zenon, <1>1, <1>3, <1>4, <1>5, <1>6, <1>7, ServeMoves DEF Kept, Steps, Setup

-----------------------------------------------------------------------------
(* Every step keeps the invariant of its server: Close and the teardowns *)

\* A Close is the first, or will wait.
LEMMA CloseEnterKeeps ==
    ASSUME Inv, NEW s \in Servers, NEW t \in Threads, CloseEnter(s, t)
    PROVE  Kept(s)
<1>1. TypeOK /\ Local(s) /\ t \in Closers /\ t # "serve"
  BY Zenon, ThreadKinds DEF Inv, CloseEnter
<1>2. /\ pc[s][t] \in {"idle", "armed"} /\ (t = "watch" => pc[s][t] = "armed")
      /\ closed' = [closed EXCEPT ![s] = TRUE]
      /\ UNCHANGED <<snap, ln, gor, entries, shut, closeDone, draining, stream, resolving,
                     listenWG, result>>
  BY Zenon, <1>1, ThreadKinds DEF CloseEnter, work
<1>3. PICK q \in {"wait", "drain"} : Goes(s, t, q) /\ (q = "drain" <=> ~closed[s])
  BY Zenon, <1>1, GotoGoes DEF CloseEnter, Places
<1>4. TypeOK' /\ Only(s) /\ closed'[s]
  BY Zenon, <1>1, <1>2, <1>3 DEF TypeOK, Goes, Only, Same
<1>5. /\ pc'[s]["serve"] = pc[s]["serve"] /\ pc'[s][t] = q
      /\ \A u \in Closers \ {t} : pc'[s][u] = pc[s][u]
  BY Zenon, <1>1, <1>3, ThreadKinds DEF Goes
<1>6. Closing(s)'
  <2>1. q = "drain" => ~closeDone[s] /\ \A u \in Closers : pc[s][u] \notin {"drain"} \cup Steps
    BY Zenon, <1>1, <1>3 DEF Local, Closing
  <2>2. q \notin Steps \cup {"returned"}
    BY DEF Steps
  <2>3. t = "watch" => pc[s]["serve"] \notin {"idle"} \cup Setup
    BY Zenon, <1>1, <1>2 DEF Local, Closing
  <2> QED
    BY Zenon, <1>1, <1>2, <1>4, <1>5, <2>1, <2>2, <2>3, ThreadKinds DEF Local, Closing
<1>7. Torn(s)'
  <2>1. Done(s) /\ (Early(s)' => Early(s))
    BY Zenon, <1>2, <1>5 DEF Done, Early
  <2>2. \A u \in Closers : pc'[s][u] \in Steps => pc'[s][u] = pc[s][u]
    BY Zenon, <1>5 DEF Steps
  <2> QED
    BY Zenon, <1>1, <1>2, <2>1, <2>2, TornSame DEF Local
<1>8. \A u \in Closers : pc'[s][u] \in Opening => pc[s][u] \in Opening \/ ~closed[s]
  BY <1>3, <1>5 DEF Opening
<1> QED
  BY Zenon, <1>1, <1>2, <1>4, <1>5, <1>6, <1>7, <1>8, CloserMoves DEF Kept

\* A later Close returns, or the context watcher stops.
LEMMA LeavesKeeps ==
    ASSUME Inv, NEW s \in Servers, NEW t \in Closers, Goto(s, t, "returned"),
           \/ pc[s][t] = "wait" /\ closeDone[s]
           \/ t = "watch" /\ pc[s][t] = "armed",
           UNCHANGED <<snap, ln, gor, entries, shut, closed, closeDone, draining, stream,
                       resolving, listenWG, result>>
    PROVE  Kept(s)
<1>1. TypeOK /\ Local(s) /\ t \in Threads /\ t # "serve" /\ Goes(s, t, "returned")
  BY Zenon, GotoGoes, ThreadKinds DEF Inv, Places
<1>2. TypeOK' /\ Only(s)
  BY Zenon, <1>1 DEF TypeOK, Goes, Only, Same
<1>3. /\ pc'[s]["serve"] = pc[s]["serve"] /\ pc'[s][t] = "returned"
      /\ \A u \in Closers \ {t} : pc'[s][u] = pc[s][u]
  BY Zenon, <1>1, ThreadKinds DEF Goes
<1>4. Closing(s)'
  <2>1. "returned" \notin {"wait", "drain"} \cup Steps
    BY Zenon DEF Steps
  <2>2. t = "watch" => pc[s]["serve"] \notin {"idle"} \cup Setup
    BY Zenon, <1>1 DEF Local, Closing
  <2> QED
    BY Zenon, <1>1, <1>3, <2>1, <2>2, ThreadKinds DEF Local, Closing
<1>5. Torn(s)'
  <2>1. Done(s) /\ (Early(s)' => Early(s))
    BY Zenon, <1>3 DEF Done, Early
  <2>2. \A u \in Closers : pc'[s][u] \in Steps => pc'[s][u] = pc[s][u]
    BY <1>3 DEF Steps
  <2> QED
    BY Zenon, <1>1, <2>1, <2>2, TornSame DEF Local
<1>6. \A u \in Closers : pc'[s][u] \in Opening => pc[s][u] \in Opening \/ ~closed[s]
  BY <1>3 DEF Opening
<1> QED
  BY Zenon, <1>1, <1>2, <1>3, <1>4, <1>5, <1>6, CloserMoves DEF Kept

\* A teardown is over: closeDone is closed, or Serve returns.
LEMMA TdReturnKeeps ==
    ASSUME Inv, NEW s \in Servers, NEW t \in Threads, TdReturn(s, t)
    PROVE  Kept(s)
<1>1. TypeOK /\ Local(s) /\ pc[s][t] = "torn"
  BY Zenon DEF Inv, TdReturn
<1>2. /\ Goes(s, t, "returned")
      /\ UNCHANGED <<snap, ln, gor, entries, shut, closed, draining, stream, resolving, listenWG>>
  BY Zenon, <1>1, GotoGoes DEF TdReturn, Places, work
<1>3. CASE t = "serve"
  <2>1. closeDone' = closeDone /\ result' = [result EXCEPT ![s] = "errClosed"]
    BY Zenon, <1>3 DEF TdReturn
  <2>2. TypeOK' /\ Only(s) /\ result'[s] = "errClosed"
    BY Zenon, <1>1, <1>2, <2>1 DEF TypeOK, Goes, Only, Same, Results
  <2>3. Stays(s) /\ pc'[s]["serve"] = "returned"
    BY Zenon, <1>2, <1>3, <2>1, ThreadKinds DEF Stays, Goes
  <2>4. Listening(s)'
    BY Zenon, <1>1, <1>2, <1>3, <2>2, <2>3 DEF Local, Listening, OwnTorn
  <2>5. ~Early(s)' /\ Again(s)'
    BY Zenon, <2>2, <2>3 DEF Early, Again
  <2> QED
    BY Zenon, <1>1, <2>2, <2>3, <2>4, <2>5, ServeMoves DEF Kept, Steps, Setup
<1>4. CASE t # "serve"
  <2>1. result' = result /\ closeDone' = [closeDone EXCEPT ![s] = TRUE] /\ t \in Closers
    BY Zenon, <1>4, ThreadKinds DEF TdReturn
  <2>2. TypeOK' /\ Only(s) /\ closeDone'[s]
    BY Zenon, <1>1, <1>2, <2>1 DEF TypeOK, Goes, Only, Same
  <2>3. /\ pc'[s]["serve"] = pc[s]["serve"] /\ pc'[s][t] = "returned"
        /\ \A u \in Closers \ {t} : pc'[s][u] = pc[s][u]
    BY Zenon, <1>2, <2>1, ThreadKinds DEF Goes
  <2>4. closed[s] /\ draining[s] /\ \A u \in Closers : pc'[s][u] \notin {"drain"} \cup Steps
    BY Zenon, <1>1, <2>1, <2>3 DEF Local, Closing, Steps
  <2>5. Closing(s)'
    <3>1. t = "watch" => pc[s]["serve"] \notin {"idle"} \cup Setup
      BY Zenon, <1>1 DEF Local, Closing
    <3> QED
      BY Zenon, <1>1, <1>2, <2>2, <2>3, <2>4, <3>1, ThreadKinds DEF Local, Closing
  <2>6. Torn(s)'
    <3>1. Early(s)' => Reached(s, t)
      BY Zenon, <1>1, <2>1, <2>3 DEF Local, Torn, Early
    <3>2. Early(s)' => Quiet(s)'
      BY Zenon, <1>1, <1>2, <3>1 DEF Reached, Quiet
    <3>3. \A u \in Closers : Reached(s, u)' /\ Read(s, u)'
      BY Zenon, <2>4 DEF Reached, Read, Steps
    <3> QED
      BY Zenon, <3>2, <3>3 DEF Torn
  <2>7. \A u \in Closers : pc'[s][u] \in Opening => pc[s][u] \in Opening \/ ~closed[s]
    BY Zenon, <2>3 DEF Opening
  <2> QED
    BY Zenon, <1>1, <1>2, <2>1, <2>2, <2>3, <2>5, <2>6, <2>7, CloserMoves DEF Kept
<1> QED
  BY <1>3, <1>4

\* A step of a teardown, whoever takes it.
LEMMA TearsKeep ==
    ASSUME NEW s \in Servers, Local(s), TypeOK', Only(s), NEW t \in Threads, NEW q \in Steps,
           Goes(s, t, q), pc[s][t] \in Steps, draining'[s] = draining[s],
           Aside(s), Closes(s), Copied(s)',
           \A u \in Threads \ {t} : snap'[s][u] = snap[s][u],
           q \in Opening => pc[s][t] \in Opening /\ shut'[s] = shut[s] /\ ln'[s] = ln[s],
           t = "serve" => OwnTorn(s)',
           t \in Closers /\ Early(s) => Reached(s, t)' /\ Read(s, t)'
    PROVE  Kept(s)
<1>1. pc'[s][t] \in Steps /\ \A u \in Threads \ {t} : pc'[s][u] = pc[s][u]
  BY Zenon DEF Goes
<1>2. CASE t = "serve"
  <2>1. \A u \in Closers : pc'[s][u] = pc[s][u]
    BY Zenon, <1>1, <1>2, ThreadKinds
  <2> QED
    BY Zenon, <1>1, <1>2, <2>1, ServeTears DEF Kept
<1>3. CASE t \in Closers
  <2>1. draining'[s] /\ snap'[s]["serve"] = snap[s]["serve"]
    BY Zenon, <1>3, ThreadKinds DEF Local, Closing
  <2>2. pc[s][t] \in {"drain"} \cup Steps /\ pc'[s][t] = q
    BY Zenon DEF Goes
  <2> QED
    BY Zenon, <1>1, <1>3, <2>1, <2>2, CloserTears DEF Kept
<1> QED
  BY Zenon, <1>2, <1>3, ThreadKinds

\* A step of a teardown that only waits, or unlinks.
LEMMA PlainKeeps ==
    ASSUME Inv, NEW s \in Servers, NEW t \in Threads, NEW q \in Steps, Goto(s, t, q),
           pc[s][t] \in Steps, q \in Opening => pc[s][t] \in Opening,
           UNCHANGED <<snap, ln, gor, entries, shut, closed, closeDone, draining, stream,
                       resolving, listenWG, result>>,
           Goes(s, t, q) /\ t = "serve" => OwnTorn(s)',
           Goes(s, t, q) /\ t \in Closers /\ Early(s) => Reached(s, t)' /\ Read(s, t)'
    PROVE  Kept(s)
<1>1. Local(s) /\ TypeOK /\ Goes(s, t, q)
  BY Zenon, GotoGoes DEF Inv, Places
<1>2. TypeOK' /\ Only(s)
  BY Zenon, <1>1 DEF TypeOK, Goes, Only, Same
<1>3. Aside(s) /\ Closes(s) /\ Copied(s)'
  BY Zenon, <1>1 DEF Aside, Closes, Copied, Local
<1> QED
  BY Zenon, <1>1, <1>2, <1>3, TearsKeep

\* What a Close and what Serve has reached in its teardown, as far as it has come.
LEMMA HasReached ==
    ASSUME NEW s, Local(s)
    PROVE  /\ OwnTorn(s)
           /\ \A t \in Closers : Early(s) => Reached(s, t) /\ Read(s, t)
BY Zenon DEF Local, Torn

\* What is behind a teardown at each of its later steps.
LEMMA Behind ==
    ASSUME NEW s, NEW t, Reached(s, t)
    PROVE  /\ pc[s][t] \in {"quiesce", "join", "resolvers", "settle"} =>
                 entries[s] \subseteq shut[s] /\ \A l \in Listeners : gor[s][l] = "serving" => ln[s][l] # "open"
           /\ pc[s][t] \in {"join", "resolvers", "settle"} =>
                 ~stream[s] /\ \A l \in Listeners : ln[s][l] # "open"
           /\ pc[s][t] \in {"resolvers", "settle"} => \A l \in Listeners : gor[s][l] \in {"none", "done"}
BY Zenon DEF Reached

\* A teardown unlinks the path, when it is its own.
LEMMA TdRemoveKeeps ==
    ASSUME Inv, NEW s \in Servers, NEW t \in Threads, TdRemove(s, t)
    PROVE  Kept(s)
<1>1. /\ Local(s) /\ pc[s][t] = "remove" /\ Goto(s, t, "shutdown")
      /\ UNCHANGED <<snap, ln, gor, entries, shut, closed, closeDone, draining, stream,
                     resolving, listenWG, result>>
  BY Zenon, AfterIs DEF Inv, TdRemove, work, flags
<1>2. Goes(s, t, "shutdown") /\ t = "serve" => OwnTorn(s)'
  BY Zenon, <1>1, HasReached DEF Goes, OwnTorn, Read
<1>3. Goes(s, t, "shutdown") /\ t \in Closers /\ Early(s) => Reached(s, t)' /\ Read(s, t)'
  <2>1. pc'[s][t] = "shutdown" => Reached(s, t)'
    BY Zenon DEF Reached
  <2>2. t \in Closers /\ Early(s) => Read(s, t)'
    BY Zenon, <1>1, HasReached DEF Read
  <2> QED
    BY Zenon, <2>1, <2>2 DEF Goes
<1> QED
  BY Zenon, <1>1, <1>2, <1>3, PlainKeeps DEF Steps, Opening

\* A teardown has waited for the handlers.
LEMMA TdQuiesceKeeps ==
    ASSUME Inv, NEW s \in Servers, NEW t \in Threads, TdQuiesce(s, t)
    PROVE  Kept(s)
<1>1. /\ Local(s) /\ pc[s][t] = "quiesce" /\ ~stream[s] /\ Goto(s, t, "close")
      /\ UNCHANGED <<snap, ln, gor, entries, shut, closed, closeDone, draining, stream,
                     resolving, listenWG, result>>
  BY Zenon, AfterIs DEF Inv, TdQuiesce, work, flags
<1>2. Goes(s, t, "close") /\ t = "serve" => OwnTorn(s)'
  BY Zenon, <1>1, HasReached DEF Goes, OwnTorn, Read
<1>3. Goes(s, t, "close") /\ t \in Closers /\ Early(s) => Reached(s, t)' /\ Read(s, t)'
  <2>1. Reached(s, t) /\ pc'[s][t] = "close" => Reached(s, t)'
    BY Zenon, <1>1, Behind DEF Reached
  <2>2. t \in Closers /\ Early(s) => Read(s, t)'
    BY Zenon, <1>1, HasReached DEF Read
  <2> QED
    BY Zenon, <1>1, <2>1, <2>2, HasReached DEF Goes
<1> QED
  BY Zenon, <1>1, <1>2, <1>3, PlainKeeps DEF Steps, Opening

\* A teardown has waited for the listener goroutines.
LEMMA TdJoinKeeps ==
    ASSUME Inv, NEW s \in Servers, NEW t \in Threads, TdJoin(s, t)
    PROVE  Kept(s)
<1>1. /\ Local(s) /\ pc[s][t] = "join" /\ listenWG[s] = 0 /\ Goto(s, t, "resolvers")
      /\ UNCHANGED <<snap, ln, gor, entries, shut, closed, closeDone, draining, stream,
                     resolving, listenWG, result>>
  BY Zenon, AfterIs DEF Inv, TdJoin, work, flags
<1>2. Goes(s, t, "resolvers") /\ t = "serve" => OwnTorn(s)'
  BY Zenon, <1>1, HasReached DEF Goes, OwnTorn, Read
<1>3. \A l \in Listeners : gor[s][l] \in {"none", "done"}
  <2>1. Counted(gor[s]["unix"]) = 0 /\ Counted(gor[s]["tcp"]) = 0
    <3>1. 0 = Counted(gor[s]["unix"]) + Counted(gor[s]["tcp"])
      BY Zenon, <1>1 DEF Local, Listening
    <3>2. Counted(gor[s]["unix"]) \in {0, 1} /\ Counted(gor[s]["tcp"]) \in {0, 1}
      BY Zenon DEF Counted
    <3> QED
      BY <3>1, <3>2
  <2>2. \A l \in Listeners : gor[s][l] \in {"none", "ready", "serving", "done"}
    BY DEF Inv, TypeOK
  <2> QED
    BY <2>1, <2>2 DEF Counted, Listeners
<1>4. Goes(s, t, "resolvers") /\ t \in Closers /\ Early(s) => Reached(s, t)' /\ Read(s, t)'
  <2>1. Reached(s, t) /\ pc'[s][t] = "resolvers" => Reached(s, t)'
    BY Zenon, <1>1, <1>3, Behind DEF Reached
  <2>2. pc'[s][t] = "resolvers" => Read(s, t)'
    BY Zenon DEF Read
  <2> QED
    BY Zenon, <1>1, <2>1, <2>2, HasReached DEF Goes
<1> QED
  BY Zenon, <1>1, <1>2, <1>4, PlainKeeps DEF Steps, Opening

\* A teardown has waited for the watches.
LEMMA TdSettleKeeps ==
    ASSUME Inv, NEW s \in Servers, NEW t \in Threads, TdSettle(s, t)
    PROVE  Kept(s)
<1>1. /\ Local(s) /\ pc[s][t] = "settle" /\ resolving[s] \in {"none", "gone"} /\ Goto(s, t, "torn")
      /\ UNCHANGED <<snap, ln, gor, entries, shut, closed, closeDone, draining, stream,
                     resolving, listenWG, result>>
  BY Zenon, AfterIs DEF Inv, TdSettle, work, flags
<1>2. Goes(s, t, "torn") /\ t = "serve" => OwnTorn(s)'
  BY Zenon, <1>1, HasReached DEF Goes, OwnTorn, Read
<1>3. Goes(s, t, "torn") /\ t \in Closers /\ Early(s) => Reached(s, t)' /\ Read(s, t)'
  <2>1. Reached(s, t) /\ pc'[s][t] = "torn" => Reached(s, t)'
    BY Zenon, <1>1, Behind DEF Reached
  <2>2. pc'[s][t] = "torn" => Read(s, t)'
    BY Zenon DEF Read
  <2> QED
    BY Zenon, <1>1, <2>1, <2>2, HasReached DEF Goes
<1> QED
  BY Zenon, <1>1, <1>2, <1>3, PlainKeeps DEF Steps, Opening

\* The first Close drains.
LEMMA DrainKeeps ==
    ASSUME Inv, NEW s \in Servers, NEW t \in Threads, Drain(s, t)
    PROVE  Kept(s)
<1>1. /\ TypeOK /\ Local(s) /\ pc[s][t] = "drain" /\ draining' = [draining EXCEPT ![s] = TRUE]
      /\ UNCHANGED <<snap, ln, gor, entries, shut, closed, closeDone, stream, resolving,
                     listenWG, result>>
  BY Zenon DEF Inv, Drain, Announce, work
<1>0. t \in Closers
  BY Zenon, <1>1, ThreadKinds DEF Local, Listening
<1>2. Goes(s, t, "cancel")
  BY Zenon, <1>1, GotoGoes DEF Drain, Places, Steps
<1>3. TypeOK' /\ Only(s) /\ draining'[s]
  BY Zenon, <1>1, <1>2 DEF TypeOK, Goes, Only, Same
<1>4. Aside(s) /\ Closes(s) /\ Copied(s)'
  BY Zenon, <1>1 DEF Aside, Closes, Copied, Local
<1>5. /\ pc'[s][t] = "cancel" /\ \A u \in Threads \ {t} : pc'[s][u] = pc[s][u]
      /\ Reached(s, t)' /\ Read(s, t)'
  BY Zenon, <1>2 DEF Goes, Reached, Read
<1>6. Local(s)'
  BY Zenon, <1>0, <1>1, <1>3, <1>4, <1>5, CloserTears DEF Steps, Opening
<1> QED
  BY Zenon, <1>3, <1>6 DEF Kept

\* A teardown reads the entries: with none there is nothing to close or to wait for.
LEMMA TdCancelKeeps ==
    ASSUME Inv, NEW s \in Servers, NEW t \in Threads, TdCancel(s, t)
    PROVE  Kept(s)
<1>1. /\ TypeOK /\ Local(s) /\ pc[s][t] = "cancel"
      /\ snap' = [snap EXCEPT ![s][t] = [entries |-> entries[s], mine |-> FALSE]]
      /\ UNCHANGED <<ln, gor, entries, shut, closed, closeDone, draining, stream, resolving,
                     listenWG, result>>
  BY Zenon DEF Inv, TdCancel, flags
<1>2. PICK q \in {"resolvers", "stat"} : Goes(s, t, q) /\ (q = "resolvers" <=> entries[s] = {})
  BY Zenon, <1>1, AfterIs, GotoGoes DEF TdCancel, Places, Steps
<1>3. /\ snap' \in [Servers -> [Threads -> [entries : SUBSET Listeners, mine : BOOLEAN]]]
      /\ snap'[s][t].entries = entries[s]
      /\ \A u \in Threads \ {t} : snap'[s][u] = snap[s][u]
      /\ \A r \in Servers \ {s} : snap'[r] = snap[r]
  BY Zenon, <1>1 DEF TypeOK
<1>4. TypeOK' /\ Only(s)
  BY Zenon, <1>1, <1>2, <1>3 DEF TypeOK, Goes, Only, Same
<1>5. Aside(s) /\ Closes(s) /\ Copied(s)'
  BY Zenon, <1>1, <1>3 DEF Aside, Closes, Copied, Local
<1>6. entries[s] = {} /\ pc[s]["serve"] # "identify" =>
          ~stream[s] /\ \A l \in Listeners : gor[s][l] = "none" /\ ln[s][l] = "none"
  BY Zenon, <1>1 DEF Local, Listening
<1>7. t = "serve" => OwnTorn(s)'
  BY Zenon, <1>1, <1>2, <1>3, <1>6 DEF Goes, OwnTorn, Read
<1>8. t \in Closers /\ Early(s) => Reached(s, t)' /\ Read(s, t)'
  BY Zenon, <1>1, <1>2, <1>3, <1>6 DEF Goes, Early, Reached, Read
<1>9. q \in Steps /\ pc[s][t] \in Steps \cap Opening
  BY <1>1 DEF Steps, Opening
<1> QED
  BY Zenon, <1>1, <1>2, <1>3, <1>4, <1>5, <1>7, <1>8, <1>9, TearsKeep

\* A teardown reads the identity of the socket file.
LEMMA TdStatKeeps ==
    ASSUME Inv, NEW s \in Servers, NEW t \in Threads, TdStat(s, t)
    PROVE  Kept(s)
<1>1. /\ TypeOK /\ Local(s) /\ pc[s][t] = "stat"
      /\ UNCHANGED <<ln, gor, entries, shut, closed, closeDone, draining, stream, resolving,
                     listenWG, result>>
  BY Zenon DEF Inv, TdStat, flags, work
<1>2. Goes(s, t, "remove")
  BY <1>1, AfterIs, GotoGoes DEF TdStat, Places, Steps
<1>3. /\ snap' \in [Servers -> [Threads -> [entries : SUBSET Listeners, mine : BOOLEAN]]]
      /\ snap'[s][t].entries = snap[s][t].entries
      /\ \A u \in Threads \ {t} : snap'[s][u] = snap[s][u]
      /\ \A r \in Servers \ {s} : snap'[r] = snap[r]
  <2>1. PICK m \in BOOLEAN : snap' = [snap EXCEPT ![s][t].mine = m]
    BY Zenon DEF TdStat
  <2> DEFINE x == [snap[s][t] EXCEPT !.mine = m]
  <2>2. x \in [entries : SUBSET Listeners, mine : BOOLEAN] /\ x.entries = snap[s][t].entries
    <3>1. snap[s][t] \in [entries : SUBSET Listeners, mine : BOOLEAN]
      BY <1>1 DEF TypeOK
    <3> QED
      BY <3>1
  <2>3. snap' = [snap EXCEPT ![s][t] = x]
    BY <2>1
  <2> HIDE DEF x
  <2> QED
    BY Zenon, <1>1, <2>2, <2>3 DEF TypeOK
<1>4. TypeOK' /\ Only(s)
  BY Zenon, <1>1, <1>2, <1>3 DEF TypeOK, Goes, Only, Same
<1>5. Aside(s) /\ Closes(s) /\ Copied(s)'
  BY Zenon, <1>1, <1>3 DEF Aside, Closes, Copied, Local
<1>6. t = "serve" => OwnTorn(s)'
  BY Zenon, <1>1, <1>2, <1>3, HasReached DEF Goes, OwnTorn, Read
<1>7. t \in Closers /\ Early(s) => Reached(s, t)' /\ Read(s, t)'
  <2>1. pc'[s][t] = "remove" => Reached(s, t)'
    BY Zenon DEF Reached
  <2>2. t \in Closers /\ Early(s) => Read(s, t)'
    BY Zenon, <1>1, <1>3, HasReached DEF Read
  <2> QED
    BY Zenon, <1>2, <2>1, <2>2 DEF Goes
<1>8. "remove" \in Steps /\ pc[s][t] \in Steps \cap Opening
  BY Zenon, <1>1 DEF Steps, Opening
<1> QED
  BY Zenon, <1>1, <1>2, <1>3, <1>4, <1>5, <1>6, <1>7, <1>8, TearsKeep

\* A teardown shuts the http servers down: the ones that serve lose their listener.
LEMMA TdShutdownKeeps ==
    ASSUME Inv, NEW s \in Servers, NEW t \in Threads, TdShutdown(s, t)
    PROVE  Kept(s)
<1>1. /\ TypeOK /\ Local(s) /\ pc[s][t] = "shutdown"
      /\ UNCHANGED <<snap, gor, entries, closed, closeDone, draining, stream, resolving,
                     listenWG, result>>
  BY Zenon DEF Inv, TdShutdown, flags
<1>2. Goes(s, t, "quiesce")
  BY Zenon, <1>1, AfterIs, GotoGoes DEF TdShutdown, Places, Steps
<1>3. /\ ln' \in [Servers -> [Listeners -> {"none", "open", "closed"}]]
      /\ \A l \in Listeners :
            ln'[s][l] = IF l \in snap[s][t].entries /\ gor[s][l] = "serving"
                        THEN "closed" ELSE ln[s][l]
      /\ \A r \in Servers \ {s} : ln'[r] = ln[r]
  BY Zenon, <1>1 DEF TdShutdown, TypeOK
<1>4. snap[s][t].entries \subseteq Listeners /\ snap[s][t].entries \subseteq entries[s]
  BY Zenon, <1>1 DEF TypeOK, Local, Copied
<1>5. /\ shut' \in [Servers -> SUBSET Listeners] /\ shut'[s] = shut[s] \cup snap[s][t].entries
      /\ \A r \in Servers \ {s} : shut'[r] = shut[r]
  BY Zenon, <1>1, <1>4 DEF TdShutdown, TypeOK
<1>6. TypeOK' /\ Only(s)
  BY Zenon, <1>1, <1>2, <1>3, <1>5 DEF TypeOK, Goes, Only, Same
<1>7. Aside(s) /\ Closes(s) /\ Copied(s)'
  BY Zenon, <1>1, <1>3, <1>4 DEF Aside, Closes, Copied, Local
<1>8. t = "serve" => OwnTorn(s)'
  BY Zenon, <1>1, <1>2, HasReached DEF Goes, OwnTorn, Read
<1>9. t \in Closers /\ Early(s) => Reached(s, t)' /\ Read(s, t)'
  <2>1. t \in Closers /\ Early(s) => snap[s][t].entries = entries[s]
    BY Zenon, <1>1, HasReached DEF Read
  <2>2. \A l \in Listeners : gor[s][l] = "serving" => l \in entries[s]
    BY Zenon, <1>1 DEF Local, Listening
  <2> QED
    BY Zenon, <1>1, <1>2, <1>3, <1>5, <2>1, <2>2 DEF Goes, Reached, Read
<1>10. "quiesce" \in Steps /\ "quiesce" \notin Opening /\ pc[s][t] \in Steps
  BY Zenon, <1>1 DEF Steps, Opening
<1> QED
  BY Zenon, <1>1, <1>2, <1>6, <1>7, <1>8, <1>9, <1>10, TearsKeep

\* A teardown closes the listeners.
LEMMA TdCloseKeeps ==
    ASSUME Inv, NEW s \in Servers, NEW t \in Threads, TdClose(s, t)
    PROVE  Kept(s)
<1>1. /\ TypeOK /\ Local(s) /\ pc[s][t] = "close"
      /\ UNCHANGED <<snap, gor, entries, shut, closed, closeDone, draining, stream, resolving,
                     listenWG, result>>
  BY Zenon DEF Inv, TdClose, flags
<1>2. Goes(s, t, "join")
  BY Zenon, <1>1, AfterIs, GotoGoes DEF TdClose, Places, Steps
<1>3. /\ ln' \in [Servers -> [Listeners -> {"none", "open", "closed"}]]
      /\ \A l \in Listeners :
            ln'[s][l] = IF l \in snap[s][t].entries THEN "closed" ELSE ln[s][l]
      /\ \A r \in Servers \ {s} : ln'[r] = ln[r]
  BY Zenon, <1>1 DEF TdClose, TypeOK
<1>4. TypeOK' /\ Only(s)
  BY Zenon, <1>1, <1>2, <1>3 DEF TypeOK, Goes, Only, Same
<1>5. Aside(s) /\ Closes(s) /\ Copied(s)'
  BY Zenon, <1>1, <1>3 DEF Aside, Closes, Copied, Local
<1>6. snap[s][t].entries = entries[s] /\ pc[s]["serve"] # "identify" =>
          \A l \in Listeners : ln'[s][l] # "open"
  BY Zenon, <1>1, <1>3 DEF Local, Listening
<1>7. t = "serve" => OwnTorn(s)'
  BY Zenon, <1>1, <1>2, <1>6, HasReached DEF Goes, OwnTorn, Read
<1>8. t \in Closers /\ Early(s) => Reached(s, t)' /\ Read(s, t)'
  <2>1. t \in Closers /\ Early(s) => Reached(s, t) /\ \A l \in Listeners : ln'[s][l] # "open"
    BY Zenon, <1>1, <1>6, HasReached DEF Read, Early
  <2> QED
    BY Zenon, <1>1, <1>2, <2>1 DEF Goes, Reached, Read
<1>9. "join" \in Steps /\ "join" \notin Opening /\ pc[s][t] \in Steps
  BY Zenon, <1>1 DEF Steps, Opening
<1> QED
  BY Zenon, <1>1, <1>2, <1>4, <1>5, <1>7, <1>8, <1>9, TearsKeep

\* A teardown cancels the watches.
LEMMA TdResolversKeeps ==
    ASSUME Inv, NEW s \in Servers, NEW t \in Threads, TdResolvers(s, t)
    PROVE  Kept(s)
<1>1. /\ TypeOK /\ Local(s) /\ pc[s][t] = "resolvers"
      /\ UNCHANGED <<snap, ln, gor, entries, shut, closed, closeDone, draining, stream,
                     listenWG, result>>
  BY Zenon DEF Inv, TdResolvers, flags
<1>2. Goes(s, t, "settle")
  BY Zenon, <1>1, AfterIs, GotoGoes DEF TdResolvers, Places, Steps
<1>3. /\ TypeOK' /\ Only(s)
      /\ resolving[s] \in {"none", "gone"} => resolving'[s] = resolving[s]
  BY Zenon, <1>1, <1>2 DEF TdResolvers, TypeOK, Goes, Only, Same
<1>4. Aside(s) /\ Closes(s) /\ Copied(s)'
  BY Zenon, <1>1, <1>3 DEF Aside, Closes, Copied, Local
<1>5. t = "serve" => OwnTorn(s)'
  BY Zenon, <1>1, <1>2, HasReached DEF Goes, OwnTorn, Read
<1>6. t \in Closers /\ Early(s) => Reached(s, t)' /\ Read(s, t)'
  <2>1. Reached(s, t) /\ pc'[s][t] = "settle" => Reached(s, t)'
    BY Zenon, <1>1, Behind DEF Reached
  <2>2. pc'[s][t] = "settle" => Read(s, t)'
    BY Zenon DEF Read
  <2> QED
    BY Zenon, <1>1, <1>2, <2>1, <2>2, HasReached DEF Goes
<1>7. "settle" \in Steps /\ "settle" \notin Opening /\ pc[s][t] \in Steps
  BY <1>1 DEF Steps, Opening
<1> QED
  BY Zenon, <1>1, <1>2, <1>3, <1>4, <1>5, <1>6, <1>7, TearsKeep

-----------------------------------------------------------------------------
(* Every step keeps the invariant of its server: the world and the listeners *)

\* The context of Serve is cancelled, or its watches end.
LEMMA ResolvingKeeps ==
    ASSUME Inv, NEW s \in Servers, CtxCancel(s) \/ ResolversExit(s)
    PROVE  Kept(s)
<1>1. /\ TypeOK /\ Local(s)
      /\ UNCHANGED <<pc, snap, ln, gor, entries, shut, closed, closeDone, draining, stream,
                     listenWG, result>>
  BY Zenon DEF Inv, CtxCancel, ResolversExit, flags
<1>2. /\ TypeOK' /\ Only(s)
      /\ resolving[s] \in {"none", "gone"} => resolving'[s] = resolving[s]
  BY Zenon, <1>1 DEF CtxCancel, ResolversExit, TypeOK, Only, Same
<1>3. Listening(s)'
  BY Zenon, <1>1, <1>2, ListeningSame DEF Local
<1>4. Done(s) /\ (Fresh(s) => Fresh(s)')
  BY Zenon, <1>1, <1>2 DEF Done, Fresh
<1> QED
  BY Zenon, <1>1, <1>2, <1>3, <1>4, WorldMoves DEF Kept

\* A client opens a watch, or its handler returns.
LEMMA StreamKeeps ==
    ASSUME Inv, NEW s \in Servers, Connect(s) \/ HandlerReturns(s)
    PROVE  Kept(s)
<1>1. /\ TypeOK /\ Local(s)
      /\ UNCHANGED <<pc, snap, ln, gor, entries, shut, closed, closeDone, draining, resolving,
                     listenWG, result>>
  BY Zenon DEF Inv, Connect, HandlerReturns, flags
<1>2. /\ TypeOK' /\ Only(s)
      /\ stream'[s] => \E l \in Listeners : gor[s][l] = "serving" /\ ln[s][l] = "open"
  BY Zenon, <1>1 DEF Connect, HandlerReturns, TypeOK, Only, Same
<1>3. Listening(s)'
  BY Zenon, <1>1, <1>2 DEF Local, Listening
<1>4. Done(s) /\ (Fresh(s) => Fresh(s)')
  BY Zenon, <1>1, <1>2 DEF Done, Fresh
<1> QED
  BY Zenon, <1>1, <1>2, <1>3, <1>4, WorldMoves DEF Kept

\* A listener goroutine accepts, or ends.
LEMMA ListenerKeeps ==
    ASSUME Inv, NEW s \in Servers, NEW l \in Listeners, ListenerGoroutine(s, l)
    PROVE  Kept(s)
<1>1. /\ TypeOK /\ Local(s)
      /\ UNCHANGED <<pc, snap, entries, shut, closed, closeDone, draining, stream, resolving, result>>
  BY Zenon DEF Inv, ListenerGoroutine, flags
<1>2. CASE /\ gor[s][l] = "ready" /\ l \notin shut[s]
           /\ gor' = [gor EXCEPT ![s][l] = "serving"] /\ UNCHANGED <<ln, listenWG>>
  <2>1. /\ TypeOK' /\ Only(s)
        /\ \A k \in Listeners : gor'[s][k] = IF k = l THEN "serving" ELSE gor[s][k]
    BY Zenon, <1>1, <1>2 DEF TypeOK, Only, Same
  <2>2. Counted(gor'[s]["unix"]) = Counted(gor[s]["unix"]) /\ Counted(gor'[s]["tcp"]) = Counted(gor[s]["tcp"])
    BY Zenon, <1>2, <2>1 DEF Counted, Listeners
  <2>3. l \in entries[s]
    BY Zenon, <1>1, <1>2 DEF Local, Listening
  <2>4. Listening(s)'
    <3>1. \A k \in Listeners : gor'[s][k] # "none" <=> gor[s][k] # "none"
      BY <1>2, <2>1
    <3>2. \A k \in Listeners : gor'[s][k] # "none" /\ (k \in shut[s] \/ ln[s][k] = "closed")
                               => draining[s]
      BY Zenon, <1>1, <3>1 DEF Local, Listening
    <3>3. listenWG'[s] = Counted(gor'[s]["unix"]) + Counted(gor'[s]["tcp"])
      BY Zenon, <1>1, <1>2, <2>2 DEF Local, Listening
    <3> QED
      BY Zenon, <1>1, <1>2, <3>1, <3>2, <3>3, ListeningKept DEF Local
  <2>5. Done(s) /\ (Fresh(s) => Fresh(s)')
    BY Zenon, <1>1, <1>2, <2>1, <2>3 DEF Done, Fresh
  <2> QED
    BY Zenon, <1>1, <2>1, <2>4, <2>5, WorldMoves DEF Kept
<1>3. CASE /\ \/ gor[s][l] = "ready" /\ l \in shut[s]
              \/ gor[s][l] = "serving" /\ ln[s][l] = "closed"
           /\ gor' = [gor EXCEPT ![s][l] = "done"]
           /\ ln' = [ln EXCEPT ![s][l] = "closed"]
           /\ listenWG' = [listenWG EXCEPT ![s] = @ - 1]
  <2>1. /\ gor' \in [Servers -> [Listeners -> {"none", "ready", "serving", "done"}]]
        /\ \A k \in Listeners : gor'[s][k] = IF k = l THEN "done" ELSE gor[s][k]
        /\ \A r \in Servers \ {s} : gor'[r] = gor[r]
    BY Zenon, <1>1, <1>3 DEF TypeOK
  <2>2. /\ ln' \in [Servers -> [Listeners -> {"none", "open", "closed"}]]
        /\ \A k \in Listeners : ln'[s][k] = IF k = l THEN "closed" ELSE ln[s][k]
        /\ \A r \in Servers \ {s} : ln'[r] = ln[r]
    BY Zenon, <1>1, <1>3 DEF TypeOK
  <2>3. /\ listenWG' \in [Servers -> Int] /\ listenWG'[s] = listenWG[s] - 1
        /\ \A r \in Servers \ {s} : listenWG'[r] = listenWG[r]
    BY <1>1, <1>3 DEF TypeOK
  <2>4. TypeOK' /\ Only(s)
    BY Zenon, <1>1, <2>1, <2>2, <2>3 DEF TypeOK, Only, Same
  <2>5. listenWG'[s] = Counted(gor'[s]["unix"]) + Counted(gor'[s]["tcp"])
    <3>1. listenWG[s] = Counted(gor[s]["unix"]) + Counted(gor[s]["tcp"])
      BY Zenon, <1>1 DEF Local, Listening
    <3> QED
      BY <1>3, <2>1, <2>3, <3>1 DEF Counted, Listeners
  <2>6. l \in entries[s] /\ draining[s] /\ gor[s][l] # "none" /\ ~Fresh(s)
    BY Zenon, <1>1, <1>3 DEF Local, Listening, Fresh
  <2>7. Listening(s)'
    <3>1. \A k \in Listeners : /\ gor'[s][k] # "none" <=> gor[s][k] # "none"
                               /\ ln'[s][k] # "none" <=> ln[s][k] # "none"
                               /\ ln'[s][k] = "open" => ln[s][k] = "open"
      BY Zenon, <1>1, <2>1, <2>2, <2>6 DEF Local, Listening
    <3> QED
      BY Zenon, <1>1, <2>5, <2>6, <3>1, ListeningKept DEF Local
  <2>8. Done(s)
    BY Zenon, <1>1, <1>3, <2>1, <2>2 DEF Done
  <2> QED
    BY Zenon, <1>1, <2>4, <2>6, <2>7, <2>8, WorldMoves DEF Kept
<1> QED
  BY Zenon, <1>2, <1>3 DEF ListenerGoroutine

-----------------------------------------------------------------------------
(* What a Close leaves behind *)

\* Initially nothing has been started.
LEMMA InitInv == Init => Inv
<1> SUFFICES ASSUME Init PROVE Inv
  OBVIOUS
<1>1. TypeOK
  <2>1. "idle" \in Places /\ "none" \in Results
    BY Zenon DEF Places, Results
  <2>2. Nothing \in [entries : SUBSET Listeners, mine : BOOLEAN]
    BY DEF Nothing
  <2>3. /\ pc \in [Servers -> [Threads -> Places]] /\ result \in [Servers -> Results]
        /\ snap \in [Servers -> [Threads -> [entries : SUBSET Listeners, mine : BOOLEAN]]]
    BY Zenon, <2>1, <2>2 DEF Init
  <2>4. /\ ln \in [Servers -> [Listeners -> {"none", "open", "closed"}]]
        /\ gor \in [Servers -> [Listeners -> {"none", "ready", "serving", "done"}]]
        /\ resolving \in [Servers -> {"none", "live", "done", "gone"}]
    BY Zenon DEF Init
  <2>5. /\ entries \in [Servers -> SUBSET Listeners] /\ shut \in [Servers -> SUBSET Listeners]
        /\ listenWG \in [Servers -> Int]
    BY DEF Init
  <2>6. /\ closed \in [Servers -> BOOLEAN] /\ closeDone \in [Servers -> BOOLEAN]
        /\ draining \in [Servers -> BOOLEAN] /\ stream \in [Servers -> BOOLEAN]
    BY Zenon DEF Init
  <2> QED
    BY Zenon, <2>3, <2>4, <2>5, <2>6 DEF TypeOK
<1>2. ASSUME NEW s \in Servers PROVE Local(s)
  <2>1. /\ closed[s] = FALSE /\ closeDone[s] = FALSE /\ draining[s] = FALSE /\ stream[s] = FALSE
        /\ entries[s] = {} /\ shut[s] = {} /\ listenWG[s] = 0
        /\ resolving[s] = "none" /\ result[s] = "none"
        /\ \A t \in Threads : pc[s][t] = "idle" /\ snap[s][t].entries = {}
        /\ \A l \in Listeners : ln[s][l] = "none" /\ gor[s][l] = "none"
    BY Zenon, <1>2 DEF Init, Nothing
  <2>2. pc[s]["serve"] = "idle" /\ pc[s]["watch"] = "idle" /\ \A t \in Closers : pc[s][t] = "idle"
    BY Zenon, <2>1, ThreadKinds
  <2>3. Closing(s)
    BY Zenon, <2>1, <2>2, ThreadKinds DEF Closing, Steps
  <2>4. Listening(s)
    <3>1. Counted(gor[s]["unix"]) = 0 /\ Counted(gor[s]["tcp"]) = 0
      BY Zenon, <2>1 DEF Counted, Listeners
    <3>2. listenWG[s] = Counted(gor[s]["unix"]) + Counted(gor[s]["tcp"])
      BY <2>1, <3>1
    <3> QED
      BY Zenon, <2>1, <2>2, <3>2 DEF Listening
  <2>5. Torn(s) /\ OwnTorn(s)
    BY Zenon, <2>1, <2>2 DEF Torn, OwnTorn, Reached, Read
  <2>6. Copied(s) /\ Intact(s)
    BY Zenon, <2>1 DEF Copied, Intact, Fresh
  <2> QED
    BY Zenon, <2>3, <2>4, <2>5, <2>6 DEF Local
<1> QED
  BY Zenon, <1>1, <1>2 DEF Inv

\* A later Close returns.
LEMMA CloseWaitKeeps ==
    ASSUME Inv, NEW s \in Servers, NEW t \in Threads, CloseWait(s, t)
    PROVE  Kept(s)
<1>1. /\ pc[s][t] = "wait" /\ closeDone[s] /\ Goto(s, t, "returned")
      /\ UNCHANGED <<snap, ln, gor, entries, shut, closed, closeDone, draining, stream,
                     resolving, listenWG, result>>
  BY Zenon DEF CloseWait, Finished, work, flags
<1>2. t \in Closers
  <2>1. pc[s]["serve"] # "wait"
    BY Zenon DEF Inv, Local, Listening
  <2> QED
    BY Zenon, <1>1, <2>1, ThreadKinds
<1> QED
  BY Zenon, <1>1, <1>2, LeavesKeeps

\* The context watcher stops.
LEMMA WatchStopsKeeps ==
    ASSUME Inv, NEW s \in Servers, WatchStops(s)
    PROVE  Kept(s)
<1>1. /\ pc[s]["watch"] = "armed" /\ Goto(s, "watch", "returned")
      /\ UNCHANGED <<snap, ln, gor, entries, shut, closed, closeDone, draining, stream,
                     resolving, listenWG, result>>
  BY Zenon DEF WatchStops, work, flags
<1> QED
  BY Zenon, <1>1, ThreadKinds, LeavesKeeps

\* Every step is one server's.
LEMMA StepKept ==
    ASSUME Inv, Next
    PROVE  \E s \in Servers : Kept(s)
<1>1. PICK s \in Servers :
         \/ ServeStep(s) \/ WatchStops(s) \/ CtxCancel(s) \/ ResolversExit(s)
         \/ Connect(s) \/ HandlerReturns(s)
         \/ \E l \in Listeners : ListenerGoroutine(s, l)
         \/ \E t \in Threads : CloseEnter(s, t) \/ CloseStep(s, t) \/ Teardown(s, t)
  BY Zenon DEF Next
<1>2. ServeStep(s) => Kept(s)
  BY Zenon, StartKeeps, BindUnlinkKeeps, BindListenKeeps, BindIdentifyKeeps, BindTCPKeeps,
     BeginListeningKeeps, ServeReturnsKeeps DEF ServeStep
<1>3. ASSUME NEW t \in Threads PROVE CloseEnter(s, t) \/ CloseStep(s, t) => Kept(s)
  BY Zenon, CloseEnterKeeps, CloseWaitKeeps, DrainKeeps DEF CloseStep
<1>4. ASSUME NEW t \in Threads PROVE Teardown(s, t) => Kept(s)
  BY Zenon, TdCancelKeeps, TdStatKeeps, TdRemoveKeeps, TdShutdownKeeps, TdQuiesceKeeps,
     TdCloseKeeps, TdJoinKeeps, TdResolversKeeps, TdSettleKeeps, TdReturnKeeps DEF Teardown
<1> QED
  BY Zenon, <1>1, <1>2, <1>3, <1>4, WatchStopsKeeps, ResolvingKeeps, StreamKeeps, ListenerKeeps

\* The invariant is inductive.
LEMMA NextInv == Inv /\ [Next]_vars => Inv'
<1> SUFFICES ASSUME Inv, [Next]_vars PROVE Inv'
  OBVIOUS
<1>1. CASE Next
  <2>1. PICK s \in Servers : Kept(s)
    BY Zenon, <1>1, StepKept
  <2>2. \A r \in Servers : Local(r)'
    BY Zenon, <2>1, SameLocal DEF Inv, Kept, Only
  <2> QED
    BY Zenon, <2>1, <2>2 DEF Inv, Kept
<1>2. CASE UNCHANGED vars
  <2>1. TypeOK' /\ \A r \in Servers : Same(r)
    BY Zenon, <1>2 DEF vars, work, flags, Inv, TypeOK, Same
  <2> QED
    BY Zenon, <2>1, SameLocal DEF Inv
<1> QED
  BY <1>1, <1>2

\* Every step leaves each server's fields, goroutines and listeners in one of the
\* states the code has for them.
THEOREM ServerTypes == Spec => []TypeOK
<1>1. Inv => TypeOK
  BY DEF Inv
<1> QED
  BY <1>1, InitInv, NextInv, PTL DEF Spec

\* For any number of Close calls: each that returned leaves no listener, goroutine,
\* handler or watch once Serve is out of its setup, and no listener that served closes
\* before readyz answers draining (Close, teardown).
THEOREM ClosedIsClosed == Spec => []CloseMeansClosed
<1>1. Inv => CloseMeansClosed
  <2> SUFFICES ASSUME Inv, NEW s \in Servers
               PROVE  /\ /\ \E t \in Callers : pc[s][t] = "returned"
                         /\ pc[s]["serve"] \in {"idle", "run", "returned"}
                         /\ result[s] # "bindAfterClose"
                         => Quiet(s)
                      /\ \A l \in Listeners :
                            gor[s][l] # "none" /\ ln[s][l] = "closed" => draining[s]
    BY Zenon DEF CloseMeansClosed
  <2>1. Local(s) /\ result[s] \in Results
    BY DEF Inv, TypeOK
  <2>2. ASSUME NEW t \in Callers, pc[s][t] = "returned",
               pc[s]["serve"] \in {"idle", "run", "returned"}, result[s] # "bindAfterClose"
        PROVE  Quiet(s)
    <3>1. closeDone[s]
      BY Zenon, <2>1, <2>2 DEF Local, Closing
    <3>2. CASE Early(s)
      BY Zenon, <2>1, <3>1, <3>2 DEF Local, Torn
    <3>3. CASE ~Early(s)
      <4>1. pc[s]["serve"] = "returned" /\ result[s] = "errClosed"
        BY Zenon, <2>1, <2>2, <3>3 DEF Early, Results, Local, Listening
      <4> QED
        BY Zenon, <2>1, <4>1 DEF Local, Listening, Quiet
    <3> QED
      BY <3>2, <3>3
  <2>3. \A l \in Listeners : gor[s][l] # "none" /\ ln[s][l] = "closed" => draining[s]
    BY Zenon, <2>1 DEF Local, Listening
  <2> QED
    BY Zenon, <2>2, <2>3
<1> QED
  BY <1>1, InitInv, NextInv, PTL DEF Spec

\* The count grows only where beginListening found the server open.
LEMMA AddsWhenOpen ==
    ASSUME Inv, Next, NEW s \in Servers, listenWG'[s] > listenWG[s]
    PROVE  ~closed[s] /\ pc[s]["serve"] = "begin"
<1>0. listenWG \in [Servers -> Int]
  BY Zenon DEF Inv, TypeOK
<1>1. PICK r \in Servers :
         \/ ServeStep(r) \/ WatchStops(r) \/ CtxCancel(r) \/ ResolversExit(r)
         \/ Connect(r) \/ HandlerReturns(r)
         \/ \E l \in Listeners : ListenerGoroutine(r, l)
         \/ \E t \in Threads : CloseEnter(r, t) \/ CloseStep(r, t) \/ Teardown(r, t)
  BY Zenon DEF Next
<1>2. listenWG' # listenWG
  BY <1>0
<1>3. ~\E l \in Listeners : ListenerGoroutine(r, l)
  <2> SUFFICES ASSUME NEW l \in Listeners, ListenerGoroutine(r, l) PROVE FALSE
    OBVIOUS
  <2>1. listenWG' = [listenWG EXCEPT ![r] = @ - 1]
    BY Zenon, <1>2 DEF ListenerGoroutine
  <2> QED
    BY <1>0, <2>1
<1>4. ASSUME NEW t \in Threads PROVE ~(CloseEnter(r, t) \/ CloseStep(r, t) \/ Teardown(r, t))
  <2>1. ~(CloseEnter(r, t) \/ CloseStep(r, t))
    BY Zenon, <1>2 DEF CloseEnter, CloseStep, CloseWait, Drain, work
  <2>2. ~Teardown(r, t)
    BY Zenon, <1>2 DEF Teardown, TdCancel, TdStat, TdRemove, TdShutdown, TdQuiesce, TdClose,
                       TdJoin, TdResolvers, TdSettle, TdReturn, work
  <2> QED
    BY Zenon, <2>1, <2>2
<1>5. ServeStep(r)
  BY Zenon, <1>1, <1>2, <1>3, <1>4
    DEF WatchStops, CtxCancel, ResolversExit, Connect, HandlerReturns, work
<1>6. BeginListening(r)
  BY Zenon, <1>2, <1>5
    DEF ServeStep, Start, BindUnlink, BindListen, BindIdentify, BindTCP, ServeReturns, work
<1>7. ~closed[r] /\ listenWG' = [listenWG EXCEPT ![r] = @ + Count(r)]
  BY Zenon, <1>2, <1>6 DEF BeginListening, MayListen
<1>8. r = s
  BY <1>0, <1>7
<1> QED
  BY Zenon, <1>6, <1>7, <1>8 DEF BeginListening

\* For any number of Close calls: no listener goroutine is counted while a teardown
\* waits for the count (beginListening and closeTransports share listenWG).
THEOREM NoAddUnderWait == Spec => NoAddDuringWait
<1> DEFINE A == \A s \in Servers : listenWG'[s] > listenWG[s] =>
                    \A t \in Threads : pc[s][t] # "join"
<1>1. ASSUME Inv, Next PROVE A
  <2> SUFFICES ASSUME NEW s \in Servers, listenWG'[s] > listenWG[s], NEW t \in Threads
               PROVE  pc[s][t] # "join"
    OBVIOUS
  <2>1. ~closed[s] /\ pc[s]["serve"] = "begin"
    BY Zenon, <1>1, AddsWhenOpen
  <2>2. t \in Closers => pc[s][t] \notin Steps
    BY Zenon, <1>1, <2>1 DEF Inv, Local, Closing
  <2> QED
    BY Zenon, <2>1, <2>2, ThreadKinds DEF Steps
<1>2. Inv /\ [Next]_vars => [A]_vars
  BY Zenon, <1>1
<1> QED
  BY <1>2, InitInv, NextInv, PTL DEF Spec, NoAddDuringWait

-----------------------------------------------------------------------------
(* Whose socket is at the path *)

\* A step of server s that touches neither the path nor what it says of it.
CalmAt(s) ==
    /\ pc'[s]["serve"] \in {"listen", "identify"} => pc'[s]["serve"] = pc[s]["serve"]
    /\ ln'[s]["unix"] = "open" => ln[s]["unix"] = "open"
    /\ "unix" \in entries'[s] => "unix" \in entries[s]
    /\ closed[s] => closed'[s]
    /\ Again(s) => Again(s)'
    /\ \A t \in Threads : pc'[s][t] = "remove" =>
          pc[s][t] = "remove" /\ snap'[s][t].mine = snap[s][t].mine

\* What a calm step does not change.
LEMMA CalmHeld ==
    ASSUME PathInv, NEW s \in Servers, Only(s), CalmAt(s), UNCHANGED files
    PROVE  PathInv'
<1>1. UNCHANGED <<path, holder, own, ident>>
  BY Zenon DEF files
<1>2. \A r \in Servers : CalmAt(r)
  <2>1. ASSUME NEW r \in Servers \ {s} PROVE CalmAt(r)
    <3>1. Same(r)
      BY Zenon DEF Only
    <3> QED
      BY Zenon, <3>1 DEF Same, CalmAt, Again
  <2> QED
    BY Zenon, <2>1
<1>3. ASSUME NEW r \in Servers PROVE Held(r)'
  <2>1. Held(r) /\ CalmAt(r)
    BY Zenon, <1>2 DEF PathInv
  <2>2. Spared(r) => Spared(r)'
    BY Zenon, <1>2 DEF Spared, CalmAt
  <2>3. \A q \in Servers : /\ ~Again(q)' => ~Again(q)
                           /\ ln'[q]["unix"] = "open" => ln[q]["unix"] = "open"
    BY Zenon, <1>2 DEF CalmAt
  <2>4. pc'[r]["serve"] \in {"listen", "identify"} =>
           /\ pc'[r]["serve"] = pc[r]["serve"]
           /\ \A q \in Servers \ {r} : pc'[q]["serve"] \notin {"listen", "identify"}
    BY Zenon, <1>2, <2>1 DEF CalmAt, Held
  <2> QED
    BY Zenon, <1>1, <2>1, <2>2, <2>3, <2>4 DEF Held, CalmAt
<1> QED
  BY Zenon, <1>1, <1>3 DEF PathInv

\* A step of Serve that is not about the socket.
LEMMA ServeCalm ==
    ASSUME Inv, NEW s \in Servers,
           \/ Start(s) \/ BindTCP(s) \/ BeginListening(s) \/ ServeReturns(s)
           \/ BindListen(s) /\ UNCHANGED <<path, own, ln>> /\ BindError(s)
    PROVE  CalmAt(s) /\ UNCHANGED files
<1>1. TypeOK /\ Local(s) /\ "serve" \in Threads /\ "watch" \in Threads
  BY Zenon, ThreadKinds DEF Inv
<1>2. UNCHANGED files /\ closed' = closed /\ snap' = snap
  BY Zenon DEF Start, BindTCP, BeginListening, ServeReturns, BindListen, flags, files
<1>3. ~Again(s)
  BY Zenon, <1>1 DEF Start, BindTCP, BeginListening, ServeReturns, BindListen, Local, Listening, Again, Steps
<1>4. /\ ln'[s]["unix"] = ln[s]["unix"] /\ ("unix" \in entries'[s] => "unix" \in entries[s])
  <2>1. BindTCP(s) \/ UNCHANGED <<ln, entries>>
    BY Zenon DEF Start, BeginListening, ServeReturns, BindListen, work
  <2>2. ASSUME BindTCP(s) PROVE ln'[s]["unix"] = ln[s]["unix"] /\ ("unix" \in entries'[s] => "unix" \in entries[s])
    <3>1. /\ ln \in [Servers -> [Listeners -> {"none", "open", "closed"}]]
          /\ entries \in [Servers -> SUBSET Listeners]
      BY Zenon, <1>1 DEF TypeOK
    <3>2. /\ ln' = ln \/ ln' = [ln EXCEPT ![s]["tcp"] = "open"]
          /\ entries' = entries \/ entries' = [entries EXCEPT ![s] = @ \cup {"tcp"}]
      BY Zenon, <2>2 DEF BindTCP
    <3> QED
      BY <3>1, <3>2 DEF Listeners
  <2> QED
    BY Zenon, <2>1, <2>2
<1>5. \E q \in {"returned", "unlink", "begin", "cancel"} : Goto(s, "serve", q)
      \/ pc' = [pc EXCEPT ![s]["serve"] = "run", ![s]["watch"] = "armed"]
  BY Zenon DEF Start, BindTCP, BeginListening, ServeReturns, BindListen, BindError
<1>6. /\ pc'[s]["serve"] \notin {"listen", "identify"}
      /\ \A t \in Threads : pc'[s][t] = "remove" => pc[s][t] = "remove"
  BY <1>1, <1>5 DEF Goto, TypeOK
<1> QED
  BY Zenon, <1>2, <1>3, <1>4, <1>6 DEF CalmAt

\* A step of a Close outside of its teardown.
LEMMA CloseCalm ==
    ASSUME Inv, NEW s \in Servers, NEW t \in Threads,
           CloseEnter(s, t) \/ CloseStep(s, t) \/ (t = "watch" /\ WatchStops(s))
    PROVE  CalmAt(s) /\ UNCHANGED files
<1>1. TypeOK /\ Local(s)
  BY Zenon DEF Inv
<1>2. UNCHANGED <<files, ln, entries, snap, result>>
  BY Zenon DEF CloseEnter, CloseStep, CloseWait, Drain, WatchStops, work
<1>3. closed[s] => closed'[s]
  BY Zenon, <1>1 DEF CloseEnter, CloseStep, CloseWait, Drain, WatchStops, flags, TypeOK
<1>4. t # "serve"
  <2>1. pc[s]["serve"] \notin {"wait", "drain"}
    BY Zenon, <1>1 DEF Local, Listening
  <2> QED
    BY Zenon, <2>1, ThreadKinds DEF CloseEnter, CloseStep, CloseWait, Drain
<1>5. \E q \in {"wait", "drain", "returned", "cancel"} : Goto(s, t, q)
  BY Zenon DEF CloseEnter, CloseStep, CloseWait, Drain, WatchStops
<1>6. /\ pc'[s]["serve"] = pc[s]["serve"]
      /\ \A u \in Threads : pc'[s][u] = "remove" => pc[s][u] = "remove"
  BY <1>1, <1>4, <1>5, ThreadKinds DEF Goto, TypeOK
<1>7. Again(s) => Again(s)'
  BY Zenon, <1>2, <1>6 DEF Again
<1> QED
  BY Zenon, <1>2, <1>3, <1>6, <1>7 DEF CalmAt

\* A step of a teardown after or before those about the path.
LEMMA TearCalm ==
    ASSUME Inv, NEW s \in Servers, NEW t \in Threads,
           \/ TdCancel(s, t) \/ TdShutdown(s, t) \/ TdQuiesce(s, t) \/ TdClose(s, t)
           \/ TdJoin(s, t) \/ TdResolvers(s, t) \/ TdSettle(s, t) \/ TdReturn(s, t)
    PROVE  CalmAt(s) /\ UNCHANGED files
<1>1. TypeOK /\ Local(s)
  BY Zenon DEF Inv
<1>2. UNCHANGED <<files, entries, closed>>
  BY Zenon DEF TdCancel, TdShutdown, TdQuiesce, TdClose, TdJoin, TdResolvers, TdSettle,
               TdReturn, work, flags
<1>3. ln'[s]["unix"] = "open" => ln[s]["unix"] = "open"
  <2>1. TdShutdown(s, t) \/ TdClose(s, t) \/ ln' = ln
    BY Zenon DEF TdCancel, TdQuiesce, TdJoin, TdResolvers, TdSettle, TdReturn, work
  <2> QED
    <3>1. "unix" \in Listeners
      BY Zenon DEF Listeners
    <3>2. ASSUME TdShutdown(s, t) PROVE \A l \in Listeners : ln'[s][l] = "open" => ln[s][l] = "open"
      <4>1. \A l \in Listeners :
               ln'[s][l] = IF l \in snap[s][t].entries /\ gor[s][l] = "serving"
                           THEN "closed" ELSE ln[s][l]
        BY Zenon, <1>1, <3>2 DEF TdShutdown, TypeOK
      <4> QED
        BY Zenon, <4>1
    <3>3. ASSUME TdClose(s, t) PROVE \A l \in Listeners : ln'[s][l] = "open" => ln[s][l] = "open"
      <4>1. \A l \in Listeners :
               ln'[s][l] = IF l \in snap[s][t].entries THEN "closed" ELSE ln[s][l]
        BY Zenon, <1>1, <3>3 DEF TdClose, TypeOK
      <4> QED
        BY Zenon, <4>1
    <3> QED
      BY Zenon, <2>1, <3>1, <3>2, <3>3
<1>4. PICK q \in Steps \cup {"returned"} :
         Goto(s, t, q) /\ q # "remove" /\ (q \in Steps \/ TdReturn(s, t))
  BY Zenon, AfterIs DEF TdCancel, TdShutdown, TdQuiesce, TdClose, TdJoin, TdResolvers, TdSettle,
                 TdReturn, Steps
<1>5. Goes(s, t, q)
  <2>1. q \in Places
    BY DEF Places
  <2> QED
    BY Zenon, <1>1, <1>4, <2>1, GotoGoes
<1>6. pc[s][t] \in Steps
  BY Zenon DEF TdCancel, TdShutdown, TdQuiesce, TdClose, TdJoin, TdResolvers, TdSettle, TdReturn, Steps
<1>7. \A u \in Threads : pc'[s][u] = "remove" =>
          pc[s][u] = "remove" /\ snap'[s][u].mine = snap[s][u].mine
  <2>1. \A u \in Threads \ {t} : snap'[s][u] = snap[s][u]
    <3>1. TdCancel(s, t) \/ snap' = snap
      BY Zenon DEF TdShutdown, TdQuiesce, TdClose, TdJoin, TdResolvers, TdSettle, TdReturn
    <3>2. ASSUME TdCancel(s, t) PROVE \A u \in Threads \ {t} : snap'[s][u] = snap[s][u]
      BY Zenon, <1>1, <3>2 DEF TdCancel, TypeOK
    <3> QED
      BY Zenon, <3>1, <3>2
  <2>2. pc'[s][t] # "remove" /\ \A u \in Threads \ {t} : pc'[s][u] = pc[s][u]
    BY Zenon, <1>4, <1>5 DEF Goes
  <2> QED
    BY Zenon, <2>1, <2>2
<1>8. Again(s) => Again(s)'
  <2>1. CASE t = "serve"
    <3>1. q \in Steps \/ result'[s] = "errClosed"
      BY Zenon, <1>1, <1>4, <2>1 DEF TdReturn, TypeOK
    <3> QED
      BY Zenon, <1>5, <2>1, <3>1 DEF Again, Goes
  <2>2. CASE t # "serve"
    <3>1. result' = result
      BY Zenon, <2>2 DEF TdCancel, TdShutdown, TdQuiesce, TdClose, TdJoin, TdResolvers, TdSettle,
                         TdReturn
    <3> QED
      BY Zenon, <1>5, <2>2, <3>1, ThreadKinds DEF Again, Goes
  <2> QED
    BY <2>1, <2>2
<1>9. pc'[s]["serve"] \in {"listen", "identify"} => pc'[s]["serve"] = pc[s]["serve"]
  BY Zenon, <1>4, <1>5, ThreadKinds DEF Goes, Steps
<1> QED
  BY Zenon, <1>2, <1>3, <1>7, <1>8, <1>9 DEF CalmAt

\* A step of the world, of a handler or of a listener goroutine.
LEMMA WorldCalm ==
    ASSUME Inv, NEW s \in Servers,
           \/ CtxCancel(s) \/ ResolversExit(s) \/ Connect(s) \/ HandlerReturns(s)
           \/ \E l \in Listeners : ListenerGoroutine(s, l)
    PROVE  CalmAt(s) /\ UNCHANGED files
<1>1. UNCHANGED <<files, pc, snap, entries, closed, result>>
  BY Zenon DEF CtxCancel, ResolversExit, Connect, HandlerReturns, ListenerGoroutine, flags
<1>2. ln'[s]["unix"] = "open" => ln[s]["unix"] = "open"
  <2>1. (\E l \in Listeners : ListenerGoroutine(s, l)) \/ ln' = ln
    BY Zenon DEF CtxCancel, ResolversExit, Connect, HandlerReturns
  <2>2. ASSUME NEW l \in Listeners, ln' = [ln EXCEPT ![s][l] = "closed"]
        PROVE  ln'[s]["unix"] = "open" => ln[s]["unix"] = "open"
    <3>1. "unix" \in Listeners /\ ln \in [Servers -> [Listeners -> {"none", "open", "closed"}]]
      BY Zenon DEF Inv, Listeners, TypeOK
    <3> QED
      BY <2>2, <3>1
  <2> QED
    BY Zenon, <2>1, <2>2 DEF ListenerGoroutine
<1> QED
  BY Zenon, <1>1, <1>2 DEF CalmAt, Again

\* A server clears the path while nobody else is between its own steps on it.
LEMMA UnlinkHeld ==
    ASSUME ~PathRace, Inv, PathInv, NEW s \in Servers, Only(s), BindUnlink(s)
    PROVE  PathInv'
<1>1. /\ PathQuiet(s) /\ path' = 0 /\ holder' = s
      /\ UNCHANGED <<own, ident, ln, entries, closed, snap, result>>
  BY Zenon DEF BindUnlink, work, flags
<1>2. TypeOK /\ Local(s) /\ pc[s]["serve"] = "unlink" /\ pc'[s]["serve"] = "listen"
  <2>1. /\ TypeOK /\ Local(s) /\ pc[s]["serve"] = "unlink" /\ Goto(s, "serve", "listen")
        /\ "serve" \in Threads
    BY Zenon, ThreadKinds DEF Inv, BindUnlink
  <2> QED
    BY Zenon, <2>1 DEF Goto, TypeOK
<1>3. \A r \in Servers \ {s} : /\ pc'[r] = pc[r] /\ pc[r]["serve"] \notin {"listen", "identify"}
                               /\ \A t \in Threads : pc[r][t] # "remove"
  BY Zenon, <1>1 DEF PathQuiet, Only, Same
<1>4. ln[s]["unix"] = "none"
  BY Zenon, <1>2 DEF Local, Listening, Listeners
<1>5. Held(s)'
  <2>1. Spared(s)'
    BY Zenon, <1>3 DEF Spared
  <2>2. Held(s)
    BY Zenon DEF PathInv
  <2> QED
    BY Zenon, <1>1, <1>2, <1>3, <1>4, <2>1, <2>2 DEF Held
<1>6. ASSUME NEW r \in Servers \ {s} PROVE Held(r)'
  <2>1. Held(r)
    BY Zenon DEF PathInv
  <2> QED
    BY Zenon, <1>1, <1>3, <2>1 DEF Held
<1> QED
  BY Zenon, <1>1, <1>5, <1>6 DEF PathInv

\* A server binds the path with an inode that no open listener has.
LEMMA ListenHeld ==
    ASSUME Inv, PathInv, NEW s \in Servers, Only(s), BindListen(s),
           ~(UNCHANGED <<path, own, ln>> /\ BindError(s))
    PROVE  PathInv'
<1>1. PICK i \in Inodes \ LiveInodes : path' = i /\ own' = [own EXCEPT ![s] = i]
  BY Zenon DEF BindListen
<1>2. /\ ln' = [ln EXCEPT ![s]["unix"] = "open"] /\ Goto(s, "serve", "identify")
      /\ UNCHANGED <<holder, ident, entries, closed, snap, result>> /\ pc[s]["serve"] = "listen"
  BY Zenon DEF BindListen, flags
<1>3. /\ TypeOK /\ Local(s) /\ Held(s) /\ "serve" \in Threads
      /\ \A r \in Servers \ {s} : Same(r)
  BY Zenon, ThreadKinds DEF Inv, PathInv, Only
<1>4. /\ holder = s /\ path = 0 /\ Spared(s) /\ entries[s] = {}
      /\ \A r \in Servers \ {s} : pc[r]["serve"] \notin {"listen", "identify"}
  BY Zenon, <1>2, <1>3 DEF Held, Local, Listening
<1>5. /\ own'[s] = i /\ i # 0 /\ DOMAIN own' = Servers
      /\ \A r \in Servers \ {s} : own'[r] = own[r]
  BY <1>1, ServerAssumption DEF PathInv
<1>6. \A r \in Servers \ {s} : ln[r]["unix"] = "open" => own[r] # i
  BY Zenon, <1>1 DEF LiveInodes
<1>7. pc'[s]["serve"] = "identify"
  BY Zenon, <1>2, <1>3 DEF Goto, TypeOK
<1>8. Spared(s)'
  BY Zenon, <1>3, <1>4 DEF Spared, Same
<1>9. Held(s)'
  <2>1. \A r \in Servers \ {s} : /\ pc'[r]["serve"] \notin {"listen", "identify"}
                                 /\ ln'[r]["unix"] = "open" => own'[r] # own'[s]
    BY Zenon, <1>3, <1>4, <1>5, <1>6 DEF Same
  <2>2. path' = i /\ holder' = s /\ own'[s] = i /\ i # 0 /\ "unix" \notin entries'[s]
    BY Zenon, <1>1, <1>2, <1>4, <1>5
  <2> QED
    BY Zenon, <1>7, <1>8, <2>1, <2>2 DEF Held
<1>10. ASSUME NEW r \in Servers \ {s} PROVE Held(r)'
  <2>1. Held(r) /\ pc'[r] = pc[r] /\ ln'[r] = ln[r]
    BY Zenon, <1>3 DEF PathInv, Same
  <2>2. \A q \in Servers \ {r, s} : ln'[q] = ln[q]
    BY Zenon, <1>3 DEF Same
  <2>3. ln'[r]["unix"] = "open" => /\ own'[r] # 0
                                   /\ \A q \in Servers \ {r} : ln'[q]["unix"] = "open" => own'[q] # own'[r]
    <3>1. ln[r]["unix"] = "open" => /\ own[r] # 0 /\ own[r] # i
                                    /\ \A q \in Servers \ {r} : ln[q]["unix"] = "open" => own[q] # own[r]
      BY Zenon, <1>6, <2>1 DEF Held
    <3> QED
      BY Zenon, <1>5, <2>1, <2>2, <3>1
  <2> QED
    BY Zenon, <1>2, <1>4, <1>5, <2>1, <2>3 DEF Held
<1>11. DOMAIN ident' = Servers
  BY Zenon, <1>2 DEF PathInv
<1> QED
  BY Zenon, <1>5, <1>9, <1>10, <1>11 DEF PathInv

\* A server records the file it finds: its own, or none if another removed it.
LEMMA IdentifyHeld ==
    ASSUME Inv, PathInv, NEW s \in Servers, Only(s), BindIdentify(s)
    PROVE  PathInv'
<1>1. /\ ident' = [ident EXCEPT ![s] = path] /\ pc[s]["serve"] = "identify"
      /\ UNCHANGED <<path, holder, own, ln, closed, snap, result>>
  BY Zenon DEF BindIdentify, flags
<1>2. TypeOK /\ Held(s) /\ "serve" \in Threads /\ \A r \in Servers \ {s} : Same(r)
  BY Zenon, ThreadKinds DEF Inv, PathInv, Only
<1>3. /\ ident'[s] \in {0, own[s]} /\ DOMAIN ident' = Servers
      /\ \A r \in Servers \ {s} : ident'[r] = ident[r]
  BY Zenon, <1>1, <1>2 DEF PathInv, Held
<1>4. pc'[s]["serve"] \in {"tcp", "begin"} /\ Again(s)' = Again(s)
  <2>1. pc'[s]["serve"] \in {"tcp", "begin"}
    BY Zenon, <1>2 DEF BindIdentify, Goto, TypeOK
  <2> QED
    BY Zenon, <1>1, <2>1 DEF Again, Steps
<1>5. \A r \in Servers : Again(r)' = Again(r)
  BY Zenon, <1>2, <1>4 DEF Same, Again
<1>6. Spared(s)' = Spared(s)
  BY Zenon, <1>2 DEF Spared, Same
<1>7. Held(s)'
  <2> QED
    BY Zenon, <1>1, <1>2, <1>3, <1>4, <1>5, <1>6 DEF Held
<1>8. ASSUME NEW r \in Servers \ {s} PROVE Held(r)'
  <2>1. Held(r) /\ pc'[r] = pc[r] /\ entries'[r] = entries[r]
    BY Zenon, <1>2 DEF PathInv, Same
  <2>2. pc[r]["serve"] \notin {"listen", "identify"}
    BY Zenon, <1>1, <1>2 DEF Held
  <2>3. Spared(r) => Spared(r)'
    <3>1. \A t \in Threads : pc'[s][t] = "remove" => pc[s][t] = "remove"
      BY Zenon, <1>2 DEF BindIdentify, Goto, TypeOK
    <3>2. \A q \in Servers \ {s} : pc'[q] = pc[q]
      BY Zenon, <1>2 DEF Same
    <3> QED
      BY Zenon, <1>1, <3>1, <3>2 DEF Spared
  <2> QED
    BY Zenon, <1>1, <1>3, <1>5, <2>1, <2>2, <2>3 DEF Held
<1>9. DOMAIN own' = Servers
  BY Zenon, <1>1 DEF PathInv
<1> QED
  BY Zenon, <1>3, <1>7, <1>8, <1>9 DEF PathInv

\* A goroutine in a teardown has closed its server.
LEMMA TearingIsClosed ==
    ASSUME Inv, NEW s \in Servers, NEW t \in Threads, pc[s][t] \in Steps
    PROVE  closed[s]
BY Zenon, ThreadKinds DEF Inv, Local, Closing

\* Before the shutdown step the socket of a Close is still open, so that nobody else
\* has its inode: what it finds at the path is not another server's.
LEMMA NotAnothers ==
    ASSUME Inv, PathInv, NEW s \in Servers, NEW t \in Closers, pc[s][t] = "stat", ~Again(s),
           NEW r \in Servers \ {s}, ln[r]["unix"] = "open", path = own[r],
           "unix" \in snap[s][t].entries, ident[s] # 0, path = ident[s]
    PROVE  FALSE
<1>1. Local(s) /\ Held(s) /\ Held(r) /\ t \in Threads /\ "unix" \in Listeners
  BY Zenon, ThreadKinds DEF Inv, PathInv, Listeners
<1>2. "unix" \in entries[s]
  BY Zenon, <1>1 DEF Local, Copied
<1>3. own[s] = own[r]
  BY Zenon, <1>1, <1>2 DEF Held
<1>4. ln[s]["unix"] # "closed" /\ ln[s]["unix"] # "none"
  <2>1. Fresh(s)
    BY Zenon, <1>1 DEF Local, Intact, Opening
  <2> QED
    BY Zenon, <1>1, <1>2, <2>1 DEF Fresh, Local, Listening
<1>5. ln[s]["unix"] = "open"
  BY Zenon, <1>1, <1>4 DEF Inv, TypeOK
<1> QED
  BY Zenon, <1>1, <1>3, <1>5 DEF Held

\* A teardown reads the identity of the file at the path.
LEMMA StatHeld ==
    ASSUME Inv, PathInv, NEW s \in Servers, Only(s), NEW t \in Threads, TdStat(s, t)
    PROVE  PathInv'
<1>1. /\ pc[s][t] = "stat"
      /\ UNCHANGED <<path, holder, own, ident, ln, entries, closed, result>>
  BY Zenon DEF TdStat, files, work, flags
<1>2. TypeOK /\ \A r \in Servers \ {s} : Same(r)
  BY Zenon DEF Inv, Only
<1>3. Goes(s, t, "remove")
  BY <1>2, AfterIs, GotoGoes DEF TdStat, Places, Steps
<1>4. closed[s]
  BY Zenon, <1>1, TearingIsClosed DEF Steps
<1>5. /\ snap'[s][t].mine <=> "unix" \in snap[s][t].entries /\ ident[s] # 0 /\ path = ident[s]
      /\ \A u \in Threads \ {t} : snap'[s][u] = snap[s][u]
  <2> DEFINE m == "unix" \in snap[s][t].entries /\ ident[s] # 0 /\ path = ident[s]
             x == [snap[s][t] EXCEPT !.mine = m]
  <2>1. snap[s][t] \in [entries : SUBSET Listeners, mine : BOOLEAN]
    <3>1. snap[s] \in [Threads -> [entries : SUBSET Listeners, mine : BOOLEAN]]
      BY Zenon, <1>2 DEF TypeOK
    <3> QED
      BY Zenon, <3>1
  <2>2. x.mine = m
    BY <2>1
  <2>3. snap' = [snap EXCEPT ![s][t] = x]
    BY DEF TdStat
  <2> HIDE DEF x
  <2> QED
    BY Zenon, <1>2, <2>2, <2>3 DEF TypeOK
<1>6. \A r \in Servers : Again(r)' = Again(r)
  <2>1. Again(s)' = Again(s)
    <3>1. pc'[s]["serve"] = pc[s]["serve"] \/ (pc'[s]["serve"] \in Steps /\ pc[s]["serve"] \in Steps)
      BY Zenon, <1>1, <1>3, ThreadKinds DEF Goes, Steps
    <3> QED
      BY Zenon, <1>1, <3>1 DEF Again
  <2> QED
    BY Zenon, <1>2, <2>1 DEF Same, Again
<1>7. pc'[s]["serve"] \in {"listen", "identify"} => pc'[s]["serve"] = pc[s]["serve"]
  BY Zenon, <1>3, ThreadKinds DEF Goes
<1>8. Held(s)'
  <2>1. Held(s)
    BY Zenon DEF PathInv
  <2>2. Spared(s) => Spared(s)'
    BY Zenon, <1>2 DEF Spared, Same
  <2>3. \A r \in Servers \ {s} : pc'[r] = pc[r]
    BY Zenon, <1>2 DEF Same
  <2> QED
    BY Zenon, <1>1, <1>4, <1>7, <2>1, <2>2, <2>3 DEF Held
<1>9. ASSUME NEW r \in Servers \ {s} PROVE Held(r)'
  <2>1. Held(r) /\ pc'[r] = pc[r]
    BY Zenon, <1>2 DEF PathInv, Same
  <2>2. Spared(r) /\ ~snap'[s][t].mine => Spared(r)'
    <3>1. \A q \in Servers \ {s} : pc'[q] = pc[q] /\ snap'[q] = snap[q]
      BY Zenon, <1>2 DEF Same
    <3>2. \A u \in Threads \ {t} : pc'[s][u] = pc[s][u]
      BY Zenon, <1>3 DEF Goes
    <3> QED
      <4>1. ASSUME Spared(r), ~snap'[s][t].mine, NEW q \in Servers \ {r}, NEW u \in Threads
            PROVE  pc'[q][u] = "remove" => ~snap'[q][u].mine
        <5>1. CASE q # s
          BY Zenon, <3>1, <4>1, <5>1 DEF Spared
        <5>2. CASE q = s
          BY Zenon, <1>5, <3>2, <4>1, <5>2 DEF Spared
        <5> QED
          BY Zenon, <5>1, <5>2
      <4> QED
        BY Zenon, <4>1 DEF Spared
  <2>3. path = 0 => ~snap'[s][t].mine
    BY Zenon, <1>5
  <2>4. ~Again(s) /\ ln[r]["unix"] = "open" /\ path = own[r] => ~snap'[s][t].mine
    <3>1. ~Again(s) => t \in Closers
      BY Zenon, <1>1, ThreadKinds DEF Again, Steps
    <3> QED
      BY Zenon, <1>1, <1>5, <3>1, NotAnothers
  <2>5. \A q \in Servers \ {r} : pc'[q]["serve"] \in {"listen", "identify"} =>
                                     pc[q]["serve"] \in {"listen", "identify"}
    BY Zenon, <1>2, <1>7 DEF Same
  <2> QED
    BY Zenon, <1>1, <1>6, <2>1, <2>2, <2>3, <2>4, <2>5 DEF Held
<1> QED
  BY Zenon, <1>1, <1>8, <1>9 DEF PathInv

\* A teardown unlinks the path, when it is its own.
LEMMA RemoveHeld ==
    ASSUME Inv, PathInv, NEW s \in Servers, Only(s), NEW t \in Threads, TdRemove(s, t)
    PROVE  PathInv'
<1>1. /\ pc[s][t] = "remove" /\ path' = IF snap[s][t].mine THEN 0 ELSE path
      /\ UNCHANGED <<holder, own, ident, ln, entries, closed, result, snap>>
  BY Zenon DEF TdRemove, work, flags
<1>2. TypeOK /\ \A r \in Servers \ {s} : Same(r)
  BY Zenon DEF Inv, Only
<1>3. Goes(s, t, "shutdown")
  BY Zenon, <1>2, AfterIs, GotoGoes DEF TdRemove, Places, Steps
<1>4. closed[s]
  BY Zenon, <1>1, TearingIsClosed DEF Steps
<1>5. \A r \in Servers : Again(r)' = Again(r)
  <2>1. Again(s)' = Again(s)
    <3>1. pc'[s]["serve"] = pc[s]["serve"] \/ (pc'[s]["serve"] \in Steps /\ pc[s]["serve"] \in Steps)
      BY Zenon, <1>1, <1>3, ThreadKinds DEF Goes, Steps
    <3> QED
      BY Zenon, <1>1, <3>1 DEF Again
  <2> QED
    BY Zenon, <1>2, <2>1 DEF Same, Again
<1>6. pc'[s]["serve"] \in {"listen", "identify"} => pc'[s]["serve"] = pc[s]["serve"]
  BY Zenon, <1>3, ThreadKinds DEF Goes
<1>7. ASSUME NEW r \in Servers PROVE Spared(r) => Spared(r)'
  <2>1. \A q \in Servers, u \in Threads : pc'[q][u] = "remove" => pc[q][u] = "remove"
    BY Zenon, <1>2, <1>3 DEF Same, Goes
  <2> QED
    BY Zenon, <1>1, <2>1 DEF Spared
<1>8. Held(s)'
  <2>1. Held(s) /\ (Spared(s) => Spared(s)')
    BY Zenon, <1>7 DEF PathInv
  <2>2. \A r \in Servers \ {s} : pc'[r] = pc[r]
    BY Zenon, <1>2 DEF Same
  <2> QED
    BY Zenon, <1>1, <1>4, <1>6, <2>1, <2>2 DEF Held
<1>9. ASSUME NEW r \in Servers \ {s} PROVE Held(r)'
  <2>1. Held(r) /\ pc'[r] = pc[r] /\ (Spared(r) => Spared(r)')
    BY Zenon, <1>2, <1>7 DEF PathInv, Same
  <2>2. Spared(r) => path' = path
    BY Zenon, <1>1 DEF Spared
  <2>3. \A q \in Servers \ {r} : pc'[q]["serve"] \in {"listen", "identify"} =>
                                     pc[q]["serve"] \in {"listen", "identify"}
    <3>1. \A q \in Servers \ {s} : pc'[q] = pc[q]
      BY Zenon, <1>2 DEF Same
    <3> QED
      BY Zenon, <1>6, <3>1
  <2> QED
    BY Zenon, <1>1, <1>5, <2>1, <2>2, <2>3 DEF Held
<1> QED
  BY Zenon, <1>1, <1>8, <1>9 DEF PathInv

\* Where no server replaces the path inside another's window, every step keeps it.
LEMMA NextPath ==
    ASSUME ~PathRace, Inv, PathInv, Next
    PROVE  PathInv'
<1>1. PICK s \in Servers :
         \/ ServeStep(s) \/ WatchStops(s) \/ CtxCancel(s) \/ ResolversExit(s)
         \/ Connect(s) \/ HandlerReturns(s)
         \/ \E l \in Listeners : ListenerGoroutine(s, l)
         \/ \E t \in Threads : CloseEnter(s, t) \/ CloseStep(s, t) \/ Teardown(s, t)
  BY Zenon DEF Next
<1>2. ServeStep(s) => PathInv'
  <2>1. BindUnlink(s) => PathInv'
    BY Zenon, BindUnlinkKeeps, UnlinkHeld DEF Kept
  <2>2. BindIdentify(s) => PathInv'
    BY Zenon, BindIdentifyKeeps, IdentifyHeld DEF Kept
  <2>3. BindListen(s) => PathInv'
    <3>1. CASE UNCHANGED <<path, own, ln>> /\ BindError(s)
      BY Zenon, <3>1, BindListenKeeps, ServeCalm, CalmHeld DEF Kept
    <3>2. CASE ~(UNCHANGED <<path, own, ln>> /\ BindError(s))
      BY Zenon, <3>2, BindListenKeeps, ListenHeld DEF Kept
    <3> QED
      BY Zenon, <3>1, <3>2
  <2>4. Start(s) \/ BindTCP(s) \/ BeginListening(s) \/ ServeReturns(s) => PathInv'
    BY Zenon, StartKeeps, BindTCPKeeps, BeginListeningKeeps, ServeReturnsKeeps, ServeCalm,
       CalmHeld DEF Kept
  <2> QED
    BY Zenon, <2>1, <2>2, <2>3, <2>4 DEF ServeStep
<1>3. ASSUME NEW t \in Threads PROVE CloseEnter(s, t) \/ CloseStep(s, t) => PathInv'
  BY Zenon, CloseEnterKeeps, CloseWaitKeeps, DrainKeeps, CloseCalm, CalmHeld DEF CloseStep, Kept
<1>4. ASSUME NEW t \in Threads PROVE Teardown(s, t) => PathInv'
  <2>1. TdStat(s, t) => PathInv'
    BY Zenon, TdStatKeeps, StatHeld DEF Kept
  <2>2. TdRemove(s, t) => PathInv'
    BY Zenon, TdRemoveKeeps, RemoveHeld DEF Kept
  <2>3. TdCancel(s, t) \/ TdShutdown(s, t) \/ TdQuiesce(s, t) \/ TdClose(s, t) => PathInv'
    BY Zenon, TdCancelKeeps, TdShutdownKeeps, TdQuiesceKeeps, TdCloseKeeps, TearCalm, CalmHeld
      DEF Kept
  <2>4. TdJoin(s, t) \/ TdResolvers(s, t) \/ TdSettle(s, t) \/ TdReturn(s, t) => PathInv'
    BY Zenon, TdJoinKeeps, TdResolversKeeps, TdSettleKeeps, TdReturnKeeps, TearCalm, CalmHeld
      DEF Kept
  <2> QED
    BY Zenon, <2>1, <2>2, <2>3, <2>4 DEF Teardown
<1>5. WatchStops(s) => PathInv'
  BY Zenon, ThreadKinds, WatchStopsKeeps, CloseCalm, CalmHeld DEF Kept
<1>6. \/ CtxCancel(s) \/ ResolversExit(s) \/ Connect(s) \/ HandlerReturns(s)
      \/ \E l \in Listeners : ListenerGoroutine(s, l)
      => PathInv'
  BY Zenon, ResolvingKeeps, StreamKeeps, ListenerKeeps, WorldCalm, CalmHeld DEF Kept
<1> QED
  BY Zenon, <1>1, <1>2, <1>3, <1>4, <1>5, <1>6

\* Where no server replaces the path inside another's window between stat and unlink,
\* and for any reuse of inode numbers: a server that took the path over and is open
\* finds its own socket there (removeOwnedSocket, closeTransports).
THEOREM SocketStays ==
    ASSUME ~PathRace
    PROVE  Spec => []SocketKept
<1>1. Init => PathInv
  <2> SUFFICES ASSUME Init PROVE PathInv
    OBVIOUS
  <2>1. DOMAIN own = Servers /\ DOMAIN ident = Servers
    BY Zenon DEF Init
  <2>2. ASSUME NEW s \in Servers PROVE Held(s)
    <3>1. /\ pc[s]["serve"] = "idle" /\ entries[s] = {} /\ ln[s]["unix"] = "none"
      BY Zenon, <2>2, ThreadKinds DEF Init, Listeners
    <3> QED
      BY Zenon, <3>1 DEF Held
  <2> QED
    BY Zenon, <2>1, <2>2 DEF PathInv
<1>2. Inv /\ PathInv /\ [Next]_vars => PathInv'
  <2> SUFFICES ASSUME Inv, PathInv, [Next]_vars PROVE PathInv'
    OBVIOUS
  <2>1. CASE Next
    BY Zenon, <2>1, NextPath
  <2>2. CASE UNCHANGED vars
    <3>1. UNCHANGED <<path, holder, own, ident, pc, snap, ln, entries, closed, result>>
      BY Zenon, <2>2 DEF vars, files, work, flags
    <3> QED
      <4>1. ASSUME NEW s \in Servers PROVE (Spared(s) => Spared(s)') /\ (Again(s)' <=> Again(s))
        BY Zenon, <3>1 DEF Spared, Again
      <4>2. ASSUME NEW s \in Servers, Held(s) PROVE Held(s)'
        <5> QED
          BY Zenon, <3>1, <4>1, <4>2 DEF Held
      <4> QED
        BY Zenon, <3>1, <4>2 DEF PathInv
  <2> QED
    BY Zenon, <2>1, <2>2
<1>3. PathInv => SocketKept
  <2> SUFFICES ASSUME PathInv, NEW s \in Servers, holder = s, ln[s]["unix"] = "open", ~closed[s],
                      \A r \in Servers \ {s} : result[r] # "errClosed"
                          /\ \A i \in 1 .. 10 : pc[r]["serve"] # TeardownOrder[i]
               PROVE  path = own[s]
    BY Zenon DEF SocketKept
  <2>1. \A r \in Servers \ {s} : ~Again(r)
    BY Zenon, StepsListed DEF Again
  <2> QED
    BY Zenon, <2>1 DEF PathInv, Held
<1> QED
  BY <1>1, <1>2, <1>3, InitInv, NextInv, PTL DEF Spec

=============================================================================
