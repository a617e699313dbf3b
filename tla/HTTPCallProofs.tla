--------------------------- MODULE HTTPCallProofs ---------------------------
(* What a call of HTTPClient returns: failures are deserved, and the cache      *)
(* serves nothing older than its lifetime, for any callers, refs and servers.   *)
EXTENDS HTTPClient, TLAPS

\* Version v of ref k was served at time t or later.
Fresh(k, v, t) ==
    v = backend[k] \/ (v \in 1 .. Len(retired[k]) /\ retired[k][v] >= t)

Reports == {"api", "issuer"} \X ErrorKinds

\* What every call carries from its start.
Carries(r) ==
    /\ {"key", "start", "said", "cond", "retry"} \subseteq DOMAIN r
    /\ r.key \in Keys /\ r.said \subseteq Reports
    /\ r.key \in Memoized => r.start \in Nat /\ r.start <= now
    /\ r.key \notin Revalidated => r.cond = None

\* What a call holds where it is: kinds it was told, and values fresh since it started.
Holds(r) ==
    /\ r.pc = "settle" => /\ "outcome" \in DOMAIN r
                          /\ r.outcome \in {"ok", "unavailable"} \cup Reported("issuer", r.said)
    /\ r.pc = "waiting" => /\ "outcome" \in DOMAIN r
                           /\ r.outcome \in {None, "ok", "unavailable"} \cup Reported("issuer", r.said)
    /\ r.pc = "replica" => "outcome" \in DOMAIN r /\ r.outcome \in Deserved(r.said)
    /\ r.pc = "answer" =>
          /\ {"status", "body"} \subseteq DOMAIN r
          /\ r.status \in {"ok", "not_modified", "unavailable"} \cup Reported("api", r.said)
          /\ r.status = "not_modified" => r.key \in Revalidated
          /\ r.status = "ok" /\ r.key \in Memoized => Fresh(r.key, r.body, r.start)
    /\ r.pc = "done" =>
          /\ {"result", "hit"} \subseteq DOMAIN r
          /\ ~r.result.ok => r.result.kind \in Deserved(r.said)
          /\ r.hit => /\ r.key \in Memoized /\ r.start - TTL < now
                      /\ Fresh(r.key, r.result.body, r.start - TTL + 1)

Sound(r) == "pc" \in DOMAIN r /\ (r.pc # "idle" => Carries(r) /\ Holds(r))

\* The cache's entries were current when the calls that read them started, or later.
MemoDated ==
    \A k \in Memoized : memo[k] # None =>
        /\ memo[k].expires \in Int /\ memo[k].expires - TTL <= now
        /\ Fresh(k, memo[k].val, memo[k].expires - TTL)

Versioned ==
    /\ DOMAIN backend = Keys /\ DOMAIN retired = Keys
    /\ \A k \in Keys : retired[k] \in Seq(Nat) /\ backend[k] = Len(retired[k]) + 1

SInv ==
    /\ now \in Nat /\ ref \in Programs
    /\ DOMAIN call = Callers /\ DOMAIN memo = Keys
    /\ Versioned /\ MemoDated
    /\ \A c \in Callers : Sound(call[c])

\* At puts the fields it is given over the ones a call keeps.
LEMMA AtFields ==
    ASSUME NEW c, NEW pc, NEW r, "pc" \notin DOMAIN r
    PROVE  /\ At(c, pc, r).pc = pc
           /\ "pc" \in DOMAIN At(c, pc, r)
           /\ \A x \in DOMAIN r : At(c, pc, r)[x] = r[x] /\ x \in DOMAIN At(c, pc, r)
<1>1. "pc" \in DOMAIN Kept(c, pc) /\ Kept(c, pc)["pc"] = pc
  BY DEF Kept
<1> QED
  BY <1>1 DEF At, Over

\* A field that At is not given is the one the call carries.
LEMMA KeptField ==
    ASSUME NEW c, NEW pc, NEW r, NEW x \in {"key", "start", "said", "cond", "retry"},
           x \notin DOMAIN r
    PROVE  x \in DOMAIN At(c, pc, r) /\ At(c, pc, r)[x] = call[c][x]
<1>1. x \in DOMAIN Kept(c, pc) /\ Kept(c, pc)[x] = call[c][x]
  BY DEF Kept
<1> QED
  BY <1>1 DEF At, Over

\* Record a is what a call goes on with at pc, given the fields of r and told the
\* reports of S.
GoesOn(a, c, pc, r, S) ==
    /\ Carries(a) /\ "pc" \in DOMAIN a /\ a.pc = pc
    /\ a.key = call[c].key /\ a.start = call[c].start /\ a.said = call[c].said \cup S
    /\ \A x \in DOMAIN r : x \in DOMAIN a /\ a[x] = r[x]

\* A call goes on with what it carries.
LEMMA AtCarries ==
    ASSUME NEW c, Carries(call[c]), NEW pc, NEW r,
           {"pc", "key", "start", "said", "cond", "retry"} \cap DOMAIN r = {}
    PROVE  GoesOn(At(c, pc, r), c, pc, r, {})
<1> DEFINE a == At(c, pc, r)
<1>1. a.pc = pc /\ "pc" \in DOMAIN a /\ \A x \in DOMAIN r : x \in DOMAIN a /\ a[x] = r[x]
  BY AtFields
<1>2. \A x \in {"key", "start", "said", "cond", "retry"} : x \in DOMAIN a /\ a[x] = call[c][x]
  BY KeptField
<1> HIDE DEF a
<1>3. /\ a.key = call[c].key /\ a.start = call[c].start /\ a.said = call[c].said
      /\ a.cond = call[c].cond
  BY <1>2
<1>4. {"key", "start", "said", "cond", "retry"} \subseteq DOMAIN a
  BY <1>2
<1>5. Carries(a)
  BY <1>3, <1>4 DEF Carries
<1> QED
  BY <1>1, <1>3, <1>5 DEF GoesOn, a

\* The same when the call was told a kind of failure.
LEMMA ToldCarries ==
    ASSUME NEW c, Carries(call[c]), NEW pc, NEW r, NEW told \in Reports,
           {"pc", "key", "start", "cond", "retry"} \cap DOMAIN r = {},
           "said" \in DOMAIN r, r.said = call[c].said \cup {told}
    PROVE  GoesOn(At(c, pc, r), c, pc, r, {told})
<1> DEFINE a == At(c, pc, r)
<1>1. /\ a.pc = pc /\ "pc" \in DOMAIN a /\ "said" \in DOMAIN a /\ a.said = r.said
      /\ \A x \in DOMAIN r : x \in DOMAIN a /\ a[x] = r[x]
  BY AtFields
<1>2. \A x \in {"key", "start", "cond", "retry"} : x \in DOMAIN a /\ a[x] = call[c][x]
  BY KeptField
<1> HIDE DEF a
<1>3. a.key = call[c].key /\ a.start = call[c].start /\ a.cond = call[c].cond
  BY <1>2
<1>4. {"key", "start", "said", "cond", "retry"} \subseteq DOMAIN a
  BY <1>1, <1>2
<1>5. Carries(a)
  BY <1>1, <1>3, <1>4 DEF Carries
<1> QED
  BY <1>1, <1>3, <1>5 DEF GoesOn, a

\* A call's record is as sound after a step that moves neither clock nor backend.
LEMMA SoundKept ==
    ASSUME UNCHANGED <<now, backend, retired>>, NEW c \in Callers, NEW r, call'[c] = r, Sound(r)
    PROVE  Sound(call[c])'
BY DEF Sound, Carries, Holds, Fresh

\* One caller goes on, and the cache is as well dated as before.
LEMMA OneSound ==
    ASSUME SInv, UNCHANGED <<now, ref, backend, retired>>, DOMAIN memo' = Keys, MemoDated',
           NEW c \in Callers, NEW r, call' = [call EXCEPT ![c] = r], Sound(r)
    PROVE  SInv'
<1>1. call'[c] = r /\ DOMAIN call' = Callers /\ \A d \in Callers \ {c} : call'[d] = call[d]
  BY DEF SInv
<1>2. \A d \in Callers : Sound(call[d])
  BY DEF SInv
<1>3. ASSUME NEW d \in Callers PROVE Sound(call[d])'
  <2>1. CASE d = c
    BY <1>1, <2>1, SoundKept
  <2>2. CASE d # c
    BY <1>1, <1>2, <2>2, SoundKept
  <2> QED
    BY <2>1, <2>2
<1>4. Versioned'
  BY DEF SInv, Versioned
<1> QED
  BY <1>1, <1>3, <1>4 DEF SInv

\* The cache is left alone.
LEMMA MemoKept ==
    ASSUME SInv, UNCHANGED <<now, backend, retired, memo>>
    PROVE  DOMAIN memo' = Keys /\ MemoDated'
BY DEF SInv, MemoDated, Fresh

\* What a call that is under way carries.
LEMMA Underway ==
    ASSUME SInv, NEW c \in Callers, NEW pc, In(c, pc), pc # "idle"
    PROVE  Sound(call[c]) /\ Carries(call[c]) /\ Holds(call[c]) /\ call[c].key \in Keys
BY DEF SInv, Sound, Carries, In

\* At a place where nothing is asked of a call.
LEMMA OnTheWay ==
    ASSUME SInv, NEW c \in Callers, Carries(call[c]), UNCHANGED <<now, ref, backend, retired, memo>>,
           NEW pc, pc \notin {"settle", "waiting", "replica", "answer", "done"}, NEW r,
           {"pc", "key", "start", "said", "cond", "retry"} \cap DOMAIN r = {},
           Goto(c, pc, r)
    PROVE  SInv'
<1>1. Sound(At(c, pc, r))
  BY AtCarries DEF GoesOn, Sound, Holds
<1> QED
  BY Zenon, <1>1, MemoKept, OneSound DEF Goto

\* A provider's failure is deserved, with a replica and without one.
LEMMA FailureSound ==
    ASSUME NEW c, Carries(call[c]), NEW kind \in Deserved(call[c].said)
    PROVE  Sound(AfterFailure(c, kind))
<1>1. CASE call[c].key \in Replicated /\ kind # "not_found"
  <2> DEFINE r == [outcome |-> kind]
             a == At(c, "replica", r)
  <2>1. AfterFailure(c, kind) = a
    BY <1>1 DEF AfterFailure
  <2>2. "pc" \notin DOMAIN r /\ {"pc", "key", "start", "said", "cond", "retry"} \cap DOMAIN r = {}
        /\ "outcome" \in DOMAIN r /\ r["outcome"] = kind
    OBVIOUS
  <2> HIDE DEF r
  <2>3. Carries(a) /\ a.pc = "replica" /\ "pc" \in DOMAIN a /\ a.said = call[c].said
    <3>1. GoesOn(a, c, "replica", r, {})
      BY Zenon, <2>2, AtCarries
    <3> HIDE DEF a
    <3> QED
      BY <3>1 DEF GoesOn
  <2>4. "outcome" \in DOMAIN a /\ a.outcome = kind
    BY <2>2, AtFields
  <2> HIDE DEF a
  <2> QED
    BY <2>1, <2>3, <2>4 DEF Sound, Holds
<1>2. CASE ~(call[c].key \in Replicated /\ kind # "not_found")
  <2> DEFINE r == [result |-> Failed(kind), hit |-> FALSE]
             a == At(c, "done", r)
  <2>1. AfterFailure(c, kind) = a
    BY Zenon, <1>2 DEF AfterFailure
  <2>2. "pc" \notin DOMAIN r /\ {"pc", "key", "start", "said", "cond", "retry"} \cap DOMAIN r = {}
        /\ "result" \in DOMAIN r /\ r["result"] = Failed(kind) /\ "hit" \in DOMAIN r /\ r["hit"] = FALSE
    OBVIOUS
  <2> HIDE DEF r
  <2>3. Carries(a) /\ a.pc = "done" /\ "pc" \in DOMAIN a /\ a.said = call[c].said
    <3>1. GoesOn(a, c, "done", r, {})
      BY Zenon, <2>2, AtCarries
    <3> HIDE DEF a
    <3> QED
      BY <3>1 DEF GoesOn
  <2>4. {"result", "hit"} \subseteq DOMAIN a /\ a.result = Failed(kind) /\ a.hit = FALSE
    BY <2>2, AtFields
  <2>5. Failed(kind).ok = FALSE /\ Failed(kind).kind = kind
    BY DEF Failed
  <2> HIDE DEF a
  <2> QED
    BY <2>1, <2>3, <2>4, <2>5 DEF Sound, Holds
<1> QED
  BY <1>1, <1>2

\* The provider fails as it deserves.
LEMMA FailSound ==
    ASSUME SInv, NEW c \in Callers, Carries(call[c]), UNCHANGED <<now, ref, backend, retired>>,
           NEW kind \in Deserved(call[c].said), Fail(c, kind)
    PROVE  SInv'
<1>1. Sound(AfterFailure(c, kind))
  BY FailureSound
<1> QED
  BY Zenon, <1>1, MemoKept, OneSound DEF Fail

\* A value that was current since the call started may be returned and cached.
LEMMA SucceedSound ==
    ASSUME SInv, NEW c \in Callers, Carries(call[c]), UNCHANGED <<now, ref, backend, retired>>,
           NEW v, call[c].key \in Memoized => Fresh(call[c].key, v, call[c].start), Succeed(c, v)
    PROVE  SInv'
<1> DEFINE k == call[c].key
           r == [hit |-> FALSE, result |-> Ok(v)]
           a == At(c, "done", r)
<1>1. /\ "pc" \notin DOMAIN r /\ {"pc", "key", "start", "said", "cond", "retry"} \cap DOMAIN r = {}
      /\ "result" \in DOMAIN r /\ r["result"] = Ok(v) /\ "hit" \in DOMAIN r /\ r["hit"] = FALSE
  OBVIOUS
<1>2. call' = [call EXCEPT ![c] = a]
  BY DEF Succeed, Goto
<1> HIDE DEF r
<1>3. Carries(a) /\ a.pc = "done" /\ "pc" \in DOMAIN a
  <2>1. GoesOn(a, c, "done", r, {})
    BY Zenon, <1>1, AtCarries
  <2> HIDE DEF a
  <2> QED
    BY <2>1 DEF GoesOn
<1>4. {"result", "hit"} \subseteq DOMAIN a /\ a.result = Ok(v) /\ a.hit = FALSE
  BY <1>1, AtFields
<1>5. Ok(v).ok = TRUE
  BY DEF Ok
<1> HIDE DEF a
<1>6. Sound(a)
  BY <1>3, <1>4, <1>5 DEF Sound, Holds
<1>7. DOMAIN memo' = Keys /\ MemoDated'
  <2>1. CASE k \notin Memoized
    BY <2>1, MemoKept DEF Succeed
  <2>2. CASE k \in Memoized
    <3>1. memo' = [memo EXCEPT ![k] = [val |-> v, expires |-> call[c].start + TTL]]
      BY <2>2 DEF Succeed, Expires
    <3>2. k \in Keys /\ DOMAIN memo = Keys /\ Memoized \subseteq Keys /\ TTL \in Nat
      BY HTTPClientAssumption DEF SInv, Carries
    <3>3. /\ memo'[k].val = v /\ memo'[k].expires = call[c].start + TTL
          /\ \A j \in Keys \ {k} : memo'[j] = memo[j]
      BY <3>1, <3>2
    <3>4. call[c].start \in Nat /\ call[c].start <= now /\ now \in Nat
      BY Zenon, <2>2 DEF Carries, SInv
    <3>5. memo'[k].expires \in Int /\ memo'[k].expires - TTL = call[c].start
      BY <3>2, <3>3, <3>4
    <3>6. Fresh(k, v, call[c].start)
      BY <2>2
    <3>7. ASSUME NEW j \in Memoized, memo'[j] # None
          PROVE  /\ memo'[j].expires \in Int /\ memo'[j].expires - TTL <= now
                 /\ Fresh(j, memo'[j].val, memo'[j].expires - TTL)
      <4>1. CASE j = k
        BY <3>3, <3>4, <3>5, <3>6, <4>1
      <4>2. CASE j # k
        BY <3>2, <3>3, <3>7, <4>2 DEF SInv, MemoDated
      <4> QED
        BY <4>1, <4>2
    <3> HIDE DEF k
    <3>8. MemoDated'
      BY <3>7 DEF MemoDated, Fresh
    <3> QED
      BY <3>1, <3>2, <3>8
  <2> QED
    BY <2>1, <2>2
<1> QED
  BY Zenon, <1>2, <1>6, <1>7, OneSound

\* Of two kinds an error has one.
LEMMA JoinedIsOne ==
    ASSUME NEW a \in ErrorKinds, NEW b \in ErrorKinds
    PROVE  JoinedKind({a, b}) \in {a, b}
<1> DEFINE P(i) == /\ KindOrder[i] \in {a, b}
                   /\ \A j \in 1 .. i - 1 : KindOrder[j] \notin {a, b}
<1>1. DOMAIN KindOrder = 1 .. 7
  BY DEF KindOrder
<1>2. PICK m \in 1 .. 7, n \in 1 .. 7 : KindOrder[m] = a /\ KindOrder[n] = b
  BY <1>1 DEF ErrorKinds
<1>3. \A i, j \in 1 .. 7 : KindOrder[i] = KindOrder[j] => i = j
  BY DEF KindOrder
<1>4. P(m) \/ P(n)
  BY <1>2, <1>3
<1>5. \E i \in DOMAIN KindOrder : P(i)
  BY <1>1, <1>4
<1>6. JoinedKind({a, b}) = KindOrder[CHOOSE i \in DOMAIN KindOrder : P(i)]
  BY DEF JoinedKind
<1> QED
  BY <1>5, <1>6

\* What a report of a kind adds to what was reported.
LEMMA ReportAdds ==
    ASSUME NEW who \in {"api", "issuer"}, NEW kind \in ErrorKinds, NEW S
    PROVE  /\ <<who, kind>> \in Reports
           /\ kind \in Reported(who, S \cup {<<who, kind>>})
BY DEF Reports, Reported

\* More is reported when a call is told more.
LEMMA ReportedGrows ==
    ASSUME NEW who, NEW S, NEW T
    PROVE  Reported(who, S) \subseteq Reported(who, S \cup T)
BY DEF Reported

\* What is deserved is a kind, and stays deserved when a call is told more.
LEMMA DeservedKinds ==
    ASSUME NEW S, NEW T
    PROVE  /\ Deserved(S) \subseteq ErrorKinds
           /\ Deserved(S) \subseteq Deserved(S \cup T)
           /\ Reported("api", S) \cup {"unavailable", "unknown"} \subseteq Deserved(S)
<1>1. {"unavailable", "unknown", "unauthenticated"} \subseteq ErrorKinds
  BY DEF ErrorKinds, KindOrder
<1>2. Reported("api", S) \subseteq ErrorKinds /\ Reported("issuer", S) \subseteq ErrorKinds
  BY DEF Reported
<1>3. /\ Reported("api", S) \subseteq Reported("api", S \cup T)
      /\ Reported("issuer", S) \subseteq Reported("issuer", S \cup T)
  BY ReportedGrows
<1> QED
  BY <1>1, <1>2, <1>3 DEF Deserved

\* authError keeps what is deserved.
LEMMA AuthErrorDeserved ==
    ASSUME NEW S, NEW kind \in Reported("issuer", S) \cup {"unavailable"}
    PROVE  AuthError(kind) \in Deserved(S)
BY DEF AuthError, Deserved

\* A field that is not looked at may change.
LEMMA TouchedSound ==
    ASSUME NEW r, Sound(r), NEW v,
           NEW x, x \notin {"pc", "key", "start", "said", "cond", "retry", "outcome", "status",
                            "body", "result", "hit"}
    PROVE  Sound([r EXCEPT ![x] = v])
<1> DEFINE s == [r EXCEPT ![x] = v]
<1>1. DOMAIN s = DOMAIN r /\ \A y \in DOMAIN r : y # x => s[y] = r[y]
  OBVIOUS
<1> HIDE DEF s
<1>2. "pc" \in DOMAIN s /\ s.pc = r.pc
  BY <1>1 DEF Sound
<1>3. ASSUME Carries(r)
      PROVE  Carries(s) /\ s.key = r.key /\ s.start = r.start /\ s.said = r.said /\ s.cond = r.cond
  BY <1>1, <1>3 DEF Carries
<1>4. ASSUME Carries(r), Holds(r) PROVE Holds(s)
  BY <1>1, <1>2, <1>3, <1>4 DEF Holds
<1>5. Sound(s)
  BY <1>2, <1>3, <1>4 DEF Sound
<1> QED
  BY <1>5 DEF s

\* A call begins, and every other call of its ref is marked.
LEMMA JoinedSound ==
    ASSUME SInv, UNCHANGED <<now, ref, backend, retired, memo>>, NEW c \in Callers, NEW k, NEW r,
           Sound(r), call' = Joined(c, k, r)
    PROVE  SInv'
<1>1. DOMAIN call' = Callers
  BY Zenon DEF Joined
<1>2. ASSUME NEW d \in Callers PROVE Sound(call[d])'
  <2>1. CASE d = c
    <3>1. call'[d] = r
      BY Zenon, <2>1 DEF Joined
    <3> QED
      BY <3>1, SoundKept
  <2>2. CASE d # c /\ ~In(d, "idle") /\ call[d].key = k
    <3> DEFINE r1 == [call[d] EXCEPT !.alone = FALSE]
               r2 == [r1 EXCEPT !.current = {}]
    <3>1. call'[d] = r2
      BY Zenon, <2>2 DEF Joined
    <3>2. Sound(r1)
      BY TouchedSound DEF SInv
    <3> HIDE DEF r1
    <3>3. Sound(r2)
      BY <3>2, TouchedSound
    <3> QED
      BY <3>1, <3>3, SoundKept
  <2>3. CASE d # c /\ ~(~In(d, "idle") /\ call[d].key = k)
    <3>1. call'[d] = call[d]
      BY Zenon, <2>3 DEF Joined
    <3> QED
      BY <3>1, SoundKept DEF SInv
  <2> QED
    BY <2>1, <2>2, <2>3
<1>3. Versioned'
  BY DEF SInv, Versioned
<1> QED
  BY <1>1, <1>2, <1>3, MemoKept DEF SInv

\* A call begins with nothing told and nothing older than itself.
LEMMA BegunCarries ==
    ASSUME now \in Nat, NEW c, NEW k \in Keys, NEW r,
           {"key", "start", "said", "cond", "retry"} \cap DOMAIN r = {}
    PROVE  /\ Carries(Over(r, Begun(c, k))) /\ Over(r, Begun(c, k)).key = k
           /\ k \in Memoized => Over(r, Begun(c, k)).start = now
           /\ Over(r, Begun(c, k)).said = {}
           /\ \A x \in DOMAIN r : /\ x \in DOMAIN Over(r, Begun(c, k))
                                  /\ Over(r, Begun(c, k))[x] = r[x]
<1> DEFINE b == Begun(c, k)
           s == Over(r, b)
<1>1. /\ {"key", "start", "said", "cond", "retry"} \subseteq DOMAIN b /\ b.key = k /\ b.said = {}
      /\ b.cond = None /\ (k \in Memoized => b.start = now)
  BY Zenon DEF Begun
<1> HIDE DEF b
<1>2. /\ DOMAIN s = DOMAIN r \cup DOMAIN b
      /\ \A x \in DOMAIN r : s[x] = r[x]
      /\ \A x \in DOMAIN b \ DOMAIN r : s[x] = b[x]
  BY DEF Over
<1> HIDE DEF s
<1>3. /\ {"key", "start", "said", "cond", "retry"} \subseteq DOMAIN s /\ s.key = k /\ s.said = {}
      /\ s.cond = None /\ (k \in Memoized => s.start = now)
  BY <1>1, <1>2
<1>4. Carries(s)
  BY <1>3 DEF Carries
<1> QED
  BY Zenon, <1>2, <1>3, <1>4 DEF s, b

\* Fresh since then is fresh since any time before.
LEMMA FreshEarlier ==
    ASSUME Versioned, NEW k \in Keys, NEW v, NEW t \in Int, NEW u \in Int, u <= t, Fresh(k, v, t)
    PROVE  Fresh(k, v, u)
<1>1. CASE v = backend[k]
  BY <1>1 DEF Fresh
<1>2. CASE v # backend[k]
  <2>1. v \in 1 .. Len(retired[k]) /\ retired[k][v] >= t
    BY <1>2 DEF Fresh
  <2>2. retired[k] \in Seq(Nat)
    BY DEF Versioned
  <2>3. retired[k][v] \in Nat
    BY <2>1, <2>2
  <2>4. retired[k][v] >= u
    BY <2>1, <2>3
  <2> QED
    BY <2>1, <2>4 DEF Fresh
<1> QED
  BY <1>1, <1>2

\* A hit serves what the lifetime allows; a miss takes its slot.
LEMMA ResolveSound ==
    ASSUME SInv, NEW c \in Callers, NEW k \in Keys, Resolve(c, k)
    PROVE  SInv'
<1>1. UNCHANGED <<now, ref, backend, retired, memo>> /\ now \in Nat
  BY Zenon DEF Resolve, SInv
<1>2. CASE Hit(k) /\ call' = Joined(c, k, Over([pc |-> "done", result |-> Ok(memo[k].val), hit |-> TRUE],
                                               Begun(c, k)))
  <2> DEFINE v == memo[k].val
             r == [pc |-> "done", result |-> Ok(v), hit |-> TRUE]
             a == Over(r, Begun(c, k))
  <2>1. /\ {"key", "start", "said", "cond", "retry"} \cap DOMAIN r = {}
        /\ {"pc", "result", "hit"} \subseteq DOMAIN r
        /\ r["pc"] = "done" /\ r["result"] = Ok(v) /\ r["hit"] = TRUE
    OBVIOUS
  <2> HIDE DEF r
  <2>2. /\ Carries(a) /\ a.key = k /\ (k \in Memoized => a.start = now)
        /\ \A x \in DOMAIN r : x \in DOMAIN a /\ a[x] = r[x]
    BY <1>1, <2>1, BegunCarries
  <2> HIDE DEF a
  <2>3. {"pc", "result", "hit"} \subseteq DOMAIN a /\ a.pc = "done" /\ a.result = Ok(v) /\ a.hit = TRUE
    BY Zenon, <2>1, <2>2
  <2>4. k \in Memoized /\ memo[k] # None /\ now < memo[k].expires
    BY Zenon, <1>2 DEF Hit
  <2>5. memo[k].expires \in Int /\ memo[k].expires - TTL <= now /\ Fresh(k, v, memo[k].expires - TTL)
    BY <2>4 DEF SInv, MemoDated
  <2>6. TTL \in Nat
    BY HTTPClientAssumption
  <2> HIDE DEF v
  <2>7. /\ now - TTL < now /\ now - TTL + 1 <= memo[k].expires - TTL
        /\ Fresh(k, v, now - TTL + 1)
    <3>1. now - TTL < now /\ now - TTL + 1 <= memo[k].expires - TTL
      BY <1>1, <2>4, <2>5, <2>6
    <3> QED
      BY <1>1, <2>5, <2>6, <3>1, FreshEarlier DEF SInv
  <2>8. Ok(v).ok = TRUE /\ Ok(v).body = v
    BY DEF Ok
  <2>9. Sound(a)
    BY Zenon, <2>2, <2>3, <2>4, <2>7, <2>8 DEF Sound, Holds
  <2> QED
    BY Zenon, <1>1, <1>2, <2>9, JoinedSound DEF a, r, v
<1>3. CASE call' = Joined(c, k, Over([pc |-> "limited", slot |-> IF MustSpace(k) THEN Slot(k) ELSE 0],
                                     Begun(c, k)))
  <2> DEFINE r == [pc |-> "limited", slot |-> IF MustSpace(k) THEN Slot(k) ELSE 0]
             a == Over(r, Begun(c, k))
  <2>1. /\ {"key", "start", "said", "cond", "retry"} \cap DOMAIN r = {}
        /\ "pc" \in DOMAIN r /\ r["pc"] = "limited"
    OBVIOUS
  <2> HIDE DEF r
  <2>2. Carries(a) /\ \A x \in DOMAIN r : x \in DOMAIN a /\ a[x] = r[x]
    BY <1>1, <2>1, BegunCarries
  <2> HIDE DEF a
  <2>3. Sound(a)
    BY Zenon, <2>1, <2>2 DEF Sound, Holds
  <2> QED
    BY <1>1, <1>3, <2>3, JoinedSound DEF a, r
<1> QED
  BY Zenon, <1>2, <1>3 DEF Resolve

\* A call goes on with the validators it read, or asks again without.
LEMMA AuthorizeSound ==
    ASSUME SInv, NEW c \in Callers, Carries(call[c]), UNCHANGED <<now, ref, backend, retired, memo>>,
           NEW r, {"pc", "key", "start", "said"} \cap DOMAIN r = {}, "cond" \in DOMAIN r,
           call[c].key \notin Revalidated => r.cond = None, Goto(c, "auth", r)
    PROVE  SInv'
<1> DEFINE a == At(c, "auth", r)
<1>1. a.pc = "auth" /\ "pc" \in DOMAIN a /\ "cond" \in DOMAIN a /\ a.cond = r.cond
  BY AtFields
<1>2. \A x \in {"key", "start", "said"} : x \in DOMAIN a /\ a[x] = call[c][x]
  BY KeptField
<1>3. "retry" \in DOMAIN a
  BY AtFields, KeptField
<1>4. call' = [call EXCEPT ![c] = a]
  BY DEF Goto
<1> HIDE DEF a
<1>5. a.key = call[c].key /\ a.start = call[c].start /\ a.said = call[c].said
  BY <1>2
<1>6. {"key", "start", "said", "cond", "retry"} \subseteq DOMAIN a
  BY <1>1, <1>2, <1>3
<1>7. Sound(a)
  BY Zenon, <1>1, <1>5, <1>6 DEF Sound, Carries, Holds
<1> QED
  BY Zenon, <1>4, <1>7, MemoKept, OneSound

\* The slot comes, or the context ends first.
LEMMA LimitedSound ==
    ASSUME SInv, NEW c \in Callers, Limited(c)
    PROVE  SInv'
<1>1. Carries(call[c]) /\ UNCHANGED <<now, ref, backend, retired, memo>>
  BY Zenon, Underway DEF Limited
<1>2. CASE Goto(c, "auth", [cond |-> Validators(call[c].key)])
  <2> DEFINE r == [cond |-> Validators(call[c].key)]
  <2>1. /\ {"pc", "key", "start", "said"} \cap DOMAIN r = {} /\ "cond" \in DOMAIN r
        /\ r["cond"] = Validators(call[c].key)
    OBVIOUS
  <2>2. call[c].key \notin Revalidated => r.cond = None
    BY <2>1 DEF Validators
  <2> HIDE DEF r
  <2> QED
    BY <1>1, <1>2, <2>1, <2>2, AuthorizeSound DEF r
<1>3. CASE Goto(c, "done", [hit |-> FALSE, result |-> Failed("unknown")])
  <2> DEFINE r == [hit |-> FALSE, result |-> Failed("unknown")]
             a == At(c, "done", r)
  <2>1. /\ {"pc", "key", "start", "said", "cond", "retry"} \cap DOMAIN r = {}
        /\ "result" \in DOMAIN r /\ r["result"] = Failed("unknown") /\ "hit" \in DOMAIN r /\ r["hit"] = FALSE
    OBVIOUS
  <2> HIDE DEF r
  <2>2. Carries(a) /\ a.pc = "done" /\ "pc" \in DOMAIN a /\ a.said = call[c].said
    <3>1. GoesOn(a, c, "done", r, {})
      BY Zenon, <1>1, <2>1, AtCarries
    <3> HIDE DEF a
    <3> QED
      BY <3>1 DEF GoesOn
  <2>3. {"result", "hit"} \subseteq DOMAIN a /\ a.result = Failed("unknown") /\ a.hit = FALSE
    BY <2>1, AtFields
  <2>4. Failed("unknown").ok = FALSE /\ Failed("unknown").kind = "unknown"
    BY DEF Failed
  <2> HIDE DEF a
  <2>5. Sound(a)
    BY Zenon, <2>2, <2>3, <2>4 DEF Sound, Holds, Deserved
  <2> QED
    BY Zenon, <1>1, <1>3, <2>5, MemoKept, OneSound DEF Goto, a, r
<1> QED
  BY Zenon, <1>2, <1>3 DEF Limited

\* The caller has a token, waits for one or fetches one: nothing is told yet.
LEMMA AuthSound ==
    ASSUME SInv, NEW c \in Callers, Auth(c)
    PROVE  SInv'
<1>1. Carries(call[c]) /\ UNCHANGED <<now, ref, backend, retired, memo>>
  BY Zenon, Underway DEF Auth
<1>2. CASE Goto(c, "send", [live |-> now < token.ends])
  <2> DEFINE r == [live |-> now < token.ends]
  <2>1. {"pc", "key", "start", "said", "cond", "retry"} \cap DOMAIN r = {}
    OBVIOUS
  <2> HIDE DEF r
  <2> QED
    BY Zenon, <1>1, <1>2, <2>1, OnTheWay DEF r
<1>3. CASE Goto(c, "waiting", [from |-> inflight, outcome |-> None])
  <2> DEFINE r == [from |-> inflight, outcome |-> None]
             a == At(c, "waiting", r)
  <2>1. /\ {"pc", "key", "start", "said", "cond", "retry"} \cap DOMAIN r = {}
        /\ "outcome" \in DOMAIN r /\ r["outcome"] = None
    OBVIOUS
  <2> HIDE DEF r
  <2>2. Carries(a) /\ a.pc = "waiting" /\ "pc" \in DOMAIN a
    <3>1. GoesOn(a, c, "waiting", r, {})
      BY Zenon, <1>1, <2>1, AtCarries
    <3> HIDE DEF a
    <3> QED
      BY <3>1 DEF GoesOn
  <2>3. "outcome" \in DOMAIN a /\ a.outcome = None
    BY <2>1, AtFields
  <2> HIDE DEF a
  <2>4. Sound(a)
    BY <2>2, <2>3 DEF Sound, Holds
  <2> QED
    BY Zenon, <1>1, <1>3, <2>4, MemoKept, OneSound DEF Goto, a, r
<1>4. CASE Goto(c, "exchange", [began |-> now])
  <2> DEFINE r == [began |-> now]
  <2>1. {"pc", "key", "start", "said", "cond", "retry"} \cap DOMAIN r = {}
    OBVIOUS
  <2> HIDE DEF r
  <2> QED
    BY <1>1, <1>4, <2>1, OnTheWay DEF r
<1> QED
  BY Zenon, <1>2, <1>3, <1>4 DEF Auth

\* A failure the call was told of, and where it takes the call.
LEMMA ToldSound ==
    ASSUME NEW c, Carries(call[c]), NEW kind \in ErrorKinds
    PROVE  Sound(At(c, "settle", [outcome |-> kind, said |-> call[c].said \cup {<<"issuer", kind>>}]))
<1> DEFINE r == [outcome |-> kind, said |-> call[c].said \cup {<<"issuer", kind>>}]
           a == At(c, "settle", r)
<1>1. /\ {"pc", "key", "start", "cond", "retry"} \cap DOMAIN r = {}
      /\ "outcome" \in DOMAIN r /\ r["outcome"] = kind
      /\ "said" \in DOMAIN r /\ r["said"] = call[c].said \cup {<<"issuer", kind>>}
  OBVIOUS
<1> HIDE DEF r
<1>2. Carries(a) /\ a.pc = "settle" /\ "pc" \in DOMAIN a /\ a.said = call[c].said \cup {<<"issuer", kind>>}
  <2>1. GoesOn(a, c, "settle", r, {<<"issuer", kind>>})
    BY Zenon, <1>1, ReportAdds, ToldCarries
  <2> HIDE DEF a
  <2> QED
    BY <2>1 DEF GoesOn
<1>3. "outcome" \in DOMAIN a /\ a.outcome = kind
  BY <1>1, AtFields
<1> HIDE DEF a
<1>4. Sound(a)
  <2>1. kind \in Reported("issuer", a.said)
    BY <1>2, ReportAdds
  <2> QED
    BY Zenon, <1>2, <1>3, <2>1 DEF Sound, Holds
<1> QED
  BY <1>4 DEF a, r

\* Every way an exchange fails is a kind.
LEMMA ExchangeKinds ==
    ASSUME NEW k \in Keys
    PROVE  ExchangeFailures(Issuer[k]) \subseteq ErrorKinds
<1>1. TokenKinds \subseteq ErrorKinds /\ Issuer[k] \in {"oauth2", "infisical", "bitwarden", "nacos"}
  BY HTTPClientAssumption
<1>2. {"invalid", "unauthenticated", "unavailable"} \subseteq ErrorKinds
  BY DEF ErrorKinds, KindOrder
<1> QED
  BY <1>1, <1>2 DEF ExchangeFailures, OAuth2Fails, InfisicalFails, BitwardenFails, NacosFails

\* The exchange ends, and its caller knows how.
LEMMA ExchangeEndsSound ==
    ASSUME SInv, NEW c \in Callers, ExchangeEnds(c)
    PROVE  SInv'
<1>1. /\ Carries(call[c]) /\ call[c].key \in Keys
      /\ UNCHANGED <<now, ref, backend, retired, memo>>
  BY Zenon, Underway DEF ExchangeEnds
<1>2. ASSUME NEW o \in {"ok", "unavailable"}, Goto(c, "settle", [outcome |-> o]) PROVE SInv'
  <2> DEFINE r == [outcome |-> o]
             a == At(c, "settle", r)
  <2>1. /\ {"pc", "key", "start", "said", "cond", "retry"} \cap DOMAIN r = {}
        /\ "outcome" \in DOMAIN r /\ r["outcome"] = o
    OBVIOUS
  <2> HIDE DEF r
  <2>2. Carries(a) /\ a.pc = "settle" /\ "pc" \in DOMAIN a
    <3>1. GoesOn(a, c, "settle", r, {})
      BY Zenon, <1>1, <2>1, AtCarries
    <3> HIDE DEF a
    <3> QED
      BY <3>1 DEF GoesOn
  <2>3. "outcome" \in DOMAIN a /\ a.outcome = o
    BY <2>1, AtFields
  <2> HIDE DEF a
  <2>4. Sound(a)
    BY Zenon, <2>2, <2>3 DEF Sound, Holds
  <2> QED
    BY Zenon, <1>1, <1>2, <2>4, MemoKept, OneSound DEF Goto, a, r
<1>3. ASSUME NEW kind \in ExchangeFailures(Issuer[call[c].key]),
             Goto(c, "settle", [outcome |-> kind, said |-> call[c].said \cup {<<"issuer", kind>>}])
      PROVE  SInv'
  BY Zenon, <1>1, <1>3, ExchangeKinds, ToldSound, MemoKept, OneSound DEF Goto
<1> QED
  BY Zenon, <1>2, <1>3 DEF ExchangeEnds

\* A waiter is told what its leader was told.
LEMMA WokenSound ==
    ASSUME NEW r, Sound(r), r.pc = "waiting", NEW S \in SUBSET Reports,
           NEW o \in {"ok", "unavailable"} \cup Reported("issuer", S)
    PROVE  Sound([r EXCEPT !.outcome = o, !.said = @ \cup S])
<1> DEFINE s == [r EXCEPT !.outcome = o, !.said = @ \cup S]
<1>1. "outcome" \in DOMAIN r /\ "said" \in DOMAIN r /\ "pc" \in DOMAIN r /\ Carries(r)
  BY Zenon DEF Sound, Holds, Carries
<1>2. /\ DOMAIN s = DOMAIN r /\ s.outcome = o /\ s.said = r.said \cup S
      /\ \A y \in DOMAIN r : y \notin {"outcome", "said"} => s[y] = r[y]
  BY Zenon, <1>1
<1> HIDE DEF s
<1>3. s.pc = "waiting" /\ "pc" \in DOMAIN s
  BY <1>1, <1>2
<1>4. Carries(s)
  BY <1>1, <1>2 DEF Carries
<1>5. s.outcome \in {None, "ok", "unavailable"} \cup Reported("issuer", s.said)
  BY <1>2 DEF Reported
<1>6. Sound(s)
  BY Zenon, <1>1, <1>2, <1>3, <1>4, <1>5 DEF Sound, Holds
<1> QED
  BY <1>6 DEF s

\* The leader goes on, and its waiters learn what it was told.
LEMMA SettleSound ==
    ASSUME SInv, NEW c \in Callers, Settle(c)
    PROVE  SInv'
<1> DEFINE o == call[c].outcome
           woken == [d \in Callers |->
                       IF In(d, "waiting") /\ call[d].from = c
                       THEN [call[d] EXCEPT !.outcome = o, !.said = @ \cup call[c].said]
                       ELSE call[d]]
           mine == IF o = "ok" THEN At(c, "send", [live |-> TRUE])
                   ELSE AfterFailure(c, AuthError(o))
<1>1. /\ In(c, "settle") /\ call' = [woken EXCEPT ![c] = mine]
      /\ UNCHANGED <<now, ref, backend, retired, memo>>
  BY Zenon DEF Settle
<1>2. Carries(call[c]) /\ Holds(call[c])
  BY Zenon, <1>1, Underway
<1>3. /\ o \in {"ok", "unavailable"} \cup Reported("issuer", call[c].said)
      /\ call[c].said \subseteq Reports
  BY Zenon, <1>1, <1>2 DEF Holds, Carries, In
<1>4. Sound(mine)
  <2>1. CASE o = "ok"
    <3> DEFINE r == [live |-> TRUE]
               a == At(c, "send", r)
    <3>1. {"pc", "key", "start", "said", "cond", "retry"} \cap DOMAIN r = {}
      OBVIOUS
    <3> HIDE DEF r
    <3>2. Carries(a) /\ a.pc = "send" /\ "pc" \in DOMAIN a
      <4>1. GoesOn(a, c, "send", r, {})
        BY Zenon, <1>2, <3>1, AtCarries
      <4> HIDE DEF a
      <4> QED
        BY <4>1 DEF GoesOn
    <3> HIDE DEF a
    <3>3. Sound(a)
      BY Zenon, <3>2 DEF Sound, Holds
    <3> QED
      BY Zenon, <2>1, <3>3 DEF a, r
  <2>2. CASE o # "ok"
    <3>1. AuthError(o) \in Deserved(call[c].said)
      BY <1>3, <2>2, AuthErrorDeserved
    <3> QED
      BY Zenon, <1>2, <2>2, <3>1, FailureSound
  <2> QED
    BY Zenon, <2>1, <2>2
<1>5. ASSUME NEW d \in Callers PROVE Sound(woken[d])
  <2>1. Sound(call[d])
    BY DEF SInv
  <2>2. CASE In(d, "waiting") /\ call[d].from = c
    <3>1. woken[d] = [call[d] EXCEPT !.outcome = o, !.said = @ \cup call[c].said]
      BY Zenon, <2>2
    <3> QED
      BY Zenon, <1>3, <2>1, <2>2, <3>1, WokenSound DEF In
  <2>3. CASE ~(In(d, "waiting") /\ call[d].from = c)
    <3>1. woken[d] = call[d]
      BY Zenon, <2>3
    <3> QED
      BY <2>1, <3>1
  <2> QED
    BY <2>2, <2>3
<1>6. DOMAIN woken = Callers
  BY Zenon
<1> HIDE DEF woken, mine, o
<1>7. DOMAIN call' = Callers /\ call'[c] = mine /\ \A d \in Callers \ {c} : call'[d] = woken[d]
  BY <1>1, <1>6
<1>8. ASSUME NEW d \in Callers PROVE Sound(call[d])'
  <2>1. CASE d = c
    BY <1>1, <1>4, <1>7, <2>1, SoundKept
  <2>2. CASE d # c
    BY <1>1, <1>5, <1>7, <2>2, SoundKept
  <2> QED
    BY <2>1, <2>2
<1>9. Versioned'
  BY <1>1 DEF SInv, Versioned
<1> QED
  BY <1>1, <1>7, <1>8, <1>9, MemoKept DEF SInv

\* A waiter goes on with its leader's result, or leaves.
LEMMA WaitingSound ==
    ASSUME SInv, NEW c \in Callers, Waiting(c)
    PROVE  SInv'
<1>1. /\ In(c, "waiting") /\ Carries(call[c]) /\ Holds(call[c])
      /\ UNCHANGED <<now, ref, backend, retired>>
  BY Zenon, Underway DEF Waiting
<1>2. call[c].outcome \in {None, "ok", "unavailable"} \cup Reported("issuer", call[c].said)
  BY Zenon, <1>1 DEF Holds, In
<1>3. CASE Goto(c, "send", [live |-> TRUE]) /\ UNCHANGED memo
  <2> DEFINE r == [live |-> TRUE]
  <2>1. {"pc", "key", "start", "said", "cond", "retry"} \cap DOMAIN r = {}
    OBVIOUS
  <2> HIDE DEF r
  <2> QED
    BY Zenon, <1>1, <1>3, <2>1, OnTheWay DEF r
<1>4. CASE call[c].outcome \notin {None, "ok"} /\ Fail(c, AuthError(call[c].outcome))
  BY Zenon, <1>1, <1>2, <1>4, AuthErrorDeserved, FailSound
<1>5. CASE Fail(c, "unavailable")
  BY Zenon, <1>1, <1>5, FailSound DEF Deserved
<1> QED
  BY Zenon, <1>3, <1>4, <1>5 DEF Waiting

\* The API's answer: a value is current, a 304 answers a conditional GET or comes from a
\* proxy in front of a revalidated ref, and a failure is told.
LEMMA SendSound ==
    ASSUME SInv, NEW c \in Callers, Send(c)
    PROVE  SInv'
<1> DEFINE k == call[c].key
           v == backend[k]
<1>1. /\ In(c, "send") /\ Carries(call[c]) /\ k \in Keys
      /\ UNCHANGED <<now, ref, backend, retired, memo>>
  BY Zenon, Underway DEF Send
<1>2. v # None
  BY <1>1, HTTPClientAssumption DEF SInv, Versioned
<1>3. ASSUME NEW st \in {"ok", "not_modified", "unavailable"},
             st = "not_modified" => k \in Revalidated,
             Goto(c, "answer", [status |-> st, body |-> v])
      PROVE  SInv'
  <2> DEFINE r == [status |-> st, body |-> v]
             a == At(c, "answer", r)
  <2>1. /\ {"pc", "key", "start", "said", "cond", "retry"} \cap DOMAIN r = {}
        /\ {"status", "body"} \subseteq DOMAIN r /\ r["status"] = st /\ r["body"] = v
    OBVIOUS
  <2> HIDE DEF r
  <2>2. /\ Carries(a) /\ a.pc = "answer" /\ "pc" \in DOMAIN a
        /\ a.key = k /\ a.start = call[c].start
    <3>1. GoesOn(a, c, "answer", r, {})
      BY Zenon, <1>1, <2>1, AtCarries
    <3> HIDE DEF a
    <3> QED
      BY <3>1 DEF GoesOn
  <2>3. {"status", "body"} \subseteq DOMAIN a /\ a.status = st /\ a.body = v
    BY <2>1, AtFields
  <2>4. call' = [call EXCEPT ![c] = a]
    BY <1>3 DEF Goto, r
  <2> HIDE DEF a
  <2>5. Fresh(k, v, call[c].start)
    BY DEF Fresh
  <2> HIDE DEF k, v
  <2>6. Sound(a)
    BY Zenon, <1>3, <2>2, <2>3, <2>5 DEF Sound, Holds
  <2> QED
    BY Zenon, <1>1, <2>4, <2>6, MemoKept, OneSound
<1>4. ASSUME NEW kind \in Kinds,
             Goto(c, "answer", [status |-> kind, body |-> None, said |-> call[c].said \cup {<<"api", kind>>}])
      PROVE  SInv'
  <2> DEFINE r == [status |-> kind, body |-> None, said |-> call[c].said \cup {<<"api", kind>>}]
             a == At(c, "answer", r)
  <2>1. /\ {"pc", "key", "start", "cond", "retry"} \cap DOMAIN r = {}
        /\ {"status", "body", "said"} \subseteq DOMAIN r /\ r["status"] = kind
        /\ r["said"] = call[c].said \cup {<<"api", kind>>}
    OBVIOUS
  <2> HIDE DEF r
  <2>2. kind \in ErrorKinds /\ kind \notin {"ok", "not_modified"}
    BY HTTPClientAssumption DEF ErrorKinds, KindOrder
  <2>3. Carries(a) /\ a.pc = "answer" /\ "pc" \in DOMAIN a /\ a.said = call[c].said \cup {<<"api", kind>>}
    <3>1. GoesOn(a, c, "answer", r, {<<"api", kind>>})
      BY Zenon, <1>1, <2>1, <2>2, ReportAdds, ToldCarries
    <3> HIDE DEF a
    <3> QED
      BY <3>1 DEF GoesOn
  <2>4. {"status", "body"} \subseteq DOMAIN a /\ a.status = kind
    BY <2>1, AtFields
  <2>5. call' = [call EXCEPT ![c] = a]
    BY Zenon, <1>4 DEF Goto, r
  <2> HIDE DEF a
  <2>6. Sound(a)
    <3>1. kind \in Reported("api", a.said)
      BY <2>2, <2>3, ReportAdds
    <3> QED
      BY Zenon, <2>2, <2>3, <2>4, <3>1 DEF Sound, Holds
  <2> QED
    BY Zenon, <1>1, <2>5, <2>6, MemoKept, OneSound
<1>5. call[c].cond = v => k \in Revalidated
  BY Zenon, <1>1, <1>2 DEF Carries
<1>6. \/ Goto(c, "answer", [status |-> IF call[c].cond = v THEN "not_modified" ELSE "ok", body |-> v])
      \/ \E kind \in Kinds :
            Goto(c, "answer", [status |-> kind, body |-> None, said |-> call[c].said \cup {<<"api", kind>>}])
      \/ k \in Revalidated /\ Goto(c, "answer", [status |-> "not_modified", body |-> v])
      \/ Goto(c, "answer", [status |-> "unavailable", body |-> v])
  BY Zenon DEF Send
<1> QED
  BY Zenon, <1>3, <1>4, <1>5, <1>6

\* Get makes of the answer what it deserves.
LEMMA AnswerSound ==
    ASSUME SInv, NEW c \in Callers, Answer(c)
    PROVE  SInv'
<1> DEFINE k == call[c].key
           st == call[c].status
<1>1. /\ In(c, "answer") /\ Carries(call[c]) /\ Holds(call[c]) /\ k \in Keys
      /\ UNCHANGED <<now, ref, backend, retired>>
  BY Zenon, Underway DEF Answer
<1>2. /\ st \in {"ok", "not_modified", "unavailable"} \cup Reported("api", call[c].said)
      /\ st = "not_modified" => k \notin Memoized
      /\ st = "ok" /\ k \in Memoized => Fresh(k, call[c].body, call[c].start)
  BY Zenon, <1>1, HTTPClientAssumption DEF Holds, In
<1>3. CASE st \in Kinds \cup {"unavailable"} /\ Fail(c, st)
  <2>1. st \notin {"ok", "not_modified"}
    BY <1>3, HTTPClientAssumption DEF ErrorKinds, KindOrder
  <2>2. st \in Deserved(call[c].said)
    BY <1>2, <2>1 DEF Deserved
  <2> QED
    BY Zenon, <1>1, <1>3, <2>2, FailSound
<1>4. CASE st = "not_modified" /\ Succeed(c, Entry(k).body)
  BY Zenon, <1>1, <1>2, <1>4, SucceedSound
<1>5. CASE Goto(c, "auth", [cond |-> None, retry |-> TRUE]) /\ UNCHANGED memo
  <2> DEFINE r == [cond |-> None, retry |-> TRUE]
  <2>1. /\ {"pc", "key", "start", "said"} \cap DOMAIN r = {}
        /\ "cond" \in DOMAIN r /\ r["cond"] = None
    OBVIOUS
  <2> HIDE DEF r
  <2> QED
    BY <1>1, <1>5, <2>1, AuthorizeSound DEF r
<1>6. CASE Unpaired(c)
  BY <1>1, <1>6, FailSound DEF Unpaired, Deserved
<1>7. CASE st = "ok" /\ Succeed(c, call[c].body)
  BY Zenon, <1>1, <1>2, <1>7, SucceedSound
<1> QED
  BY Zenon, <1>3, <1>4, <1>5, <1>6, <1>7 DEF Answer

\* The replica answers now, or its failure is joined to the first.
LEMMA ReplicaSound ==
    ASSUME SInv, NEW c \in Callers, Replica(c)
    PROVE  SInv'
<1> DEFINE k == call[c].key
<1>1. /\ In(c, "replica") /\ Carries(call[c]) /\ Holds(call[c])
      /\ UNCHANGED <<now, ref, backend, retired>>
  BY Zenon, Underway DEF Replica
<1>2. call[c].outcome \in Deserved(call[c].said)
  BY Zenon, <1>1 DEF Holds, Carries, In
<1>3. CASE Succeed(c, backend[k])
  <2>1. Fresh(k, backend[k], call[c].start)
    BY Zenon DEF Fresh
  <2> QED
    BY Zenon, <1>1, <1>3, <2>1, SucceedSound
<1>4. ASSUME NEW kind \in Kinds, UNCHANGED memo,
             Goto(c, "done", [hit |-> FALSE, result |-> Failed(IF kind = "not_found" THEN kind
                                                ELSE JoinedKind({call[c].outcome, kind})),
                              said |-> call[c].said \cup {<<"api", kind>>}])
      PROVE  SInv'
  <2> DEFINE e == IF kind = "not_found" THEN kind ELSE JoinedKind({call[c].outcome, kind})
             r == [hit |-> FALSE, result |-> Failed(e), said |-> call[c].said \cup {<<"api", kind>>}]
             a == At(c, "done", r)
  <2>1. kind \in ErrorKinds /\ call[c].outcome \in ErrorKinds
    BY Zenon, <1>2, DeservedKinds, HTTPClientAssumption
  <2>2. e \in {call[c].outcome, kind}
    BY <2>1, JoinedIsOne
  <2>3. e \in Deserved(call[c].said \cup {<<"api", kind>>})
    <3>1. kind \in Deserved(call[c].said \cup {<<"api", kind>>})
      BY <2>1, ReportAdds, DeservedKinds
    <3>2. call[c].outcome \in Deserved(call[c].said \cup {<<"api", kind>>})
      BY <1>2, DeservedKinds
    <3> QED
      BY <2>2, <3>1, <3>2
  <2>4. call' = [call EXCEPT ![c] = a]
    BY Zenon, <1>4 DEF Goto
  <2> HIDE DEF e
  <2>5. /\ {"pc", "key", "start", "cond", "retry"} \cap DOMAIN r = {}
        /\ {"result", "hit", "said"} \subseteq DOMAIN r /\ r["result"] = Failed(e) /\ r["hit"] = FALSE
        /\ r["said"] = call[c].said \cup {<<"api", kind>>}
    OBVIOUS
  <2> HIDE DEF r
  <2>6. Carries(a) /\ a.pc = "done" /\ "pc" \in DOMAIN a /\ a.said = call[c].said \cup {<<"api", kind>>}
    <3>1. GoesOn(a, c, "done", r, {<<"api", kind>>})
      BY Zenon, <1>1, <2>1, <2>5, ReportAdds, ToldCarries
    <3> HIDE DEF a
    <3> QED
      BY <3>1 DEF GoesOn
  <2>7. {"result", "hit"} \subseteq DOMAIN a /\ a.result = Failed(e) /\ a.hit = FALSE
    BY <2>5, AtFields
  <2>8. Failed(e).ok = FALSE /\ Failed(e).kind = e
    BY DEF Failed
  <2> HIDE DEF a
  <2>9. Sound(a)
    BY Zenon, <2>3, <2>6, <2>7, <2>8 DEF Sound, Holds
  <2> QED
    BY Zenon, <1>1, <1>4, <2>4, <2>9, MemoKept, OneSound
<1> QED
  BY Zenon, <1>3, <1>4 DEF Replica

\* A call is over.
LEMMA LeaveSound ==
    ASSUME SInv, NEW c \in Callers, Leave(c)
    PROVE  SInv'
<1>1. Sound(Idle)
  BY DEF Sound, Idle
<1> QED
  BY Zenon, <1>1, MemoKept, OneSound DEF Leave

\* A cancellation tells nothing.
LEMMA CancelSound ==
    ASSUME SInv, NEW c \in Callers, Cancel(c)
    PROVE  SInv'
<1> DEFINE r == [call[c] EXCEPT !.cancelled = TRUE]
<1>1. Sound(r)
  BY TouchedSound DEF SInv
<1>2. call' = [call EXCEPT ![c] = r] /\ UNCHANGED <<now, ref, backend, retired, memo>>
  BY DEF Cancel
<1> HIDE DEF r
<1> QED
  BY Zenon, <1>1, <1>2, MemoKept, OneSound

\* A version that stops being served was served until now.
LEMMA FreshMoves ==
    ASSUME SInv, NEW j \in Keys, BackendMoves(j), NEW k \in Memoized, NEW v, NEW t \in Int,
           t <= now, Fresh(k, v, t)
    PROVE  \/ v = backend'[k]
           \/ v \in 1 .. Len(retired'[k]) /\ retired'[k][v] >= t
<1>1. /\ DOMAIN backend = Keys /\ DOMAIN retired = Keys /\ k \in Keys /\ now \in Nat
      /\ retired[k] \in Seq(Nat) /\ backend[k] = Len(retired[k]) + 1
  BY Zenon, HTTPClientAssumption DEF SInv, Versioned
<1>2. CASE k # j
  <2>1. backend'[k] = backend[k] /\ retired'[k] = retired[k]
    BY <1>1, <1>2 DEF BackendMoves
  <2> QED
    BY Zenon, <2>1 DEF Fresh
<1>3. CASE k = j
  <2>1. retired'[k] = Append(retired[k], now)
    BY <1>1, <1>3 DEF BackendMoves
  <2> DEFINE s == retired[k]
             s1 == Append(s, now)
  <2>2. Len(s) \in Nat /\ Len(s1) = Len(s) + 1 /\ s1[Len(s) + 1] = now
        /\ \A i \in 1 .. Len(s) : s1[i] = s[i]
    BY <1>1
  <2>3. v = Len(s) + 1 \/ (v \in 1 .. Len(s) /\ s[v] >= t)
    BY <1>1 DEF Fresh
  <2> HIDE DEF s, s1
  <2>4. v \in 1 .. Len(s1) /\ s1[v] >= t
    BY <1>1, <2>2, <2>3
  <2> QED
    BY <2>1, <2>4 DEF s, s1
<1> QED
  BY <1>2, <1>3

\* The calls and the cache's entries stay as fresh as they were.
LEMMA BackendSound ==
    ASSUME SInv, NEW j \in Keys, BackendMoves(j)
    PROVE  SInv'
<1>1. UNCHANGED <<now, ref, memo>> /\ now \in Nat /\ TTL \in Nat /\ Memoized \subseteq Keys
  BY HTTPClientAssumption DEF BackendMoves, SInv
<1>2. Versioned'
  <2>1. /\ DOMAIN backend' = Keys /\ DOMAIN retired' = Keys
        /\ \A k \in Keys \ {j} : backend'[k] = backend[k] /\ retired'[k] = retired[k]
        /\ backend'[j] = backend[j] + 1
    BY DEF BackendMoves, SInv, Versioned
  <2>2. PICK n \in Nat : retired'[j] = Append(retired[j], n)
    BY <1>1 DEF BackendMoves, SInv, Versioned
  <2>3. retired[j] \in Seq(Nat) /\ backend[j] = Len(retired[j]) + 1
    BY DEF SInv, Versioned
  <2>4. retired'[j] \in Seq(Nat) /\ backend'[j] = Len(retired'[j]) + 1
    BY <2>1, <2>2, <2>3
  <2> QED
    BY Zenon, <2>1, <2>4 DEF SInv, Versioned
<1>3. MemoDated'
  <2> SUFFICES ASSUME NEW k \in Memoized, memo[k] # None
               PROVE  /\ memo[k].expires \in Int /\ memo[k].expires - TTL <= now
                      /\ Fresh(k, memo[k].val, memo[k].expires - TTL)'
    BY <1>1 DEF MemoDated
  <2>1. /\ memo[k].expires \in Int /\ memo[k].expires - TTL <= now
        /\ Fresh(k, memo[k].val, memo[k].expires - TTL)
    BY Zenon DEF SInv, MemoDated
  <2>2. memo[k].expires - TTL \in Int
    BY <1>1, <2>1
  <2> QED
    BY Zenon, <1>1, <2>1, <2>2, FreshMoves DEF Fresh
<1>4. ASSUME NEW c \in Callers, NEW r, Sound(r), call'[c] = r PROVE Sound(call[c])'
  <2>1. "pc" \in DOMAIN r /\ (r.pc # "idle" => Carries(r) /\ Holds(r))
    BY <1>4 DEF Sound
  <2>2. r.pc # "idle" => Carries(call[c])'
    BY Zenon, <1>1, <1>4, <2>1 DEF Carries
  <2>3. ASSUME r.pc = "answer", r.status = "ok", r.key \in Memoized
        PROVE  Fresh(call[c].key, call[c].body, call[c].start)'
    <3>1. Fresh(r.key, r.body, r.start) /\ r.start \in Nat /\ r.start <= now
      BY Zenon, <2>1, <2>3 DEF Holds, Carries
    <3>2. r.start \in Int
      BY <3>1
    <3>3. \/ r.body = backend'[r.key]
          \/ r.body \in 1 .. Len(retired'[r.key]) /\ retired'[r.key][r.body] >= r.start
      BY Zenon, <2>3, <3>1, <3>2, FreshMoves
    <3> QED
      BY Zenon, <1>4, <3>3 DEF Fresh
  <2>4. ASSUME r.pc = "done", r.hit
        PROVE  /\ r.key \in Memoized /\ r.start - TTL < now
               /\ Fresh(call[c].key, call[c].result.body, call[c].start - TTL + 1)'
    <3>1. /\ Fresh(r.key, r.result.body, r.start - TTL + 1) /\ r.key \in Memoized
          /\ r.start \in Nat /\ r.start - TTL < now
      BY Zenon, <2>1, <2>4 DEF Holds, Carries
    <3>2. r.start - TTL + 1 \in Int /\ r.start - TTL + 1 <= now
      BY <1>1, <3>1
    <3> DEFINE t == r.start - TTL + 1
    <3>3. t \in Int /\ t <= now /\ Fresh(r.key, r.result.body, t)
      BY <3>1, <3>2
    <3> HIDE DEF t
    <3>4. \/ r.result.body = backend'[r.key]
          \/ r.result.body \in 1 .. Len(retired'[r.key]) /\ retired'[r.key][r.result.body] >= t
      BY Zenon, <3>1, <3>3, FreshMoves
    <3> QED
      BY Zenon, <1>4, <3>1, <3>4 DEF Fresh, t
  <2>5. r.pc # "idle" => Holds(call[c])'
    BY Zenon, <1>1, <1>4, <2>1, <2>3, <2>4 DEF Holds
  <2> QED
    BY Zenon, <1>4, <2>1, <2>2, <2>5 DEF Sound
<1>5. DOMAIN call' = Callers
  BY DEF BackendMoves
<1>6. ASSUME NEW c \in Callers PROVE Sound(call[c])'
  <2>1. Sound(call[c])
    BY DEF SInv
  <2>2. CASE ~In(c, "idle") /\ call[c].key = j /\ call[c].alone
    <3> DEFINE u == call[c].current \cup {backend[j] + 1}
    <3>1. call'[c] = [call[c] EXCEPT !.current = u]
      BY <2>2 DEF BackendMoves
    <3> HIDE DEF u
    <3>2. Sound([call[c] EXCEPT !.current = u])
      BY <2>1, TouchedSound
    <3> QED
      BY <1>4, <3>1, <3>2
  <2>3. CASE ~(~In(c, "idle") /\ call[c].key = j /\ call[c].alone)
    <3>1. call'[c] = call[c]
      BY Zenon, <2>3 DEF BackendMoves
    <3> QED
      BY <1>4, <2>1, <3>1
  <2> QED
    BY Zenon, <2>2, <2>3
<1>7. ref' \in Programs /\ DOMAIN memo' = Keys /\ now' \in Nat
  BY <1>1 DEF SInv
<1> QED
  BY Zenon, <1>2, <1>3, <1>5, <1>6, <1>7 DEF SInv

\* Time only makes starts older.
LEMMA TickSound ==
    ASSUME SInv, Tick
    PROVE  SInv'
<1>1. now \in Nat /\ now' = now + 1 /\ UNCHANGED <<ref, backend, retired, memo, call>>
      /\ TTL \in Nat
  BY Zenon, HTTPClientAssumption DEF Tick, SInv
<1>2. MemoDated'
  BY <1>1 DEF SInv, MemoDated, Fresh
<1>3. Versioned'
  BY Zenon, <1>1 DEF SInv, Versioned
<1>4. ASSUME NEW c \in Callers PROVE Sound(call[c])'
  <2> DEFINE r == call[c]
  <2>1. "pc" \in DOMAIN r /\ (r.pc # "idle" => Carries(r) /\ Holds(r)) /\ call'[c] = r
    BY Zenon, <1>1 DEF SInv, Sound
  <2> HIDE DEF r
  <2>2. r.pc # "idle" => Carries(call[c])'
    BY <1>1, <2>1 DEF Carries
  <2>3. ASSUME r.pc = "done", r.hit PROVE r.start - TTL < now'
    <3>1. r.start - TTL < now /\ r.start \in Nat
      BY Zenon, <2>1, <2>3 DEF Holds, Carries
    <3> QED
      BY <1>1, <3>1
  <2>4. r.pc # "idle" => Holds(call[c])'
    BY Zenon, <1>1, <2>1, <2>3 DEF Holds, Fresh
  <2> QED
    BY Zenon, <2>1, <2>2, <2>4 DEF Sound
<1>5. now' \in Nat /\ ref' \in Programs /\ DOMAIN memo' = Keys /\ DOMAIN call' = Callers
  BY <1>1 DEF SInv
<1> QED
  BY Zenon, <1>2, <1>3, <1>4, <1>5 DEF SInv

\* No call has begun and nothing is cached.
LEMMA SInit == Init => SInv
<1> SUFFICES ASSUME Init PROVE SInv
  OBVIOUS
<1>1. \A c \in Callers : call[c] = Idle
  BY Zenon DEF Init
<1>2. Sound(Idle)
  BY DEF Sound, Idle
<1>3. Versioned
  BY DEF Init, Versioned
<1>4. MemoDated /\ DOMAIN memo = Keys
  BY Zenon, HTTPClientAssumption DEF Init, MemoDated
<1>5. now \in Nat /\ ref \in Programs /\ DOMAIN call = Callers
  BY DEF Init
<1> QED
  BY Zenon, <1>1, <1>2, <1>3, <1>4, <1>5 DEF SInv

\* Every step keeps the calls and the cache sound.
LEMMA SNext == SInv /\ [Next]_vars => SInv'
<1> SUFFICES ASSUME SInv, [Next]_vars PROVE SInv'
  OBVIOUS
<1>1. \A c \in Callers : ref[c] \in Keys
  BY HTTPClientAssumption DEF SInv
<1>2. ASSUME NEW c \in Callers, Step(c) PROVE SInv'
  BY Zenon, <1>2, LimitedSound, AuthSound, ExchangeEndsSound, SettleSound, WaitingSound, SendSound,
     AnswerSound, ReplicaSound, LeaveSound DEF Step
<1>3. ASSUME NEW c \in Callers, Resolve(c, ref[c]) PROVE SInv'
  BY Zenon, <1>1, <1>3, ResolveSound
<1>4. ASSUME NEW k \in {ref[c] : c \in Callers}, BackendMoves(k) PROVE SInv'
  <2>1. k \in Keys
    BY Zenon, <1>1
  <2> QED
    BY Zenon, <1>4, <2>1, BackendSound
<1>5. CASE UNCHANGED vars
  <2>1. UNCHANGED <<now, ref, backend, retired, memo, call>>
    BY <1>5 DEF vars
  <2>2. ASSUME NEW c \in Callers PROVE Sound(call[c])'
    BY <2>1, SoundKept DEF SInv
  <2>3. Versioned'
    BY Zenon, <2>1 DEF SInv, Versioned
  <2>4. now' \in Nat /\ ref' \in Programs /\ DOMAIN call' = Callers
    BY <2>1 DEF SInv
  <2> QED
    BY Zenon, <2>1, <2>2, <2>3, <2>4, MemoKept DEF SInv
<1> QED
  BY Zenon, <1>2, <1>3, <1>4, <1>5, CancelSound, TickSound DEF Next

\* For any callers, refs, providers, kinds of failure and cancellations: a call fails with
\* a kind it was told, a transient one, or unauthenticated where the credentials failed
\* without a kind (authError, tokenFor, Failover).
THEOREM KindsAreDeserved == Spec => []KindIsDeserved
<1>1. SInv => KindIsDeserved
  BY Zenon DEF SInv, Sound, Holds, KindIsDeserved, Done, In
<1>2. Spec => Init /\ [][Next]_vars
  BY DEF Spec
<1> QED
  BY <1>1, <1>2, SInit, SNext, PTL

\* For every lifetime and spacing, and however long the reads that fill the cache take:
\* a hit is a version that was served less than TTL before it (middleware.Cache).
THEOREM CacheIsFresh == Spec => []BoundedStaleness
<1>1. SInv => BoundedStaleness
  <2> SUFFICES ASSUME SInv, NEW c \in Callers, In(c, "done"), call[c].hit
               PROVE  \/ call[c].result.body = backend[call[c].key]
                      \/ retired[call[c].key][call[c].result.body] > call[c].start - TTL
    BY Zenon DEF BoundedStaleness, Done
  <2> DEFINE r == call[c]
             n == retired[r.key][r.result.body]
  <2>1. /\ Fresh(r.key, r.result.body, r.start - TTL + 1) /\ r.start \in Nat /\ r.key \in Keys
    BY Zenon DEF SInv, Sound, Holds, Carries, In
  <2>2. TTL \in Nat /\ retired[r.key] \in Seq(Nat)
    BY Zenon, <2>1, HTTPClientAssumption DEF SInv, Versioned
  <2> HIDE DEF r
  <2>3. CASE r.result.body = backend[r.key]
    BY <2>3 DEF r
  <2>4. CASE r.result.body # backend[r.key]
    <3>1. r.result.body \in 1 .. Len(retired[r.key]) /\ n >= r.start - TTL + 1
      BY <2>1, <2>4 DEF Fresh
    <3>2. n \in Nat
      BY <2>2, <3>1
    <3> HIDE DEF n
    <3>3. n > r.start - TTL
      BY <2>1, <2>2, <3>1, <3>2
    <3> QED
      BY Zenon, <3>3 DEF r, n
  <2> QED
    BY Zenon, <2>3, <2>4
<1>2. Spec => Init /\ [][Next]_vars
  BY DEF Spec
<1> QED
  BY <1>1, <1>2, SInit, SNext, PTL
=============================================================================
