------------------------- MODULE HTTPClientProofs --------------------------
(* One token exchange at a time, never a dead token from the cache, and answers *)
(* that were current while the call ran: for any number of callers, any         *)
(* programs, lifetimes, leeways and sizes of the Revalidator's list.            *)
EXTENDS HTTPClient, SequenceTheorems, TLAPS

\* What a caller's record holds where the proofs look.
Caller(r) ==
    /\ "pc" \in DOMAIN r
    /\ r.pc = "exchange" => "began" \in DOMAIN r /\ r.began \in Nat
    /\ r.pc = "send" => "live" \in DOMAIN r /\ r.live = TRUE

\* The exchange a caller makes is young, and the one the others wait for.
Exchanging(c) ==
    In(c, "exchange") => /\ now <= call[c].began + ExchangeBound
                         /\ Sharing => inflight = c

\* The client's reckoning of a token's end is late by at most what an exchange takes.
TokenDated ==
    token # None => /\ token.expires \in Int /\ token.ends \in Int
                    /\ token.expires <= token.ends + ExchangeBound

TInv ==
    /\ now \in Nat /\ DOMAIN call = Callers
    /\ \A c \in Callers : Caller(call[c])
    /\ \A c \in Callers : Exchanging(c)
    /\ TokenDated

-----------------------------------------------------------------------------
(* The records.                                                                 *)

\* At puts the fields it is given over the ones a call keeps.
LEMMA AtFields ==
    ASSUME NEW c, NEW pc, NEW r, "pc" \notin DOMAIN r
    PROVE  /\ At(c, pc, r).pc = pc
           /\ "pc" \in DOMAIN At(c, pc, r)
           /\ \A x \in DOMAIN r : At(c, pc, r)[x] = r[x] /\ x \in DOMAIN At(c, pc, r)
<1>1. "pc" \in DOMAIN Kept(c, pc) /\ Kept(c, pc)["pc"] = pc
  BY DEF Kept
<1> QED
  BY <1>1 DEF At, Over

\* Elsewhere than at an exchange or a request nothing is asked of a record.
LEMMA AtCaller ==
    ASSUME NEW c, NEW pc, NEW r, "pc" \notin DOMAIN r, pc \notin {"exchange", "send"}
    PROVE  Caller(At(c, pc, r)) /\ At(c, pc, r).pc = pc
BY AtFields DEF Caller

\* A field the proofs do not look at may change.
LEMMA Touched1 ==
    ASSUME NEW r, Caller(r), NEW x, x \notin {"pc", "began", "live"}, NEW v
    PROVE  /\ Caller([r EXCEPT ![x] = v])
           /\ [r EXCEPT ![x] = v].pc = r.pc
           /\ r.pc = "exchange" => [r EXCEPT ![x] = v].began = r.began
<1>1. [r EXCEPT ![x] = v].pc = r.pc /\ DOMAIN [r EXCEPT ![x] = v] = DOMAIN r
  BY DEF Caller
<1>2. r.pc = "exchange" => [r EXCEPT ![x] = v].began = r.began
  BY DEF Caller
<1>3. r.pc = "send" => [r EXCEPT ![x] = v].live = r.live
  BY DEF Caller
<1> QED
  BY <1>1, <1>2, <1>3 DEF Caller

-----------------------------------------------------------------------------
(* The steps.                                                                   *)

\* A step that leaves token, exchange and clock alone, and brings nobody to an exchange.
LEMMA QuietStep ==
    ASSUME TInv, UNCHANGED <<now, ref, token, inflight>>, DOMAIN call' = Callers,
           \A d \in Callers : /\ Caller(call'[d])
                              /\ call'[d].pc = "exchange" => /\ call[d].pc = "exchange"
                                                             /\ call'[d].began = call[d].began
    PROVE  TInv'
<1>1. Sharing' = Sharing /\ ExchangeBound' = ExchangeBound
  BY DEF Sharing, ExchangeBound
<1>2. ASSUME NEW d \in Callers PROVE Exchanging(d)'
  BY <1>1 DEF TInv, Exchanging, In
<1>3. TokenDated'
  BY <1>1 DEF TInv, TokenDated
<1> QED
  BY <1>2, <1>3 DEF TInv

\* One caller goes on, and to neither an exchange nor a request.
LEMMA OneGoesOn ==
    ASSUME TInv, UNCHANGED <<now, ref, token, inflight>>, NEW c \in Callers, NEW r,
           Caller(r), r.pc # "exchange", call' = [call EXCEPT ![c] = r]
    PROVE  TInv'
<1>1. DOMAIN call' = Callers /\ call'[c] = r /\ \A d \in Callers \ {c} : call'[d] = call[d]
  BY DEF TInv
<1>2. \A d \in Callers : /\ Caller(call'[d])
                         /\ call'[d].pc = "exchange" => /\ call[d].pc = "exchange"
                                                        /\ call'[d].began = call[d].began
  BY <1>1 DEF TInv
<1> QED
  BY <1>1, <1>2, QuietStep

\* A call begins.
LEMMA BegunCaller ==
    ASSUME NEW c, NEW k, NEW r, "pc" \in DOMAIN r, r.pc \notin {"exchange", "send"}
    PROVE  Caller(Over(r, Begun(c, k))) /\ Over(r, Begun(c, k)).pc = r.pc
BY DEF Over, Caller

\* A call begins, which changes the record of every call of the same ref.
LEMMA JoinedStep ==
    ASSUME TInv, UNCHANGED <<now, ref, token, inflight>>, NEW c \in Callers, NEW k, NEW r,
           Caller(r), r.pc # "exchange", call' = Joined(c, k, r)
    PROVE  TInv'
<1>1. DOMAIN call' = Callers
  BY Zenon DEF Joined
<1>2. ASSUME NEW d \in Callers
      PROVE  /\ Caller(call'[d])
             /\ call'[d].pc = "exchange" => /\ call[d].pc = "exchange"
                                            /\ call'[d].began = call[d].began
  <2>1. CASE d = c
    BY Zenon, <2>1 DEF Joined
  <2>2. CASE d # c /\ ~In(d, "idle") /\ call[d].key = k
    <3> DEFINE r1 == [call[d] EXCEPT !.alone = FALSE]
               r2 == [r1 EXCEPT !.current = {}]
    <3>1. call'[d] = r2
      BY Zenon, <2>2 DEF Joined
    <3>2. Caller(r1) /\ r1.pc = call[d].pc /\ (call[d].pc = "exchange" => r1.began = call[d].began)
      BY Touched1 DEF TInv
    <3> HIDE DEF r1
    <3>3. Caller(r2) /\ r2.pc = r1.pc /\ (r1.pc = "exchange" => r2.began = r1.began)
      BY <3>2, Touched1
    <3> QED
      BY <3>1, <3>2, <3>3
  <2>3. CASE d # c /\ ~(~In(d, "idle") /\ call[d].key = k)
    BY Zenon, <2>3 DEF Joined, TInv
  <2> QED
    BY <2>1, <2>2, <2>3
<1> QED
  BY <1>1, <1>2, QuietStep

\* Resolve: a fresh cache entry ends the call, anything else goes to the limiter.
LEMMA ResolveStep ==
    ASSUME TInv, NEW c \in Callers, NEW k, Resolve(c, k)
    PROVE  TInv'
<1>1. UNCHANGED <<now, ref, token, inflight>>
  BY DEF Resolve
<1>2. CASE call' = Joined(c, k, Over([pc |-> "done", result |-> Ok(memo[k].val), hit |-> TRUE],
                                     Begun(c, k)))
  <2> DEFINE r == [pc |-> "done", result |-> Ok(memo[k].val), hit |-> TRUE]
  <2>1. "pc" \in DOMAIN r /\ r.pc \notin {"exchange", "send"}
    OBVIOUS
  <2> HIDE DEF r
  <2>2. Caller(Over(r, Begun(c, k))) /\ Over(r, Begun(c, k)).pc # "exchange"
    BY <2>1, BegunCaller
  <2> QED
    BY Zenon, <1>1, <1>2, <2>2, JoinedStep DEF r
<1>3. CASE call' = Joined(c, k, Over([pc |-> "limited", slot |-> IF MustSpace(k) THEN Slot(k) ELSE 0],
                                     Begun(c, k)))
  <2> DEFINE r == [pc |-> "limited", slot |-> IF MustSpace(k) THEN Slot(k) ELSE 0]
  <2>1. "pc" \in DOMAIN r /\ r.pc \notin {"exchange", "send"}
    OBVIOUS
  <2> HIDE DEF r
  <2>2. Caller(Over(r, Begun(c, k))) /\ Over(r, Begun(c, k)).pc # "exchange"
    BY <2>1, BegunCaller
  <2> QED
    BY <1>1, <1>3, <2>2, JoinedStep DEF r
<1> QED
  BY <1>2, <1>3 DEF Resolve

\* A request with a live token.
LEMMA LiveCaller ==
    ASSUME NEW c
    PROVE  Caller(At(c, "send", [live |-> TRUE])) /\ At(c, "send", [live |-> TRUE]).pc = "send"
<1> DEFINE r == [live |-> TRUE]
<1>1. "pc" \notin DOMAIN r /\ "live" \in DOMAIN r /\ r["live"] = TRUE
  OBVIOUS
<1> HIDE DEF r
<1>2. /\ At(c, "send", r).pc = "send" /\ "pc" \in DOMAIN At(c, "send", r)
      /\ At(c, "send", r)["live"] = TRUE /\ "live" \in DOMAIN At(c, "send", r)
  BY <1>1, AtFields
<1>3. Caller(At(c, "send", r)) /\ At(c, "send", r).pc = "send"
  BY <1>2 DEF Caller
<1> QED
  BY <1>3 DEF r

\* A caller goes on to its request with a live token.
LEMMA SendStep ==
    ASSUME TInv, UNCHANGED <<now, ref, token, inflight>>, NEW c \in Callers,
           call' = [call EXCEPT ![c] = At(c, "send", [live |-> TRUE])]
    PROVE  TInv'
<1>1. Caller(At(c, "send", [live |-> TRUE])) /\ At(c, "send", [live |-> TRUE]).pc # "exchange"
  BY LiveCaller
<1> QED
  BY Zenon, <1>1, OneGoesOn

\* A failed attempt ends the call or goes to the replica.
LEMMA FailCaller ==
    ASSUME NEW c, NEW kind
    PROVE  Caller(AfterFailure(c, kind)) /\ AfterFailure(c, kind).pc \notin {"exchange", "send"}
<1>1. "pc" \notin DOMAIN [outcome |-> kind]
  OBVIOUS
<1>2. "pc" \notin DOMAIN [result |-> Failed(kind), hit |-> FALSE]
  OBVIOUS
<1>3. Caller(At(c, "replica", [outcome |-> kind])) /\ At(c, "replica", [outcome |-> kind]).pc = "replica"
  BY <1>1, AtCaller
<1>4. /\ Caller(At(c, "done", [result |-> Failed(kind), hit |-> FALSE]))
      /\ At(c, "done", [result |-> Failed(kind), hit |-> FALSE]).pc = "done"
  BY <1>2, AtCaller
<1> QED
  BY <1>3, <1>4 DEF AfterFailure

\* A failure ends a caller's attempt.
LEMMA FailStep ==
    ASSUME TInv, UNCHANGED <<now, ref, token, inflight>>, NEW c \in Callers, NEW kind, Fail(c, kind)
    PROVE  TInv'
BY Zenon, FailCaller, OneGoesOn DEF Fail

\* A value ends a caller's call.
LEMMA SucceedStep ==
    ASSUME TInv, UNCHANGED <<now, ref, token, inflight>>, NEW c \in Callers, NEW v, Succeed(c, v)
    PROVE  TInv'
<1> DEFINE r == [hit |-> FALSE, result |-> Ok(v)]
<1>1. "pc" \notin DOMAIN r
  OBVIOUS
<1>2. call' = [call EXCEPT ![c] = At(c, "done", r)]
  BY DEF Succeed, Goto
<1> HIDE DEF r
<1>3. Caller(At(c, "done", r)) /\ At(c, "done", r).pc # "exchange"
  BY <1>1, AtCaller
<1> QED
  BY Zenon, <1>2, <1>3, OneGoesOn

\* The limiter lets a caller through, or its context ends the wait.
LEMMA LimitedStep ==
    ASSUME TInv, NEW c \in Callers, Limited(c)
    PROVE  TInv'
<1> DEFINE r == [cond |-> Validators(call[c].key)]
           s == [hit |-> FALSE, result |-> Failed("unknown")]
<1>1. UNCHANGED <<now, ref, token, inflight>>
  BY DEF Limited
<1>2. "pc" \notin DOMAIN r /\ "pc" \notin DOMAIN s
  OBVIOUS
<1>3. \/ call' = [call EXCEPT ![c] = At(c, "auth", r)]
      \/ call' = [call EXCEPT ![c] = At(c, "done", s)]
  BY DEF Limited, Goto
<1> HIDE DEF r, s
<1>4. /\ Caller(At(c, "auth", r)) /\ At(c, "auth", r).pc # "exchange"
      /\ Caller(At(c, "done", s)) /\ At(c, "done", s).pc # "exchange"
  BY <1>2, AtCaller
<1> QED
  BY <1>1, <1>3, <1>4, OneGoesOn

\* A caller that waited for another's exchange takes its outcome, or gives up.
LEMMA WaitingStep ==
    ASSUME TInv, NEW c \in Callers, Waiting(c)
    PROVE  TInv'
<1>1. UNCHANGED <<now, ref, token, inflight>>
  BY DEF Waiting
<1>2. CASE Goto(c, "send", [live |-> TRUE])
  BY Zenon, <1>1, <1>2, SendStep DEF Goto
<1>3. CASE Fail(c, AuthError(call[c].outcome))
  BY <1>1, <1>3, FailStep
<1>4. CASE Fail(c, "unavailable")
  BY <1>1, <1>4, FailStep
<1> QED
  BY <1>2, <1>3, <1>4 DEF Waiting

\* The caller that made the exchange hands its outcome to those who wait.
LEMMA SettleStep ==
    ASSUME TInv, NEW c \in Callers, Settle(c)
    PROVE  TInv'
<1> DEFINE o == call[c].outcome
           woken == [d \in Callers |->
                       IF In(d, "waiting") /\ call[d].from = c
                       THEN [call[d] EXCEPT !.outcome = o, !.said = @ \cup call[c].said]
                       ELSE call[d]]
           r == IF o = "ok" THEN At(c, "send", [live |-> TRUE]) ELSE AfterFailure(c, AuthError(o))
<1>1. UNCHANGED <<now, ref, token, inflight>>
  BY Zenon DEF Settle
<1>2. call' = [woken EXCEPT ![c] = r]
  BY Zenon DEF Settle
<1>3. Caller(r) /\ r.pc # "exchange"
  <2>1. Caller(AfterFailure(c, AuthError(o))) /\ AfterFailure(c, AuthError(o)).pc # "exchange"
    BY FailCaller
  <2>2. Caller(At(c, "send", [live |-> TRUE])) /\ At(c, "send", [live |-> TRUE]).pc # "exchange"
    BY LiveCaller
  <2> QED
    BY <2>1, <2>2
<1>4. ASSUME NEW d \in Callers
      PROVE  /\ Caller(woken[d])
             /\ woken[d].pc = call[d].pc
             /\ woken[d].pc = "exchange" => woken[d].began = call[d].began
  <2>1. CASE In(d, "waiting") /\ call[d].from = c
    <3> DEFINE r1 == [call[d] EXCEPT !.outcome = o]
               u == r1.said \cup call[c].said
               r2 == [r1 EXCEPT !.said = u]
    <3>1. woken[d] = r2
      BY <2>1
    <3>2. Caller(r1) /\ r1.pc = call[d].pc
      BY Touched1 DEF TInv
    <3> HIDE DEF r1, u
    <3>3. Caller(r2) /\ r2.pc = r1.pc
      BY <3>2, Touched1
    <3> HIDE DEF r2, woken
    <3> QED
      BY <2>1, <3>1, <3>2, <3>3 DEF In
  <2>2. CASE ~(In(d, "waiting") /\ call[d].from = c)
    BY <2>2 DEF TInv
  <2> QED
    BY <2>1, <2>2
<1>5. DOMAIN woken = Callers
  OBVIOUS
<1> HIDE DEF woken, r
<1>6. DOMAIN call' = Callers /\ call'[c] = r /\ \A d \in Callers \ {c} : call'[d] = woken[d]
  BY <1>2, <1>5
<1>7. \A d \in Callers : /\ Caller(call'[d])
                         /\ call'[d].pc = "exchange" => /\ call[d].pc = "exchange"
                                                        /\ call'[d].began = call[d].began
  BY <1>3, <1>4, <1>6
<1> QED
  BY <1>1, <1>6, <1>7, QuietStep

\* An answer carries a status, whatever else.
LEMMA SendingStep ==
    ASSUME TInv, NEW c \in Callers, Send(c)
    PROVE  TInv'
<1>1. UNCHANGED <<now, ref, token, inflight>>
  BY Zenon DEF Send
<1>2. \E r : "pc" \notin DOMAIN r /\ call' = [call EXCEPT ![c] = At(c, "answer", r)]
  <2>1. ASSUME NEW s, NEW v, Goto(c, "answer", [status |-> s, body |-> v])
        PROVE  \E r : "pc" \notin DOMAIN r /\ call' = [call EXCEPT ![c] = At(c, "answer", r)]
    <3>1. "pc" \notin DOMAIN [status |-> s, body |-> v]
      OBVIOUS
    <3> QED
      BY Zenon, <2>1, <3>1 DEF Goto
  <2>2. ASSUME NEW s, NEW v, NEW w, Goto(c, "answer", [status |-> s, body |-> v, said |-> w])
        PROVE  \E r : "pc" \notin DOMAIN r /\ call' = [call EXCEPT ![c] = At(c, "answer", r)]
    <3>1. "pc" \notin DOMAIN [status |-> s, body |-> v, said |-> w]
      OBVIOUS
    <3> QED
      BY Zenon, <2>2, <3>1 DEF Goto
  <2> QED
    BY Zenon, <2>1, <2>2 DEF Send
<1>3. PICK r : "pc" \notin DOMAIN r /\ call' = [call EXCEPT ![c] = At(c, "answer", r)]
  BY Zenon, <1>2
<1>4. Caller(At(c, "answer", r)) /\ At(c, "answer", r).pc # "exchange"
  BY <1>3, AtCaller
<1> QED
  BY Zenon, <1>1, <1>3, <1>4, OneGoesOn

\* An answer ends the call, or is asked for again without validators.
LEMMA AnswerStep ==
    ASSUME TInv, NEW c \in Callers, Answer(c)
    PROVE  TInv'
<1> DEFINE again == [cond |-> None, retry |-> TRUE]
<1>1. UNCHANGED <<now, ref, token, inflight>>
  BY Zenon DEF Answer
<1>2. \/ \E kind : Fail(c, kind)
      \/ \E v : Succeed(c, v)
      \/ call' = [call EXCEPT ![c] = At(c, "auth", again)]
  BY Zenon DEF Answer, Unpaired, Goto
<1>3. "pc" \notin DOMAIN again
  OBVIOUS
<1> HIDE DEF again
<1>4. CASE \E kind : Fail(c, kind)
  BY <1>1, <1>4, FailStep
<1>5. CASE \E v : Succeed(c, v)
  BY <1>1, <1>5, SucceedStep
<1>6. CASE call' = [call EXCEPT ![c] = At(c, "auth", again)]
  <2>1. Caller(At(c, "auth", again)) /\ At(c, "auth", again).pc # "exchange"
    BY <1>3, AtCaller
  <2> QED
    BY Zenon, <1>1, <1>6, <2>1, OneGoesOn
<1> QED
  BY <1>2, <1>4, <1>5, <1>6

\* The replica's answer ends the call.
LEMMA ReplicaStep ==
    ASSUME TInv, NEW c \in Callers, Replica(c)
    PROVE  TInv'
<1>1. UNCHANGED <<now, ref, token, inflight>>
  BY Zenon DEF Replica
<1>2. CASE Succeed(c, backend[call[c].key])
  BY <1>1, <1>2, SucceedStep
<1>3. ASSUME NEW f, NEW u, Goto(c, "done", [hit |-> FALSE, result |-> f, said |-> u])
      PROVE  TInv'
  <2> DEFINE r == [hit |-> FALSE, result |-> f, said |-> u]
  <2>1. "pc" \notin DOMAIN r
    OBVIOUS
  <2>2. call' = [call EXCEPT ![c] = At(c, "done", r)]
    BY <1>3 DEF Goto
  <2> HIDE DEF r
  <2>3. Caller(At(c, "done", r)) /\ At(c, "done", r).pc # "exchange"
    BY <2>1, AtCaller
  <2> QED
    BY Zenon, <1>1, <2>2, <2>3, OneGoesOn
<1> QED
  BY Zenon, <1>2, <1>3 DEF Replica

\* The caller takes its result.
LEMMA LeaveStep ==
    ASSUME TInv, NEW c \in Callers, Leave(c)
    PROVE  TInv'
<1>1. Caller(Idle) /\ Idle.pc # "exchange"
  BY DEF Idle, Caller
<1> QED
  BY Zenon, <1>1, OneGoesOn DEF Leave

\* A context is cancelled.
LEMMA CancelStep ==
    ASSUME TInv, NEW c \in Callers, Cancel(c)
    PROVE  TInv'
<1> DEFINE r == [call[c] EXCEPT !.cancelled = TRUE]
<1>1. Caller(r) /\ r.pc = call[c].pc /\ (call[c].pc = "exchange" => r.began = call[c].began)
  BY Touched1 DEF TInv
<1>2. call' = [call EXCEPT ![c] = r]
  BY DEF Cancel
<1> HIDE DEF r
<1>3. DOMAIN call' = Callers /\ call'[c] = r /\ \A d \in Callers \ {c} : call'[d] = call[d]
  BY <1>2 DEF TInv
<1>4. \A d \in Callers : /\ Caller(call'[d])
                         /\ call'[d].pc = "exchange" => /\ call[d].pc = "exchange"
                                                        /\ call'[d].began = call[d].began
  BY <1>1, <1>3 DEF TInv
<1> QED
  BY Zenon, <1>3, <1>4, QuietStep DEF Cancel

\* The API serves a new version.
LEMMA BackendStep ==
    ASSUME TInv, NEW k, BackendMoves(k)
    PROVE  TInv'
<1>1. DOMAIN call' = Callers /\ UNCHANGED <<now, ref, token, inflight>>
  BY DEF BackendMoves
<1>2. ASSUME NEW d \in Callers
      PROVE  /\ Caller(call'[d])
             /\ call'[d].pc = "exchange" => /\ call[d].pc = "exchange"
                                            /\ call'[d].began = call[d].began
  <2> DEFINE u == call[d].current \cup {backend[k] + 1}
             r == [call[d] EXCEPT !.current = u]
  <2>1. call'[d] = r \/ call'[d] = call[d]
    BY DEF BackendMoves
  <2> HIDE DEF u
  <2>2. Caller(r) /\ r.pc = call[d].pc /\ (call[d].pc = "exchange" => r.began = call[d].began)
    BY Touched1 DEF TInv
  <2> HIDE DEF r
  <2> QED
    BY <2>1, <2>2 DEF TInv
<1> QED
  BY <1>1, <1>2, QuietStep

\* The clock waits for an exchange that has taken all the leeway.
LEMMA TickStep ==
    ASSUME TInv, Tick
    PROVE  TInv'
<1>1. now' = now + 1 /\ UNCHANGED <<ref, token, inflight, call>>
  BY DEF Tick
<1>2. Sharing' = Sharing /\ ExchangeBound' = ExchangeBound /\ ExchangeBound \in Int
  BY <1>1, HTTPClientAssumption DEF Sharing, ExchangeBound
<1>3. ASSUME NEW d \in Callers PROVE Exchanging(d)'
  <2>1. In(d, "exchange") => now < call[d].began + ExchangeBound /\ call[d].began \in Nat
    BY DEF Tick, TInv, Caller, In
  <2> QED
    BY <1>1, <1>2, <2>1 DEF Exchanging, TInv, In
<1>4. TokenDated'
  BY <1>1, <1>2 DEF TInv, TokenDated
<1>5. now' \in Nat /\ DOMAIN call' = Callers /\ \A c \in Callers : Caller(call'[c])
  BY <1>1 DEF TInv
<1> QED
  BY <1>3, <1>4, <1>5 DEF TInv

\* A usable token outlives the moment it is used at its issuer; a caller starts an
\* exchange only when nobody else is in one.
LEMMA AuthStep ==
    ASSUME TInv, NEW c \in Callers, Auth(c)
    PROVE  TInv'
<1>1. UNCHANGED <<now, ref, token>> /\ Sharing' = Sharing /\ ExchangeBound' = ExchangeBound
  BY DEF Auth, Sharing, ExchangeBound
<1>2. CASE Usable /\ Goto(c, "send", [live |-> now < token.ends]) /\ UNCHANGED inflight
  <2>1. now < token.ends
    BY <1>2, HTTPClientAssumption DEF Usable, TInv, TokenDated, ExchangeBound
  <2>2. [live |-> now < token.ends] = [live |-> TRUE]
    BY Zenon, <2>1
  <2>3. call' = [call EXCEPT ![c] = At(c, "send", [live |-> TRUE])]
    BY Zenon, <1>2, <2>2 DEF Goto
  <2> QED
    BY Zenon, <1>1, <1>2, <2>3, SendStep
<1>3. CASE Goto(c, "waiting", [from |-> inflight, outcome |-> None]) /\ UNCHANGED inflight
  <2> DEFINE r == [from |-> inflight, outcome |-> None]
  <2>1. "pc" \notin DOMAIN r
    OBVIOUS
  <2>2. call' = [call EXCEPT ![c] = At(c, "waiting", r)]
    BY <1>3 DEF Goto
  <2> HIDE DEF r
  <2>3. Caller(At(c, "waiting", r)) /\ At(c, "waiting", r).pc # "exchange"
    BY <2>1, AtCaller
  <2> QED
    BY Zenon, <1>1, <1>3, <2>2, <2>3, OneGoesOn
<1>4. CASE /\ ~MustWait /\ Goto(c, "exchange", [began |-> now])
           /\ inflight' = IF Sharing THEN c ELSE None
  <2> DEFINE r == [began |-> now]
             s == At(c, "exchange", r)
  <2>1. "pc" \notin DOMAIN r /\ "began" \in DOMAIN r /\ r["began"] = now
    OBVIOUS
  <2>2. call' = [call EXCEPT ![c] = s]
    BY <1>4 DEF Goto
  <2> HIDE DEF r
  <2>3. s.pc = "exchange" /\ "pc" \in DOMAIN s /\ "began" \in DOMAIN s /\ s["began"] = now
    BY <2>1, AtFields
  <2> HIDE DEF s
  <2>4. Caller(s) /\ s.pc = "exchange" /\ s.began = now
    BY <2>3 DEF Caller, TInv
  <2>5. DOMAIN call' = Callers /\ call'[c] = s /\ \A d \in Callers \ {c} : call'[d] = call[d]
    BY <2>2 DEF TInv
  <2>6. ExchangeBound \in Nat
    BY HTTPClientAssumption DEF ExchangeBound
  <2>7. Exchanging(c)'
    BY <1>1, <1>4, <2>4, <2>5, <2>6 DEF Exchanging, In, TInv
  <2>8. ASSUME NEW d \in Callers \ {c} PROVE Exchanging(d)'
    <3>1. Sharing => ~In(d, "exchange")
      BY <1>4, HTTPClientAssumption DEF MustWait, TInv, Exchanging
    <3> QED
      BY <1>1, <2>5, <3>1 DEF Exchanging, In, TInv
  <2>9. TokenDated'
    BY <1>1 DEF TInv, TokenDated
  <2>10. \A d \in Callers : Caller(call'[d])
    BY <2>4, <2>5 DEF TInv
  <2> QED
    BY <1>1, <2>5, <2>7, <2>8, <2>9, <2>10 DEF TInv
<1> QED
  BY Zenon, <1>2, <1>3, <1>4 DEF Auth

\* The exchange that ends was the only one, and took no longer than the leeway.
LEMMA ExchangeEndsStep ==
    ASSUME TInv, NEW c \in Callers, ExchangeEnds(c)
    PROVE  TInv'
<1>1. /\ In(c, "exchange") /\ UNCHANGED <<now, ref>> /\ inflight' = None
      /\ Sharing' = Sharing /\ ExchangeBound' = ExchangeBound
  BY Zenon DEF ExchangeEnds, Released, Sharing, ExchangeBound
<1>2. \E r : "pc" \notin DOMAIN r /\ call' = [call EXCEPT ![c] = At(c, "settle", r)]
  <2>1. ASSUME NEW o, Goto(c, "settle", [outcome |-> o])
        PROVE  \E r : "pc" \notin DOMAIN r /\ call' = [call EXCEPT ![c] = At(c, "settle", r)]
    <3>1. "pc" \notin DOMAIN [outcome |-> o]
      OBVIOUS
    <3> QED
      BY Zenon, <2>1, <3>1 DEF Goto
  <2>2. ASSUME NEW o, NEW w, Goto(c, "settle", [outcome |-> o, said |-> w])
        PROVE  \E r : "pc" \notin DOMAIN r /\ call' = [call EXCEPT ![c] = At(c, "settle", r)]
    <3>1. "pc" \notin DOMAIN [outcome |-> o, said |-> w]
      OBVIOUS
    <3> QED
      BY Zenon, <2>2, <3>1 DEF Goto
  <2> QED
    BY Zenon, <2>1, <2>2 DEF ExchangeEnds
<1>3. PICK r : "pc" \notin DOMAIN r /\ call' = [call EXCEPT ![c] = At(c, "settle", r)]
  BY Zenon, <1>2
<1>4. Caller(At(c, "settle", r)) /\ At(c, "settle", r).pc = "settle"
  BY <1>3, AtCaller
<1>5. /\ DOMAIN call' = Callers /\ call'[c] = At(c, "settle", r)
      /\ \A d \in Callers \ {c} : call'[d] = call[d]
  BY <1>3 DEF TInv
<1>6. \A d \in Callers : Caller(call'[d])
  BY <1>4, <1>5 DEF TInv
<1>7. ASSUME NEW d \in Callers PROVE Exchanging(d)'
  <2>1. CASE d = c
    BY <1>4, <1>5, <2>1 DEF Exchanging, In
  <2>2. CASE d # c
    <3>1. Sharing => ~In(d, "exchange")
      BY <1>1, <2>2 DEF TInv, Exchanging
    <3> QED
      BY <1>1, <1>5, <2>2, <3>1 DEF Exchanging, In, TInv
  <2> QED
    BY <2>1, <2>2
<1>8. TokenDated'
  <2>1. CASE token' = NewToken(c)
    <3>1. call[c].began \in Nat /\ now \in Nat /\ now <= call[c].began + ExchangeBound
      BY <1>1 DEF TInv, Caller, Exchanging, In
    <3>2. Life \in Int /\ ExchangeBound \in Int
      BY HTTPClientAssumption DEF Life, ExchangeBound
    <3>3. token'.expires = now + Life /\ token'.ends = call[c].began + Life
      BY <2>1 DEF NewToken
    <3> HIDE DEF Life
    <3> QED
      BY <1>1, <3>1, <3>2, <3>3 DEF TokenDated
  <2>2. CASE token' = token
    BY <1>1, <2>2 DEF TInv, TokenDated
  <2> QED
    BY Zenon, <2>1, <2>2 DEF ExchangeEnds
<1> QED
  BY <1>1, <1>5, <1>6, <1>7, <1>8 DEF TInv

-----------------------------------------------------------------------------
(* The invariant and the property.                                              *)

\* The invariant holds before the first call.
LEMMA TInit == Init => TInv
<1> SUFFICES ASSUME Init PROVE TInv
  OBVIOUS
<1>1. \A c \in Callers : call[c] = Idle
  BY Zenon DEF Init
<1>2. Caller(Idle) /\ Idle.pc = "idle"
  BY DEF Idle, Caller
<1> QED
  BY <1>1, <1>2 DEF Init, TInv, Exchanging, In, TokenDated

\* Every step keeps the invariant.
LEMMA TNext == TInv /\ [Next]_vars => TInv'
<1> SUFFICES ASSUME TInv, [Next]_vars PROVE TInv'
  OBVIOUS
<1>1. ASSUME NEW c \in Callers, Step(c) PROVE TInv'
  BY <1>1, LimitedStep, AuthStep, ExchangeEndsStep, SettleStep, WaitingStep, SendingStep,
     AnswerStep, ReplicaStep, LeaveStep DEF Step
<1>2. CASE UNCHANGED vars
  BY <1>2 DEF vars, TInv, Exchanging, In, TokenDated, Sharing, ExchangeBound
<1> QED
  BY <1>1, <1>2, ResolveStep, CancelStep, BackendStep, TickStep DEF Next

\* Nobody starts a second exchange, and a request carries a token that was alive.
LEMMA TShares == TInv => TokenShared
BY DEF TInv, Exchanging, Caller, TokenShared, In

\* For any callers, refs, lifetimes and leeways: callers without a usable token share one
\* exchange, and a cached token that is used is alive at its issuer (tokenFor).
THEOREM ExchangeIsShared == Spec => []TokenShared
<1>1. Spec => Init /\ [][Next]_vars
  BY DEF Spec
<1> QED
  BY <1>1, TInit, TNext, TShares, PTL

-----------------------------------------------------------------------------
(* What an answer is made of: the entries, and what a call that nobody overlaps  *)
(* knows of them.                                                               *)

Entries == [key : Keys, etag : Nat, body : Nat]

\* The Revalidator's list: one entry per ref, whose body is what its validator names.
Listed(s) ==
    /\ s \in Seq(Entries)
    /\ \A i \in 1 .. Len(s) : s[i].body = s[i].etag
    /\ \A i, j \in 1 .. Len(s) : s[i].key = s[j].key => i = j

\* Only ref k has entries in s that the list had not.
LeavesOthers(s, k) ==
    \A i \in 1 .. Len(s) : s[i].key # k => \E j \in 1 .. Len(lru) : s[i] = lru[j]

Asking == {"auth", "waiting", "exchange", "settle", "send", "answer"}

\* What every call carries.
Asks(r) ==
    /\ {"key", "cond", "current", "alone"} \subseteq DOMAIN r
    /\ r.key \in Keys /\ r.alone \in BOOLEAN
    /\ r.key \notin Revalidated => r.cond = None
    /\ r.pc = "answer" => /\ {"status", "body"} \subseteq DOMAIN r
                          /\ r.status = "ok" => r.body \in Nat
                          /\ r.status = "not_modified" => r.key \in Revalidated
    /\ r.pc = "done" => {"result", "hit"} \subseteq DOMAIN r

\* What a call nobody overlaps knows: the value its ref has now is one of those it
\* collected, an entry of its ref is the one it asks with, and it brings back what
\* the ref had while it ran.
Knows(r, s) ==
    /\ backend[r.key] \in r.current
    /\ r.pc \in Asking /\ r.key \in Revalidated =>
          \A i \in 1 .. Len(s) : s[i].key = r.key => s[i].etag = r.cond
    /\ r.pc = "answer" /\ r.status = "ok" => r.body \in r.current
    /\ r.pc = "answer" /\ r.status = "not_modified" => r.cond = None \/ r.cond \in r.current
    /\ r.pc = "done" /\ r.result.ok /\ ~r.hit => r.result.body \in r.current

Good(r) ==
    "pc" \in DOMAIN r /\ (r.pc # "idle" => Asks(r) /\ (r.alone = TRUE => Knows(r, lru)))

\* Nobody overlaps a call that says so.
Apart ==
    \A c, d \in Callers : c # d /\ ~In(c, "idle") /\ ~In(d, "idle") /\ call[c].alone = TRUE
                          => call[d].key # call[c].key

CInv ==
    /\ ref \in Programs /\ DOMAIN call = Callers
    /\ DOMAIN backend = Keys /\ \A k \in Keys : backend[k] \in Nat
    /\ Listed(lru) /\ Apart
    /\ \A c \in Callers : Good(call[c])

-----------------------------------------------------------------------------
(* The list *)

\* The list without a ref's entry.
LEMMA WithoutListed ==
    ASSUME Listed(lru), NEW k
    PROVE  /\ Listed(Without(k))
           /\ \A i \in 1 .. Len(Without(k)) :
                 Without(k)[i].key # k /\ \E j \in 1 .. Len(lru) : Without(k)[i] = lru[j]
<1> DEFINE n == Len(lru)
<1>0. lru \in Seq(Entries) /\ n \in Nat /\ DOMAIN lru = 1 .. n
  BY LenProperties DEF Listed
<1>1. CASE Places(k) = {}
  <2>1. Without(k) = lru /\ \A i \in 1 .. n : lru[i].key # k
    BY <1>0, <1>1 DEF Without, Places
  <2> QED
    BY <2>1
<1>2. CASE Places(k) # {}
  <2> DEFINE p == CHOOSE i \in Places(k) : TRUE
             a == SubSeq(lru, 1, p - 1)
             b == SubSeq(lru, p + 1, n)
  <2>1. p \in 1 .. n /\ lru[p].key = k
    BY <1>0, <1>2 DEF Places
  <2>2. Without(k) = a \o b
    BY Zenon, <1>2 DEF Without
  <2> HIDE DEF p
  <2>3. \A i \in 1 .. n : lru[i] \in Entries
    BY <1>0, ElementOfSeq
  <2>4. a \in Seq(Entries) /\ Len(a) = p - 1 /\ \A i \in 1 .. p - 1 : a[i] = lru[i]
    <3>1. \A i \in 1 .. p - 1 : lru[i] \in Entries
      BY <1>0, <2>1, <2>3
    <3> QED
      BY <1>0, <2>1, <3>1, SubSeqProperties
  <2>5. b \in Seq(Entries) /\ Len(b) = n - p /\ \A i \in 1 .. n - p : b[i] = lru[p + i]
    <3>1. \A i \in p + 1 .. n : lru[i] \in Entries
      BY <1>0, <2>1, <2>3
    <3>2. /\ b \in Seq(Entries) /\ Len(b) = IF p + 1 <= n THEN n - (p + 1) + 1 ELSE 0
          /\ \A i \in 1 .. n - (p + 1) + 1 : b[i] = lru[p + 1 + i - 1]
      BY <1>0, <2>1, <3>1, SubSeqProperties
    <3>3. /\ n - (p + 1) + 1 = n - p /\ (IF p + 1 <= n THEN n - (p + 1) + 1 ELSE 0) = n - p
          /\ \A i \in 1 .. n - p : p + 1 + i - 1 = p + i
      <4> HIDE DEF n
      <4> QED BY <1>0, <2>1
    <3> QED
      BY Zenon, <3>2, <3>3
  <2> DEFINE w == a \o b
  <2> HIDE DEF a, b
  <2>6. /\ w \in Seq(Entries) /\ Len(w) = Len(a) + Len(b)
        /\ \A i \in 1 .. Len(a) + Len(b) : w[i] = IF i <= Len(a) THEN a[i] ELSE b[i - Len(a)]
    BY Zenon, <2>4, <2>5, ConcatProperties
  <2> HIDE DEF w
  <2> DEFINE at(i) == IF i < p THEN i ELSE i + 1
  <2>7. Len(w) = n - 1 /\ \A i \in 1 .. n - 1 : w[i] = lru[at(i)]
    <3> HIDE DEF n
    <3>1. Len(a) + Len(b) = n - 1
      BY <1>0, <2>1, <2>4, <2>5
    <3>2. ASSUME NEW i \in 1 .. n - 1, i < p PROVE w[i] = lru[i]
      <4>1. i <= Len(a) /\ i \in 1 .. p - 1 /\ i \in 1 .. Len(a) + Len(b)
        BY <1>0, <2>1, <2>4, <3>1, <3>2
      <4> QED
        BY Zenon, <2>4, <2>6, <4>1
    <3>3. ASSUME NEW i \in 1 .. n - 1, ~(i < p) PROVE w[i] = lru[i + 1]
      <4>1. /\ ~(i <= Len(a)) /\ i - Len(a) \in 1 .. n - p /\ i \in 1 .. Len(a) + Len(b)
            /\ p + (i - Len(a)) = i + 1
        BY <1>0, <2>1, <2>4, <3>1, <3>3
      <4> QED
        BY Zenon, <2>5, <2>6, <4>1
    <3> QED
      BY Zenon, <2>6, <3>1, <3>2, <3>3
  <2>8. /\ \A i \in 1 .. n - 1 : at(i) \in 1 .. n /\ at(i) # p
        /\ \A i, j \in 1 .. n - 1 : at(i) = at(j) => i = j
    BY <1>0, <2>1
  <2> HIDE DEF at, n
  <2>9. \A i \in 1 .. n - 1 : w[i].key # k /\ \E j \in 1 .. n : w[i] = lru[j]
    BY Zenon, <2>1, <2>7, <2>8 DEF Listed, n
  <2>10. Listed(w)
    <3>1. ASSUME NEW i \in 1 .. n - 1 PROVE w[i].body = w[i].etag
      <4>1. at(i) \in 1 .. n /\ w[i] = lru[at(i)]
        BY Zenon, <2>7, <2>8
      <4>2. lru[at(i)].body = lru[at(i)].etag
        BY Zenon, <4>1 DEF Listed, n
      <4> QED
        BY Zenon, <4>1, <4>2
    <3>2. ASSUME NEW i \in 1 .. n - 1, NEW j \in 1 .. n - 1, w[i].key = w[j].key PROVE i = j
      <4>1. at(i) \in 1 .. n /\ at(j) \in 1 .. n /\ lru[at(i)].key = lru[at(j)].key
        BY Zenon, <2>7, <2>8, <3>2
      <4>2. at(i) = at(j)
        BY Zenon, <4>1 DEF Listed, n
      <4> QED
        BY Zenon, <2>8, <4>2
    <3> QED
      BY Zenon, <2>6, <2>7, <3>1, <3>2 DEF Listed
  <2> QED
    BY Zenon, <2>2, <2>7, <2>9, <2>10 DEF w, n
<1> QED
  BY <1>1, <1>2

\* An entry put in front of the others.
Pushed(e, k) == <<e>> \o Without(k)

\* An entry pushed on the rest of the list leaves one entry per ref.
LEMMA PushedListed ==
    ASSUME Listed(lru), NEW k, NEW e \in Entries, e.key = k, e.body = e.etag
    PROVE  /\ Listed(Pushed(e, k)) /\ LeavesOthers(Pushed(e, k), k)
           /\ \A i \in 1 .. Len(Pushed(e, k)) : Pushed(e, k)[i].key = k => Pushed(e, k)[i] = e
<1> DEFINE s == Pushed(e, k)
<1> DEFINE w == Without(k)
<1>1. /\ w \in Seq(Entries)
      /\ \A i \in 1 .. Len(w) : w[i].body = w[i].etag
      /\ \A i, j \in 1 .. Len(w) : w[i].key = w[j].key => i = j
      /\ \A i \in 1 .. Len(w) : w[i].key # k /\ \E j \in 1 .. Len(lru) : w[i] = lru[j]
  <2>1. Listed(w)
    BY Zenon, WithoutListed
  <2>2. \A i \in 1 .. Len(w) : w[i].key # k /\ \E j \in 1 .. Len(lru) : w[i] = lru[j]
    BY WithoutListed
  <2> HIDE DEF w
  <2> QED
    BY Zenon, <2>1, <2>2 DEF Listed
<1>2. s = <<e>> \o w
  BY DEF Pushed
<1> HIDE DEF w, s
<1> DEFINE one == <<e>>
<1>3. Len(w) \in Nat /\ one \in Seq(Entries) /\ Len(one) = 1 /\ one[1] = e
  BY <1>1, LenProperties
<1> HIDE DEF one
<1>4. /\ s \in Seq(Entries) /\ Len(s) = Len(one) + Len(w)
      /\ \A i \in 1 .. Len(one) + Len(w) : s[i] = IF i <= Len(one) THEN one[i] ELSE w[i - Len(one)]
  <2> DEFINE t == one \o w
  <2>1. s = t
    BY <1>2 DEF one
  <2>2. /\ t \in Seq(Entries) /\ Len(t) = Len(one) + Len(w)
        /\ \A i \in 1 .. Len(one) + Len(w) :
              t[i] = IF i <= Len(one) THEN one[i] ELSE w[i - Len(one)]
    <3>1. one \in Seq(Entries) /\ w \in Seq(Entries)
      BY Zenon, <1>1, <1>3
    <3> QED
      BY <3>1, ConcatProperties
  <2> HIDE DEF t
  <2> QED
    BY Zenon, <2>1, <2>2
<1>5. s[1] = e /\ \A i \in 2 .. Len(s) : i - 1 \in 1 .. Len(w) /\ s[i] = w[i - 1]
  <2>1. 1 \in 1 .. Len(one) + Len(w) /\ 1 <= Len(one)
    BY <1>3
  <2>2. ASSUME NEW i \in 2 .. Len(s)
        PROVE  i \in 1 .. Len(one) + Len(w) /\ ~(i <= Len(one)) /\ i - 1 \in 1 .. Len(w)
    BY <1>3, <1>4
  <2> QED
    BY Zenon, <1>3, <1>4, <2>1, <2>2
<1>6. \A i \in 1 .. Len(s) : i = 1 \/ i \in 2 .. Len(s)
  BY <1>3, <1>4
<1>7. ASSUME NEW i \in 2 .. Len(s)
      PROVE  s[i].key # k /\ s[i].body = s[i].etag
  <2>1. i - 1 \in 1 .. Len(w) /\ s[i] = w[i - 1]
    BY Zenon, <1>5
  <2> QED
    BY <1>1, <2>1
<1>8. ASSUME NEW i \in 1 .. Len(s), NEW j \in 1 .. Len(s), s[i].key = s[j].key
      PROVE  i = j
  <2>1. CASE i \in 2 .. Len(s) /\ j \in 2 .. Len(s)
    <3> DEFINE x == i - 1
               y == j - 1
    <3>1. x \in 1 .. Len(w) /\ y \in 1 .. Len(w) /\ s[i] = w[x] /\ s[j] = w[y]
      BY Zenon, <1>5, <2>1
    <3> HIDE DEF x, y
    <3>2. x = y
      BY Zenon, <1>1, <1>8, <3>1
    <3> QED
      BY <2>1, <3>2 DEF x, y
  <2> QED
    BY Zenon, <1>5, <1>6, <1>7, <1>8, <2>1
<1>9. \A i \in 1 .. Len(s) : s[i].body = s[i].etag
  BY Zenon, <1>5, <1>6, <1>7
<1>10. LeavesOthers(s, k)
  <2> SUFFICES ASSUME NEW i \in 1 .. Len(s), s[i].key # k
               PROVE  \E j \in 1 .. Len(lru) : s[i] = lru[j]
    BY Zenon DEF LeavesOthers
  <2>1. i \in 2 .. Len(s)
    BY Zenon, <1>5, <1>6
  <2>2. i - 1 \in 1 .. Len(w) /\ s[i] = w[i - 1]
    BY Zenon, <1>5, <2>1
  <2> QED
    BY Zenon, <1>1, <2>2
<1> QED
  BY Zenon, <1>4, <1>5, <1>6, <1>7, <1>8, <1>9, <1>10 DEF Listed, s

\* The entries that remain within the bound.
LEMMA TrimmedListed ==
    ASSUME NEW s, Listed(s)
    PROVE  Listed(Trim(s)) /\ \A i \in 1 .. Len(Trim(s)) : i \in 1 .. Len(s) /\ Trim(s)[i] = s[i]
<1> DEFINE m == IF Len(s) > MaxEntries THEN MaxEntries ELSE Len(s)
           t == SubSeq(s, 1, m)
<1>1. s \in Seq(Entries) /\ Len(s) \in Nat /\ MaxEntries \in Nat
  BY LenProperties, HTTPClientAssumption DEF Listed
<1>2. m \in Nat /\ m <= Len(s) /\ 1 .. m \subseteq 1 .. Len(s)
  BY <1>1
<1>3. Trim(s) = t
  BY DEF Trim
<1> HIDE DEF m
<1>4. \A i \in 1 .. m : s[i] \in Entries
  BY <1>1, <1>2, ElementOfSeq
<1>5. t \in Seq(Entries) /\ Len(t) = m /\ \A i \in 1 .. m : t[i] = s[i]
  BY <1>2, <1>4, SubSeqProperties
<1> HIDE DEF t
<1>6. Listed(t)
  BY Zenon, <1>2, <1>5 DEF Listed
<1> QED
  BY Zenon, <1>2, <1>3, <1>5, <1>6

\* Marking an entry recently used moves it.
LEMMA TouchedListed ==
    ASSUME Listed(lru), NEW k, None \notin Entries
    PROVE  /\ Listed(Touched(k)) /\ LeavesOthers(Touched(k), k)
           /\ \A i \in 1 .. Len(Touched(k)) :
                 Touched(k)[i].key = k => Entry(k) # None /\ Touched(k)[i] = Entry(k)
<1>0. lru \in Seq(Entries) /\ DOMAIN lru = 1 .. Len(lru)
  BY LenProperties DEF Listed
<1>1. CASE Places(k) = {}
  <2>1. Entry(k) = None /\ Touched(k) = lru /\ \A i \in 1 .. Len(lru) : lru[i].key # k
    BY Zenon, <1>0, <1>1 DEF Entry, Touched, Places
  <2> QED
    BY Zenon, <2>1 DEF LeavesOthers
<1>2. CASE Places(k) # {}
  <2>1. PICK p \in 1 .. Len(lru) : lru[p].key = k /\ Entry(k) = lru[p]
    BY Zenon, <1>0, <1>2 DEF Entry, Places
  <2>2. Entry(k) \in Entries
    BY <1>0, <2>1, ElementOfSeq
  <2>3. Entry(k).key = k /\ Entry(k).body = Entry(k).etag
    BY Zenon, <2>1 DEF Listed
  <2>4. Entry(k) # None /\ Touched(k) = Pushed(Entry(k), k)
    BY Zenon, <2>2 DEF Touched, Pushed
  <2>5. /\ Listed(Pushed(Entry(k), k)) /\ LeavesOthers(Pushed(Entry(k), k), k)
        /\ \A i \in 1 .. Len(Pushed(Entry(k), k)) :
              Pushed(Entry(k), k)[i].key = k => Pushed(Entry(k), k)[i] = Entry(k)
    BY Zenon, <2>2, <2>3, PushedListed
  <2> QED
    BY <2>4, <2>5
<1> QED
  BY <1>1, <1>2

\* What a call finds at its ref's place.
LEMMA EntryListed ==
    ASSUME Listed(lru), NEW k, None \notin Entries
    PROVE  /\ Entry(k) = None => \A i \in 1 .. Len(lru) : lru[i].key # k
           /\ Entry(k) # None => \E p \in 1 .. Len(lru) : lru[p].key = k /\ Entry(k) = lru[p]
           /\ Entry(k) # None => Entry(k).body = Entry(k).etag
<1>0. lru \in Seq(Entries) /\ DOMAIN lru = 1 .. Len(lru)
  BY LenProperties DEF Listed
<1>1. CASE Places(k) = {}
  BY Zenon, <1>0, <1>1 DEF Entry, Places
<1>2. CASE Places(k) # {}
  <2>1. PICK p \in 1 .. Len(lru) : lru[p].key = k /\ Entry(k) = lru[p]
    BY Zenon, <1>0, <1>2 DEF Entry, Places
  <2>2. Entry(k) \in Entries
    BY <1>0, <2>1, ElementOfSeq
  <2>3. Entry(k).body = Entry(k).etag
    BY Zenon, <2>1 DEF Listed
  <2> QED
    BY Zenon, <2>1, <2>2, <2>3
<1> QED
  BY Zenon, <1>1, <1>2

\* Storing an answer touches the entries of its ref only, or makes others go.
LEMMA StoredListed ==
    ASSUME Listed(lru), NEW k \in Keys, NEW v \in Nat
    PROVE  Listed(Stored(k, v)) /\ LeavesOthers(Stored(k, v), k)
<1>1. CASE k \in Plain
  <2>1. Stored(k, v) = Without(k)
    BY <1>1 DEF Stored
  <2>2. Listed(Without(k)) /\ LeavesOthers(Without(k), k)
    BY WithoutListed DEF LeavesOthers
  <2> QED
    BY Zenon, <2>1, <2>2
<1>2. CASE k \notin Plain
  <2> DEFINE e == [key |-> k, etag |-> v, body |-> v]
             s == Pushed(e, k)
  <2>1. Stored(k, v) = Trim(s)
    BY Zenon, <1>2 DEF Stored, Pushed
  <2>2. e \in Entries /\ e.key = k /\ e.body = e.etag
    BY DEF Entries
  <2> HIDE DEF e
  <2>3. Listed(s) /\ LeavesOthers(s, k)
    BY <2>2, PushedListed
  <2> HIDE DEF s
  <2>4. Listed(Trim(s)) /\ \A i \in 1 .. Len(Trim(s)) : i \in 1 .. Len(s) /\ Trim(s)[i] = s[i]
    BY <2>3, TrimmedListed
  <2>5. LeavesOthers(Trim(s), k)
    BY Zenon, <2>3, <2>4 DEF LeavesOthers
  <2> QED
    BY Zenon, <2>1, <2>4, <2>5
<1> QED
  BY <1>1, <1>2

-----------------------------------------------------------------------------
(* The calls *)

\* The fields the invariant looks at.
Looked == {"pc", "key", "cond", "current", "alone", "status", "body", "result", "hit"}

\* Two records that look alike.
Alike(s, r) == DOMAIN s = DOMAIN r /\ \A x \in Looked \cap DOMAIN r : s[x] = r[x]

\* What is known of a call is known of one that looks like it.
LEMMA AlikeGood ==
    ASSUME NEW s, NEW r, Alike(s, r), Good(r)
    PROVE  /\ Good(s) /\ s.pc = r.pc
           /\ r.pc # "idle" => s.key = r.key /\ s.alone = r.alone
<1>1. "pc" \in DOMAIN s /\ s.pc = r.pc
  BY DEF Alike, Looked, Good
<1>2. CASE r.pc = "idle"
  BY <1>1, <1>2 DEF Good
<1>3. CASE r.pc # "idle"
  <2>1. Asks(r) /\ (r.alone = TRUE => Knows(r, lru))
    BY <1>3 DEF Good
  <2>2. s.key = r.key /\ s.cond = r.cond /\ s.current = r.current /\ s.alone = r.alone
    BY Zenon, <2>1 DEF Asks, Alike, Looked
  <2>3. r.pc = "answer" => s.status = r.status /\ s.body = r.body
    BY <2>1 DEF Asks, Alike, Looked
  <2>4. r.pc = "done" => s.result = r.result /\ s.hit = r.hit
    BY <2>1 DEF Asks, Alike, Looked
  <2>5. Asks(s)
    BY Zenon, <1>1, <2>1, <2>2, <2>3 DEF Asks, Alike
  <2>6. Knows(r, lru) => Knows(s, lru)
    BY Zenon, <1>1, <2>2, <2>3, <2>4 DEF Knows
  <2> QED
    BY Zenon, <1>1, <2>1, <2>2, <2>5, <2>6 DEF Good
<1> QED
  BY Zenon, <1>2, <1>3

\* Changing a field nobody looks at.
LEMMA TouchedAlike ==
    ASSUME NEW r, NEW x, x \notin Looked, NEW v
    PROVE  Alike([r EXCEPT ![x] = v], r)
<1> DEFINE s == [r EXCEPT ![x] = v]
<1>1. DOMAIN s = DOMAIN r /\ \A y \in DOMAIN r : y # x => s[y] = r[y]
  OBVIOUS
<1> QED
  BY <1>1 DEF Alike

\* A call is as good as its record, as long as the backend stays.
LEMMA GoodNext ==
    ASSUME UNCHANGED backend, NEW c, NEW r, call'[c] = r, "pc" \in DOMAIN r,
           r.pc # "idle" => Asks(r) /\ (r.alone = TRUE => Knows(r, lru'))
    PROVE  Good(call[c])'
<1>1. Asks(r) => Asks(call[c])'
  BY Zenon DEF Asks
<1>2. Knows(r, lru') => Knows(call[c], lru)'
  BY Zenon DEF Knows
<1> QED
  BY Zenon, <1>1, <1>2 DEF Good

\* No call begins, and none says that it is alone unless it did before.
LEMMA StaysApart ==
    ASSUME Apart,
           \A x \in Callers : call'[x].pc # "idle" =>
              /\ ~In(x, "idle") /\ call'[x].key = call[x].key
              /\ call'[x].alone = TRUE => call[x].alone = TRUE
    PROVE  Apart'
<1> SUFFICES ASSUME NEW a \in Callers, NEW b \in Callers, a # b, call'[a].pc # "idle",
                    call'[b].pc # "idle", call'[a].alone = TRUE
             PROVE  call'[b].key # call'[a].key
  BY Zenon DEF Apart, In
<1>1. /\ ~In(a, "idle") /\ call'[a].key = call[a].key /\ call[a].alone = TRUE
      /\ ~In(b, "idle") /\ call'[b].key = call[b].key
  BY Zenon
<1> QED
  BY Zenon, <1>1 DEF Apart

\* Calls that look as before leave everything as it was.
LEMMA QuietGood ==
    ASSUME CInv, UNCHANGED <<ref, backend, lru>>, DOMAIN call' = Callers,
           \A d \in Callers : Alike(call'[d], call[d])
    PROVE  CInv'
<1>1. ASSUME NEW d \in Callers
      PROVE  /\ Good(call'[d]) /\ call'[d].pc = call[d].pc
             /\ ~In(d, "idle") => call'[d].key = call[d].key /\ call'[d].alone = call[d].alone
  BY Zenon, AlikeGood DEF CInv, In
<1>2. Apart'
  BY Zenon, <1>1, StaysApart DEF CInv, In
<1>3. ASSUME NEW d \in Callers PROVE Good(call[d])'
  <2>1. "pc" \in DOMAIN call'[d]
        /\ (call'[d].pc # "idle" => Asks(call'[d]) /\ (call'[d].alone = TRUE => Knows(call'[d], lru')))
    BY Zenon, <1>1 DEF Good
  <2> QED
    BY Zenon, <2>1, GoodNext
<1>4. Listed(lru)'
  BY Zenon DEF CInv, Listed
<1> QED
  BY Zenon, <1>2, <1>3, <1>4 DEF CInv

\* What one call does between two uses of a lock or the network: it keeps its ref and
\* what it says of others, and touches the entries of its own ref only.
LEMMA OneGood ==
    ASSUME CInv, UNCHANGED <<ref, backend>>, DOMAIN call' = Callers, NEW c \in Callers,
           ~In(c, "idle"), \A d \in Callers \ {c} : Alike(call'[d], call[d]),
           NEW r, call'[c] = r, "pc" \in DOMAIN r, r.pc # "idle",
           r.key = call[c].key, r.alone = call[c].alone, Asks(r),
           Listed(lru'), LeavesOthers(lru', call[c].key),
           r.alone = TRUE => Knows(r, lru')
    PROVE  CInv'
<1>1. ASSUME NEW d \in Callers \ {c}
      PROVE  /\ Good(call'[d]) /\ call'[d].pc = call[d].pc
             /\ ~In(d, "idle") => call'[d].key = call[d].key /\ call'[d].alone = call[d].alone
  BY Zenon, AlikeGood DEF CInv, In
<1>2. Apart'
  <2> SUFFICES ASSUME NEW a \in Callers, NEW b \in Callers, a # b, call'[a].pc # "idle",
                      call'[b].pc # "idle", call'[a].alone = TRUE
               PROVE  call'[b].key # call'[a].key
    BY Zenon DEF Apart, In
  <2>1. /\ ~In(a, "idle") /\ call'[a].key = call[a].key /\ call[a].alone = TRUE
        /\ ~In(b, "idle") /\ call'[b].key = call[b].key
    BY Zenon, <1>1 DEF In
  <2> QED
    BY Zenon, <2>1 DEF CInv, Apart
<1>3. Good(call[c])'
  BY Zenon, GoodNext
<1>4. ASSUME NEW d \in Callers \ {c} PROVE Good(call[d])'
  <2> DEFINE s == call'[d]
  <2>1. Good(s)
    BY Zenon, <1>1
  <2>2. ASSUME s.pc # "idle", s.alone = TRUE
        PROVE  \A i \in 1 .. Len(lru') : lru'[i].key = s.key => \E j \in 1 .. Len(lru) : lru'[i] = lru[j]
    <3>1. ~In(d, "idle") /\ call[d].alone = TRUE /\ s.key = call[d].key
      BY Zenon, <1>1, <2>2 DEF In
    <3>2. call[c].key # s.key
      BY Zenon, <3>1 DEF CInv, Apart
    <3> QED
      BY Zenon, <3>2 DEF LeavesOthers
  <2> HIDE DEF s
  <2>3. ASSUME s.pc # "idle", s.alone = TRUE PROVE Knows(s, lru')
    <3>1. Knows(s, lru)
      BY Zenon, <2>1, <2>3 DEF Good
    <3>2. s.pc \in Asking /\ s.key \in Revalidated =>
             \A i \in 1 .. Len(lru') : lru'[i].key = s.key => lru'[i].etag = s.cond
      BY Zenon, <2>2, <2>3, <3>1 DEF Knows
    <3> QED
      BY Zenon, <3>1, <3>2 DEF Knows
  <2>4. "pc" \in DOMAIN s /\ (s.pc # "idle" => Asks(s) /\ (s.alone = TRUE => Knows(s, lru')))
    BY Zenon, <2>1, <2>3 DEF Good
  <2> QED
    BY Zenon, <2>4, GoodNext DEF s
<1> QED
  BY Zenon, <1>2, <1>3, <1>4 DEF CInv, Listed

\* A call's record becomes r, and the others look as before.
Becomes(c, r) ==
    /\ DOMAIN call' = Callers /\ call'[c] = r
    /\ \A d \in Callers \ {c} : Alike(call'[d], call[d])

\* Goto leaves the other calls alone.
LEMMA GotoBecomes ==
    ASSUME CInv, NEW c \in Callers, NEW r, call' = [call EXCEPT ![c] = r]
    PROVE  Becomes(c, r)
  BY Zenon DEF CInv, Alike, Becomes

\* One call goes on as record r.
LEMMA GoesOnGood ==
    ASSUME CInv, UNCHANGED <<ref, backend>>, NEW c \in Callers, ~In(c, "idle"),
           NEW r, Becomes(c, r), "pc" \in DOMAIN r, r.pc # "idle",
           r.key = call[c].key, r.alone = call[c].alone, Asks(r),
           Listed(lru'), LeavesOthers(lru', call[c].key),
           r.alone = TRUE => Knows(r, lru')
    PROVE  CInv'
  BY Zenon, OneGood DEF Becomes

\* The list as it is.
LEMMA KeptListed ==
    ASSUME CInv, UNCHANGED lru, NEW k
    PROVE  Listed(lru') /\ LeavesOthers(lru', k)
  BY Zenon DEF CInv, LeavesOthers

\* What is known of a call under way.
LEMMA UnderwayGood ==
    ASSUME CInv, NEW c \in Callers, NEW pc, In(c, pc), pc # "idle"
    PROVE  /\ ~In(c, "idle") /\ Asks(call[c]) /\ call[c].key \in Keys
           /\ call[c].alone = TRUE => Knows(call[c], lru)
           /\ call[c].alone = TRUE => backend[call[c].key] \in call[c].current
  BY Zenon DEF CInv, Good, Asks, Knows, In

\* Record a is the one call c goes on with at pc, given the fields of r.
GoesOn(a, c, pc, r) ==
    /\ "pc" \in DOMAIN a /\ a.pc = pc
    /\ a.key = call[c].key /\ a.alone = call[c].alone /\ a.current = call[c].current
    /\ "cond" \notin DOMAIN r => a.cond = call[c].cond
    /\ \A x \in DOMAIN r : x \in DOMAIN a /\ a[x] = r[x]
    /\ pc \notin {"answer", "done"} => Asks(a)

\* What a call carries on.
LEMMA AtAsks ==
    ASSUME NEW c, Asks(call[c]), NEW pc, NEW r,
           {"pc", "key", "current", "alone"} \cap DOMAIN r = {},
           "cond" \in DOMAIN r => (call[c].key \notin Revalidated => r["cond"] = None)
    PROVE  GoesOn(At(c, pc, r), c, pc, r)
<1> DEFINE a == At(c, pc, r)
           b == Kept(c, pc)
<1>1. /\ {"pc", "key", "cond", "current", "alone"} \subseteq DOMAIN b /\ b.pc = pc
      /\ b.key = call[c].key /\ b.cond = call[c].cond /\ b.current = call[c].current
      /\ b.alone = call[c].alone
  BY Zenon DEF Kept
<1> HIDE DEF b
<1>2. /\ DOMAIN a = DOMAIN r \cup DOMAIN b
      /\ \A x \in DOMAIN r : a[x] = r[x]
      /\ \A x \in DOMAIN b \ DOMAIN r : a[x] = b[x]
  BY Zenon DEF At, Over, b
<1> HIDE DEF a
<1>3. /\ {"pc", "key", "cond", "current", "alone"} \subseteq DOMAIN a /\ a.pc = pc
      /\ a.key = call[c].key /\ a.current = call[c].current /\ a.alone = call[c].alone
      /\ "cond" \notin DOMAIN r => a.cond = call[c].cond
      /\ "cond" \in DOMAIN r => a.cond = r["cond"]
  BY <1>1, <1>2
<1>4. a.key \in Keys /\ a.alone \in BOOLEAN /\ (a.key \notin Revalidated => a.cond = None)
  BY Zenon, <1>3 DEF Asks
<1>5. pc \notin {"answer", "done"} => Asks(a)
  BY Zenon, <1>3, <1>4 DEF Asks
<1>6. \A x \in DOMAIN r : x \in DOMAIN a /\ a[x] = r[x]
  BY Zenon, <1>2
<1>7. "pc" \in DOMAIN a
  BY Zenon, <1>3
<1> QED
  BY Zenon, <1>3, <1>5, <1>6, <1>7 DEF GoesOn, a

\* A call on its way to the API.
LEMMA AskOn ==
    ASSUME CInv, UNCHANGED <<ref, backend, lru>>, NEW c \in Callers, NEW pc \in Asking, In(c, pc),
           NEW to \in Asking \ {"answer"}, NEW r, Becomes(c, At(c, to, r)),
           {"pc", "key", "cond", "current", "alone"} \cap DOMAIN r = {}
    PROVE  CInv'
<1> DEFINE a == At(c, to, r)
<1>1. /\ ~In(c, "idle") /\ Asks(call[c])
      /\ call[c].alone = TRUE => Knows(call[c], lru)
  BY Zenon, UnderwayGood DEF Asking
<1>2. /\ "pc" \in DOMAIN a /\ a.pc = to /\ a.key = call[c].key /\ a.alone = call[c].alone
      /\ a.current = call[c].current /\ a.cond = call[c].cond /\ Asks(a)
  <2>1. {"pc", "key", "current", "alone"} \cap DOMAIN r = {} /\ "cond" \notin DOMAIN r
    OBVIOUS
  <2>2. to \notin {"answer", "done"}
    BY DEF Asking
  <2>3. GoesOn(a, c, to, r)
    BY Zenon, <1>1, <2>1, AtAsks
  <2> HIDE DEF a
  <2> QED
    BY Zenon, <2>1, <2>2, <2>3 DEF GoesOn
<1>3. to \notin {"answer", "done", "idle"}
  BY DEF Asking
<1>4. Becomes(c, a)
  OBVIOUS
<1> HIDE DEF a
<1>5. a.alone = TRUE => Knows(a, lru')
  BY Zenon, <1>1, <1>2, <1>3 DEF Knows, In
<1> QED
  BY Zenon, <1>1, <1>2, <1>3, <1>4, <1>5, KeptListed, GoesOnGood

\* The end of a call: what it brings back is current if nobody overlapped it.
LEMMA DoneGood ==
    ASSUME CInv, UNCHANGED <<ref, backend>>, NEW c \in Callers, ~In(c, "idle"),
           Asks(call[c]), call[c].alone = TRUE => backend[call[c].key] \in call[c].current,
           NEW r, Becomes(c, At(c, "done", r)),
           {"pc", "key", "cond", "current", "alone"} \cap DOMAIN r = {},
           {"result", "hit"} \subseteq DOMAIN r,
           call[c].alone = TRUE =>
              ~r["result"].ok \/ r["hit"] \/ r["result"].body \in call[c].current,
           Listed(lru'), LeavesOthers(lru', call[c].key)
    PROVE  CInv'
<1> DEFINE a == At(c, "done", r)
<1>1. {"pc", "key", "current", "alone"} \cap DOMAIN r = {} /\ "cond" \notin DOMAIN r
  OBVIOUS
<1>2. /\ "pc" \in DOMAIN a /\ a.pc = "done" /\ a.key = call[c].key /\ a.alone = call[c].alone
      /\ a.current = call[c].current /\ a.cond = call[c].cond
      /\ \A x \in DOMAIN r : x \in DOMAIN a /\ a[x] = r[x]
  <2>1. GoesOn(a, c, "done", r)
    BY Zenon, <1>1, AtAsks
  <2> HIDE DEF a
  <2> QED
    BY Zenon, <1>1, <2>1 DEF GoesOn
<1>3. Becomes(c, a)
  OBVIOUS
<1>4. {"key", "cond", "current", "alone"} \subseteq DOMAIN a
  BY Zenon DEF At, Over, Kept
<1> HIDE DEF a
<1>5. {"result", "hit"} \subseteq DOMAIN a /\ a.result = r["result"] /\ a.hit = r["hit"]
  BY Zenon, <1>2
<1>6. Asks(a)
  BY Zenon, <1>2, <1>4, <1>5 DEF Asks
<1>7. a.alone = TRUE => Knows(a, lru')
  BY Zenon, <1>2, <1>5 DEF Knows, Asking
<1> QED
  BY Zenon, <1>2, <1>3, <1>6, <1>7, GoesOnGood

\* The provider fails, and the replica is asked or the call ends.
LEMMA FailureGood ==
    ASSUME CInv, UNCHANGED <<ref, backend>>, NEW c \in Callers, ~In(c, "idle"),
           Asks(call[c]), call[c].alone = TRUE => backend[call[c].key] \in call[c].current,
           NEW kind, Becomes(c, AfterFailure(c, kind)),
           Listed(lru'), LeavesOthers(lru', call[c].key)
    PROVE  CInv'
<1>1. CASE call[c].key \in Replicated /\ kind # "not_found"
  <2> DEFINE r == [outcome |-> kind]
             a == At(c, "replica", r)
  <2>1. Becomes(c, a)
    BY Zenon, <1>1 DEF AfterFailure
  <2>2. {"pc", "key", "current", "alone"} \cap DOMAIN r = {} /\ "cond" \notin DOMAIN r
    OBVIOUS
  <2> HIDE DEF r
  <2>3. /\ "pc" \in DOMAIN a /\ a.pc = "replica" /\ a.key = call[c].key
        /\ a.alone = call[c].alone /\ a.current = call[c].current /\ Asks(a)
    <3>1. GoesOn(a, c, "replica", r)
      BY Zenon, <2>2, AtAsks
    <3>2. "replica" \notin {"answer", "done"}
      OBVIOUS
    <3> HIDE DEF a
    <3> QED
      BY Zenon, <3>1, <3>2 DEF GoesOn
  <2> HIDE DEF a
  <2>4. a.alone = TRUE => Knows(a, lru')
    BY Zenon, <2>3 DEF Knows, Asking
  <2>5. a.pc # "idle"
    BY Zenon, <2>3
  <2> QED
    BY Zenon, <2>1, <2>3, <2>4, <2>5, GoesOnGood
<1>2. CASE ~(call[c].key \in Replicated /\ kind # "not_found")
  <2> DEFINE r == [result |-> Failed(kind), hit |-> FALSE]
  <2>1. Becomes(c, At(c, "done", r))
    BY Zenon, <1>2 DEF AfterFailure
  <2>2. {"pc", "key", "cond", "current", "alone"} \cap DOMAIN r = {}
        /\ {"result", "hit"} \subseteq DOMAIN r /\ r["result"] = Failed(kind)
    OBVIOUS
  <2> HIDE DEF r
  <2>3. ~r["result"].ok
    BY <2>2 DEF Failed
  <2> QED
    BY Zenon, <2>1, <2>2, <2>3, DoneGood
<1> QED
  BY Zenon, <1>1, <1>2

\* The provider has a value.
LEMMA SucceedGood ==
    ASSUME CInv, UNCHANGED <<ref, backend>>, NEW c \in Callers, ~In(c, "idle"),
           Asks(call[c]), call[c].alone = TRUE => backend[call[c].key] \in call[c].current,
           NEW v, Succeed(c, v), call[c].alone = TRUE => v \in call[c].current,
           Listed(lru'), LeavesOthers(lru', call[c].key)
    PROVE  CInv'
<1> DEFINE r == [hit |-> FALSE, result |-> Ok(v)]
<1>1. Becomes(c, At(c, "done", r))
  BY Zenon, GotoBecomes DEF Succeed, Goto
<1>2. {"pc", "key", "cond", "current", "alone"} \cap DOMAIN r = {}
      /\ {"result", "hit"} \subseteq DOMAIN r /\ r["result"] = Ok(v)
  OBVIOUS
<1> HIDE DEF r
<1>3. r["result"].body = v
  BY <1>2 DEF Ok
<1> QED
  BY Zenon, <1>1, <1>2, <1>3, DoneGood

\* tokenFor and the exchange say nothing of the value.
LEMMA AuthGood ==
    ASSUME CInv, NEW c \in Callers, Auth(c)
    PROVE  CInv'
<1>1. In(c, "auth") /\ "auth" \in Asking /\ UNCHANGED <<ref, backend, lru>>
  BY Zenon DEF Auth, Asking
<1>2. /\ {"pc", "key", "cond", "current", "alone"} \cap DOMAIN [live |-> now < token.ends] = {}
      /\ {"pc", "key", "cond", "current", "alone"} \cap DOMAIN [from |-> inflight, outcome |-> None] = {}
      /\ {"pc", "key", "cond", "current", "alone"} \cap DOMAIN [began |-> now] = {}
  OBVIOUS
<1>3. {"send", "waiting", "exchange"} \subseteq Asking \ {"answer"}
  BY DEF Asking
<1> QED
  BY Zenon, <1>1, <1>2, <1>3, AskOn, GotoBecomes DEF Auth, Goto

\* However an exchange ends, the call that made it knows what it knew.
LEMMA ExchangeEndsGood ==
    ASSUME CInv, NEW c \in Callers, ExchangeEnds(c)
    PROVE  CInv'
<1>1. In(c, "exchange") /\ "exchange" \in Asking /\ UNCHANGED <<ref, backend, lru>>
  BY Zenon DEF ExchangeEnds, Asking
<1>2. ASSUME NEW r, {"pc", "key", "cond", "current", "alone"} \cap DOMAIN r = {},
             Goto(c, "settle", r)
      PROVE  CInv'
  <2>1. "settle" \in Asking \ {"answer"}
    BY DEF Asking
  <2> QED
    BY Zenon, <1>1, <1>2, <2>1, AskOn, GotoBecomes DEF Goto
<1>3. ASSUME NEW kind PROVE
      /\ {"pc", "key", "cond", "current", "alone"}
            \cap DOMAIN [outcome |-> kind, said |-> call[c].said \cup {<<"issuer", kind>>}] = {}
      /\ {"pc", "key", "cond", "current", "alone"} \cap DOMAIN [outcome |-> kind] = {}
  OBVIOUS
<1> QED
  BY Zenon, <1>2, <1>3 DEF ExchangeEnds

\* A waiter goes on with the leader's result, or fails.
LEMMA WaitingGood ==
    ASSUME CInv, NEW c \in Callers, Waiting(c)
    PROVE  CInv'
<1>1. In(c, "waiting") /\ "waiting" \in Asking /\ "send" \in Asking \ {"answer"}
      /\ UNCHANGED <<ref, backend, lru>>
  BY Zenon DEF Waiting, Asking
<1>2. /\ ~In(c, "idle") /\ Asks(call[c])
      /\ call[c].alone = TRUE => backend[call[c].key] \in call[c].current
  BY Zenon, <1>1, UnderwayGood
<1>3. {"pc", "key", "cond", "current", "alone"} \cap DOMAIN [live |-> TRUE] = {}
  OBVIOUS
<1>4. CASE Goto(c, "send", [live |-> TRUE])
  BY Zenon, <1>1, <1>3, <1>4, AskOn, GotoBecomes DEF Goto
<1>5. ASSUME NEW kind, Fail(c, kind) PROVE CInv'
  BY Zenon, <1>1, <1>2, <1>5, KeptListed, FailureGood, GotoBecomes DEF Fail
<1> QED
  BY Zenon, <1>4, <1>5 DEF Waiting

\* The leader goes on; its waiters look as before.
LEMMA SettleGood ==
    ASSUME CInv, NEW c \in Callers, Settle(c)
    PROVE  CInv'
<1> DEFINE o == call[c].outcome
           told(d) == [call[d] EXCEPT !.outcome = o, !.said = @ \cup call[c].said]
           woken == [d \in Callers |-> IF In(d, "waiting") /\ call[d].from = c
                                       THEN told(d) ELSE call[d]]
           mine == IF o = "ok" THEN At(c, "send", [live |-> TRUE])
                   ELSE AfterFailure(c, AuthError(o))
<1>1. In(c, "settle") /\ call' = [woken EXCEPT ![c] = mine] /\ UNCHANGED <<ref, backend, lru>>
  BY Zenon DEF Settle
<1>2. /\ ~In(c, "idle") /\ Asks(call[c])
      /\ call[c].alone = TRUE => backend[call[c].key] \in call[c].current
  BY Zenon, <1>1, UnderwayGood
<1>3. ASSUME NEW d \in Callers PROVE Alike(woken[d], call[d])
  <2>1. Alike(told(d), call[d])
    <3>1. DOMAIN told(d) = DOMAIN call[d]
          /\ \A y \in DOMAIN call[d] : y \notin {"outcome", "said"} => told(d)[y] = call[d][y]
      BY Zenon
    <3> HIDE DEF told
    <3> QED
      BY Zenon, <3>1 DEF Alike, Looked
  <2>2. Alike(call[d], call[d])
    BY DEF Alike
  <2>3. woken[d] = told(d) \/ woken[d] = call[d]
    BY Zenon
  <2> HIDE DEF woken, told
  <2> QED
    BY Zenon, <2>1, <2>2, <2>3
<1>4. DOMAIN woken = Callers
  BY Zenon
<1> HIDE DEF woken
<1>5. Becomes(c, mine)
  BY Zenon, <1>1, <1>3, <1>4 DEF Becomes
<1>6. CASE o = "ok"
  <2>1. /\ {"pc", "key", "cond", "current", "alone"} \cap DOMAIN [live |-> TRUE] = {}
        /\ "settle" \in Asking /\ "send" \in Asking \ {"answer"}
    BY DEF Asking
  <2>2. mine = At(c, "send", [live |-> TRUE])
    BY Zenon, <1>6
  <2> HIDE DEF mine
  <2> QED
    BY Zenon, <1>1, <1>5, <2>1, <2>2, AskOn
<1>7. CASE o # "ok"
  <2>1. mine = AfterFailure(c, AuthError(o))
    BY <1>7
  <2> HIDE DEF mine
  <2> QED
    BY Zenon, <1>1, <1>2, <1>5, <2>1, KeptListed, FailureGood
<1> QED
  BY <1>6, <1>7

\* The replica's value is the backend's.
LEMMA ReplicaGood ==
    ASSUME CInv, NEW c \in Callers, Replica(c)
    PROVE  CInv'
<1>1. In(c, "replica") /\ UNCHANGED <<ref, backend, lru>>
  BY Zenon DEF Replica
<1>2. /\ ~In(c, "idle") /\ Asks(call[c])
      /\ call[c].alone = TRUE => backend[call[c].key] \in call[c].current
  BY Zenon, <1>1, UnderwayGood
<1>3. CASE Succeed(c, backend[call[c].key])
  BY Zenon, <1>1, <1>2, <1>3, KeptListed, SucceedGood
<1>4. ASSUME NEW e, NEW S, Goto(c, "done", [hit |-> FALSE, result |-> Failed(e), said |-> S])
      PROVE  CInv'
  <2> DEFINE r == [hit |-> FALSE, result |-> Failed(e), said |-> S]
  <2>1. Becomes(c, At(c, "done", r))
    BY Zenon, <1>4, GotoBecomes DEF Goto
  <2>2. {"pc", "key", "cond", "current", "alone"} \cap DOMAIN r = {}
        /\ {"result", "hit"} \subseteq DOMAIN r /\ r["result"] = Failed(e)
    OBVIOUS
  <2> HIDE DEF r
  <2>3. ~r["result"].ok
    BY <2>2 DEF Failed
  <2> QED
    BY Zenon, <1>1, <1>2, <2>1, <2>2, <2>3, KeptListed, DoneGood
<1> QED
  BY Zenon, <1>3, <1>4 DEF Replica

\* A call asks with the entry of its ref.
LEMMA LimitedGood ==
    ASSUME CInv, NEW c \in Callers, Limited(c)
    PROVE  CInv'
<1> DEFINE k == call[c].key
<1>1. In(c, "limited") /\ UNCHANGED <<ref, backend>>
  BY Zenon DEF Limited
<1>2. /\ ~In(c, "idle") /\ Asks(call[c]) /\ k \in Keys
      /\ call[c].alone = TRUE => backend[k] \in call[c].current
  BY Zenon, <1>1, UnderwayGood
<1>3. CASE /\ lru' = IF k \in Revalidated THEN Touched(k) ELSE lru
           /\ Goto(c, "auth", [cond |-> Validators(k)])
  <2> DEFINE r == [cond |-> Validators(k)]
             a == At(c, "auth", r)
  <2>1. Becomes(c, a)
    BY Zenon, <1>3, GotoBecomes DEF Goto
  <2>2. /\ {"pc", "key", "current", "alone"} \cap DOMAIN r = {}
        /\ "cond" \in DOMAIN r /\ r["cond"] = Validators(k)
    OBVIOUS
  <2> HIDE DEF r
  <2>3. k \notin Revalidated => Validators(k) = None
    BY DEF Validators
  <2>4. /\ "pc" \in DOMAIN a /\ a.pc = "auth" /\ a.key = k /\ a.alone = call[c].alone
        /\ a.current = call[c].current /\ Asks(a) /\ a["cond"] = r["cond"]
    <3>1. GoesOn(a, c, "auth", r)
      BY Zenon, <1>2, <2>2, <2>3, AtAsks
    <3>2. "auth" \notin {"answer", "done"}
      OBVIOUS
    <3> HIDE DEF a
    <3> QED
      BY Zenon, <2>2, <3>1, <3>2 DEF GoesOn
  <2> HIDE DEF a
  <2>5. CASE k \notin Revalidated
    <3>1. a.alone = TRUE => Knows(a, lru')
      BY Zenon, <1>2, <2>4, <2>5 DEF Knows
    <3> QED
      BY Zenon, <1>1, <1>2, <1>3, <2>1, <2>4, <2>5, <3>1, KeptListed, GoesOnGood
  <2>6. CASE k \in Revalidated
    <3>1. Listed(lru) /\ lru' = Touched(k)
      BY Zenon, <1>3, <2>6 DEF CInv
    <3>2. /\ Listed(lru') /\ LeavesOthers(lru', k)
          /\ \A i \in 1 .. Len(lru') :
                lru'[i].key = k => Entry(k) # None /\ lru'[i] = Entry(k)
      BY Zenon, <3>1, TouchedListed, HTTPClientAssumption DEF Entries
    <3>3. Entry(k) # None => a.cond = Entry(k).etag
      BY Zenon, <2>2, <2>4, <2>6 DEF Validators
    <3>4. a.alone = TRUE => Knows(a, lru')
      BY Zenon, <1>2, <2>4, <3>2, <3>3 DEF Knows
    <3> QED
      BY Zenon, <1>1, <1>2, <2>1, <2>4, <3>2, <3>4, GoesOnGood
  <2> QED
    BY <2>5, <2>6
<1>4. CASE Goto(c, "done", [hit |-> FALSE, result |-> Failed("unknown")]) /\ UNCHANGED lru
  <2> DEFINE r == [hit |-> FALSE, result |-> Failed("unknown")]
  <2>1. Becomes(c, At(c, "done", r))
    BY Zenon, <1>4, GotoBecomes DEF Goto
  <2>2. {"pc", "key", "cond", "current", "alone"} \cap DOMAIN r = {}
        /\ {"result", "hit"} \subseteq DOMAIN r /\ r["result"] = Failed("unknown")
    OBVIOUS
  <2> HIDE DEF r
  <2>3. ~r["result"].ok
    BY <2>2 DEF Failed
  <2> QED
    BY Zenon, <1>1, <1>2, <1>4, <2>1, <2>2, <2>3, KeptListed, DoneGood
<1> QED
  BY Zenon, <1>3, <1>4 DEF Limited

\* An answer that says no more than what the ref has.
LEMMA AnswersGood ==
    ASSUME CInv, UNCHANGED <<ref, backend, lru>>, NEW c \in Callers, In(c, "send"),
           NEW r, Goto(c, "answer", r),
           {"pc", "key", "cond", "current", "alone"} \cap DOMAIN r = {},
           {"status", "body"} \subseteq DOMAIN r,
           r["status"] = "ok" => r["body"] = backend[call[c].key],
           r["status"] = "not_modified" =>
              /\ call[c].key \in Revalidated
              /\ call[c].cond = None \/ call[c].cond = backend[call[c].key]
    PROVE  CInv'
<1> DEFINE a == At(c, "answer", r)
<1>1. /\ ~In(c, "idle") /\ Asks(call[c]) /\ call[c].key \in Keys
      /\ call[c].alone = TRUE => Knows(call[c], lru)
      /\ call[c].alone = TRUE => backend[call[c].key] \in call[c].current
  BY Zenon, UnderwayGood
<1>2. Becomes(c, a)
  BY Zenon, GotoBecomes DEF Goto
<1>3. backend[call[c].key] \in Nat /\ call[c].pc = "send"
  BY Zenon, <1>1 DEF CInv, In
<1>4. /\ {"pc", "key", "current", "alone"} \cap DOMAIN r = {} /\ "cond" \notin DOMAIN r
      /\ "status" \in DOMAIN r /\ "body" \in DOMAIN r
  OBVIOUS
<1>5. /\ "pc" \in DOMAIN a /\ a.pc = "answer" /\ a.key = call[c].key
      /\ a.alone = call[c].alone /\ a.current = call[c].current /\ a.cond = call[c].cond
      /\ {"status", "body", "key", "cond", "current", "alone"} \subseteq DOMAIN a
      /\ a.status = r["status"] /\ a.body = r["body"]
  <2>1. DOMAIN a = DOMAIN Kept(c, "answer") \cup DOMAIN r
    BY Zenon DEF At, Over
  <2>2. {"key", "cond", "current", "alone"} \subseteq DOMAIN Kept(c, "answer")
    BY Zenon DEF Kept
  <2> QED
    BY Zenon, <1>1, <1>4, <2>1, <2>2 DEF At, Over, Kept
<1> HIDE DEF a
<1>6. Asks(a)
  BY Zenon, <1>1, <1>3, <1>5 DEF Asks
<1>7. a.alone = TRUE => Knows(a, lru')
  <2> SUFFICES ASSUME a.alone = TRUE PROVE Knows(a, lru')
    BY Zenon
  <2>1. Knows(call[c], lru) /\ backend[call[c].key] \in call[c].current
    BY Zenon, <1>1, <1>5
  <2>2. call[c].key \in Revalidated =>
          \A i \in 1 .. Len(lru) : lru[i].key = call[c].key => lru[i].etag = call[c].cond
    BY Zenon, <1>3, <2>1 DEF Knows, Asking
  <2> QED
    BY Zenon, <1>5, <2>1, <2>2 DEF Knows
<1>8. Listed(lru') /\ LeavesOthers(lru', call[c].key)
  BY Zenon, KeptListed
<1> QED
  BY Zenon, <1>1, <1>2, <1>5, <1>6, <1>7, <1>8, GoesOnGood

\* The API answers as it stands.
LEMMA SendGood ==
    ASSUME CInv, NEW c \in Callers, Send(c)
    PROVE  CInv'
<1> DEFINE k == call[c].key
           v == backend[k]
           sent(s) == [status |-> s, body |-> v]
<1>1. In(c, "send") /\ UNCHANGED <<ref, backend, lru>>
  BY Zenon DEF Send
<1>2. v \in Nat /\ None \notin Nat /\ (k \notin Revalidated => call[c].cond = None)
  <2>1. Asks(call[c]) /\ k \in Keys
    BY Zenon, <1>1, UnderwayGood
  <2> QED
    BY Zenon, <2>1, HTTPClientAssumption DEF CInv, Asks
<1>3. ASSUME NEW s, Goto(c, "answer", sent(s)),
             s = "not_modified" => k \in Revalidated /\ (call[c].cond = None \/ call[c].cond = v)
      PROVE  CInv'
  <2>1. /\ {"pc", "key", "cond", "current", "alone"} \cap DOMAIN sent(s) = {}
        /\ {"status", "body"} \subseteq DOMAIN sent(s)
        /\ sent(s)["status"] = s /\ sent(s)["body"] = v
    OBVIOUS
  <2> HIDE DEF sent
  <2> QED
    BY Zenon, <1>1, <1>3, <2>1, AnswersGood
<1>4. ASSUME NEW kind \in Kinds, NEW S,
             Goto(c, "answer", [status |-> kind, body |-> None, said |-> S])
      PROVE  CInv'
  <2> DEFINE r == [status |-> kind, body |-> None, said |-> S]
  <2>1. kind # "ok" /\ kind # "not_modified"
    BY HTTPClientAssumption DEF ErrorKinds, KindOrder
  <2>2. /\ {"pc", "key", "cond", "current", "alone"} \cap DOMAIN r = {}
        /\ {"status", "body"} \subseteq DOMAIN r /\ r["status"] = kind
    OBVIOUS
  <2>3. Goto(c, "answer", r)
    BY <1>4
  <2> HIDE DEF r
  <2> QED
    BY Zenon, <1>1, <2>1, <2>2, <2>3, AnswersGood
<1>5. \/ call[c].cond = v /\ Goto(c, "answer", sent("not_modified"))
      \/ call[c].cond # v /\ Goto(c, "answer", sent("ok"))
      \/ \E kind \in Kinds :
            Goto(c, "answer", [status |-> kind, body |-> None,
                               said |-> call[c].said \cup {<<"api", kind>>}])
      \/ k \in Revalidated /\ call[c].cond = None /\ Goto(c, "answer", sent("not_modified"))
      \/ Goto(c, "answer", sent("unavailable"))
  BY Zenon DEF Send
<1> HIDE DEF sent
<1>6. call[c].cond = v => k \in Revalidated
  BY Zenon, <1>2
<1>7. "ok" # "not_modified" /\ "unavailable" # "not_modified"
  OBVIOUS
<1> QED
  BY Zenon, <1>3, <1>4, <1>5, <1>6, <1>7

\* A 304 is paired with the entry the call asked with; anything else replaces or drops it.
LEMMA AnswerGood ==
    ASSUME CInv, NEW c \in Callers, Answer(c)
    PROVE  CInv'
<1> DEFINE k == call[c].key
           s == call[c].status
<1>1. In(c, "answer") /\ call[c].pc = "answer" /\ UNCHANGED <<ref, backend>>
  BY Zenon DEF Answer, In
<1>2. /\ ~In(c, "idle") /\ Asks(call[c]) /\ k \in Keys /\ Listed(lru)
      /\ call[c].alone = TRUE => Knows(call[c], lru)
      /\ call[c].alone = TRUE => backend[k] \in call[c].current
  BY Zenon, <1>1, UnderwayGood DEF CInv
<1>3. Listed(Without(k)) /\ LeavesOthers(Without(k), k)
  <2>1. Listed(Without(k))
    BY Zenon, <1>2, WithoutListed
  <2>2. \A i \in 1 .. Len(Without(k)) : \E j \in 1 .. Len(lru) : Without(k)[i] = lru[j]
    BY Zenon, <1>2, WithoutListed
  <2> QED
    BY Zenon, <2>1, <2>2 DEF LeavesOthers
<1>4. None \notin Entries /\ None \notin Nat
  BY Zenon, HTTPClientAssumption DEF Entries
<1>5. ASSUME NEW kind, Fail(c, kind), lru' = Without(k) \/ lru' = lru
      PROVE  CInv'
  <2>1. Listed(lru') /\ LeavesOthers(lru', k)
    BY Zenon, <1>3, <1>5, KeptListed
  <2> QED
    BY Zenon, <1>1, <1>2, <1>5, <2>1, FailureGood, GotoBecomes DEF Fail
<1>6. CASE s = "not_modified" /\ Entry(k) # None /\ lru' = Touched(k) /\ Succeed(c, Entry(k).body)
  <2>1. Listed(lru') /\ LeavesOthers(lru', k)
    BY Zenon, <1>2, <1>4, <1>6, TouchedListed
  <2>2. PICK i \in 1 .. Len(lru) : lru[i] = Entry(k) /\ lru[i].key = k
    BY Zenon, <1>2, <1>4, <1>6, EntryListed
  <2>3. /\ lru[i] \in Entries /\ lru[i].body = lru[i].etag
    BY Zenon, <1>2, <2>2, ElementOfSeq DEF Listed
  <2>4. call[c].alone = TRUE => Entry(k).body \in call[c].current
    <3> SUFFICES ASSUME call[c].alone = TRUE PROVE Entry(k).body \in call[c].current
      BY Zenon
    <3>1. Knows(call[c], lru) /\ k \in Revalidated
      BY Zenon, <1>1, <1>2, <1>6 DEF Asks
    <3>2. lru[i].etag = call[c].cond /\ (call[c].cond = None \/ call[c].cond \in call[c].current)
      BY Zenon, <1>1, <1>6, <2>2, <3>1 DEF Knows, Asking
    <3>3. lru[i].etag \in Nat
      BY <2>3 DEF Entries
    <3> QED
      BY Zenon, <1>4, <2>2, <2>3, <3>2, <3>3
  <2> QED
    BY Zenon, <1>1, <1>2, <1>6, <2>1, <2>4, SucceedGood
<1>7. CASE Entry(k) = None /\ Goto(c, "auth", [cond |-> None, retry |-> TRUE]) /\ UNCHANGED lru
  <2> DEFINE r == [cond |-> None, retry |-> TRUE]
             a == At(c, "auth", r)
  <2>1. Becomes(c, a)
    BY Zenon, <1>7, GotoBecomes DEF Goto
  <2>2. /\ {"pc", "key", "current", "alone"} \cap DOMAIN r = {}
        /\ "cond" \in DOMAIN r /\ r["cond"] = None
    OBVIOUS
  <2> HIDE DEF r
  <2>4. /\ "pc" \in DOMAIN a /\ a.pc = "auth" /\ a.key = k /\ a.alone = call[c].alone
        /\ a.current = call[c].current /\ Asks(a)
    <3>1. GoesOn(a, c, "auth", r)
      BY Zenon, <1>2, <2>2, AtAsks
    <3>2. "auth" \notin {"answer", "done"}
      OBVIOUS
    <3> HIDE DEF a
    <3> QED
      BY Zenon, <2>2, <3>1, <3>2 DEF GoesOn
  <2> HIDE DEF a
  <2>5. \A i \in 1 .. Len(lru) : lru[i].key # k
    BY Zenon, <1>2, <1>4, <1>7, EntryListed
  <2>6. a.alone = TRUE => Knows(a, lru')
    BY Zenon, <1>2, <1>1, <1>7, <2>4, <2>5 DEF Knows
  <2> QED
    BY Zenon, <1>1, <1>2, <1>7, <2>1, <2>4, <2>6, KeptListed, GoesOnGood
<1>8. CASE /\ s = "ok" /\ Succeed(c, call[c].body)
           /\ lru' = IF k \in Revalidated THEN Stored(k, call[c].body) ELSE lru
  <2>1. call[c].body \in Nat /\ (call[c].alone = TRUE => call[c].body \in call[c].current)
    BY Zenon, <1>1, <1>2, <1>8 DEF Asks, Knows
  <2>2. Listed(lru') /\ LeavesOthers(lru', k)
    BY Zenon, <1>2, <1>8, <2>1, StoredListed, KeptListed
  <2> QED
    BY Zenon, <1>1, <1>2, <1>8, <2>1, <2>2, SucceedGood
<1> QED
  BY Zenon, <1>5, <1>6, <1>7, <1>8 DEF Answer, Unpaired

\* A caller that is back asks for nothing.
LEMMA LeaveGood ==
    ASSUME CInv, NEW c \in Callers, Leave(c)
    PROVE  CInv'
<1>1. /\ call' = [call EXCEPT ![c] = Idle] /\ UNCHANGED <<ref, backend, lru>>
      /\ DOMAIN call = Callers
  BY Zenon DEF Leave, CInv
<1>2. /\ DOMAIN call' = Callers /\ call'[c] = Idle
      /\ \A d \in Callers \ {c} : call'[d] = call[d]
  BY Zenon, <1>1
<1>3. "pc" \in DOMAIN Idle /\ Idle.pc = "idle"
  BY DEF Idle
<1>4. Good(call[c])'
  BY Zenon, <1>2, <1>3 DEF Good
<1>5. ASSUME NEW d \in Callers \ {c} PROVE Good(call[d])'
  <2>1. Good(call[d]) /\ call'[d] = call[d]
    BY Zenon, <1>2 DEF CInv
  <2> QED
    BY Zenon, <1>1, <2>1, GoodNext DEF Good
<1>6. Apart'
  BY Zenon, <1>2, <1>3, StaysApart DEF CInv, In
<1> QED
  BY Zenon, <1>1, <1>2, <1>4, <1>5, <1>6 DEF CInv

\* Neither a cancellation nor the clock touches what an answer is made of.
LEMMA CancelGood ==
    ASSUME CInv, NEW c \in Callers, Cancel(c)
    PROVE  CInv'
<1> DEFINE r == [call[c] EXCEPT !.cancelled = TRUE]
<1>1. UNCHANGED <<ref, backend, lru>> /\ call' = [call EXCEPT ![c] = r] /\ DOMAIN call = Callers
  BY Zenon DEF Cancel, CInv
<1>2. "cancelled" \notin Looked
  BY DEF Looked
<1>3. Alike(r, call[c])
  BY Zenon, <1>2, TouchedAlike
<1> HIDE DEF r
<1>4. ASSUME NEW d \in Callers PROVE Alike(call'[d], call[d])
  <2>1. Alike(call[d], call[d])
    BY DEF Alike
  <2> QED
    BY Zenon, <1>1, <1>3, <2>1
<1> QED
  BY Zenon, <1>1, <1>4, QuietGood

\* Nothing an answer is made of changes.
LEMMA StillGood ==
    ASSUME CInv, UNCHANGED <<ref, backend, lru, call>>
    PROVE  CInv'
<1>1. ASSUME NEW d \in Callers PROVE Alike(call'[d], call[d])
  BY DEF Alike
<1> QED
  BY Zenon, <1>1, QuietGood DEF CInv

\* The value behind a ref changes under the calls that ask for it, and each collects it.
LEMMA MovesGood ==
    ASSUME CInv, NEW k \in Keys, BackendMoves(k)
    PROVE  CInv'
<1> DEFINE more(d) == [call[d] EXCEPT !.current = @ \cup {backend[k] + 1}]
<1>1. /\ backend' = [backend EXCEPT ![k] = @ + 1] /\ UNCHANGED <<ref, lru>>
      /\ DOMAIN backend = Keys /\ \A l \in Keys : backend[l] \in Nat
  BY Zenon DEF BackendMoves, CInv
<1>2. /\ DOMAIN backend' = Keys /\ backend'[k] = backend[k] + 1
      /\ \A l \in Keys : backend'[l] \in Nat /\ (l # k => backend'[l] = backend[l])
  BY <1>1
<1>3. call' = [d \in Callers |-> IF ~In(d, "idle") /\ call[d].key = k /\ call[d].alone
                                 THEN more(d) ELSE call[d]]
  BY Zenon DEF BackendMoves
<1>4. ASSUME NEW d \in Callers
      PROVE  /\ Good(call[d])' /\ call'[d].pc = call[d].pc
             /\ ~In(d, "idle") => call'[d].key = call[d].key /\ call'[d].alone = call[d].alone
  <2> DEFINE r == call[d]
             s == call'[d]
  <2>1. Good(r)
    BY Zenon DEF CInv
  <2>2. CASE r.pc = "idle"
    <3>1. s = r
      BY Zenon, <1>3, <2>2 DEF In
    <3> QED
      BY Zenon, <2>1, <2>2, <3>1 DEF Good, In
  <2>3. CASE r.pc # "idle" /\ r.key = k /\ r.alone = TRUE
    <3>1. s = more(d)
      BY Zenon, <1>3, <2>3 DEF In
    <3>2. Asks(r) /\ Knows(r, lru) /\ "pc" \in DOMAIN r
      BY Zenon, <2>1, <2>3 DEF Good
    <3>3. "current" \in DOMAIN r
      BY Zenon, <3>2 DEF Asks
    <3>4. /\ DOMAIN s = DOMAIN r /\ s["current"] = r["current"] \cup {backend[k] + 1}
          /\ \A x \in DOMAIN r \ {"current"} : s[x] = r[x]
      BY Zenon, <3>1, <3>3
    <3> HIDE DEF more, s, r
    <3>5. /\ s.pc = r.pc /\ s.key = r.key /\ s.cond = r.cond /\ s.alone = r.alone
          /\ s.current = r.current \cup {backend[k] + 1}
          /\ r.pc = "answer" => s.status = r.status /\ s.body = r.body
          /\ r.pc = "done" => s.result = r.result /\ s.hit = r.hit
      BY Zenon, <3>2, <3>4 DEF Asks
    <3>6. Asks(s)
      BY Zenon, <3>2, <3>4, <3>5 DEF Asks
    <3>7. /\ r.pc \in Asking /\ r.key \in Revalidated =>
               \A i \in 1 .. Len(lru') : lru'[i].key = r.key => lru'[i].etag = r.cond
          /\ r.pc = "answer" /\ r.status = "ok" => r.body \in r.current
          /\ r.pc = "answer" /\ r.status = "not_modified" => r.cond = None \/ r.cond \in r.current
          /\ r.pc = "done" /\ r.result.ok /\ ~r.hit => r.result.body \in r.current
      BY Zenon, <1>1, <3>2 DEF Knows
    <3>8. Knows(call[d], lru)'
      <4>1. backend'[s.key] \in s.current
        BY Zenon, <1>2, <2>3, <3>5
      <4>2. /\ s.pc = "answer" /\ s.status = "ok" => s.body \in s.current
            /\ s.pc = "answer" /\ s.status = "not_modified" => s.cond = None \/ s.cond \in s.current
            /\ s.pc = "done" /\ s.result.ok /\ ~s.hit => s.result.body \in s.current
        BY Zenon, <3>5, <3>7
      <4>3. s.pc \in Asking /\ s.key \in Revalidated =>
               \A i \in 1 .. Len(lru') : lru'[i].key = s.key => lru'[i].etag = s.cond
        BY Zenon, <3>5, <3>7
      <4> QED
        BY Zenon, <4>1, <4>2, <4>3 DEF Knows, s
    <3> QED
      BY Zenon, <3>2, <3>4, <3>5, <3>6, <3>8 DEF Good, Asks, s, r, In
  <2>4. CASE r.pc # "idle" /\ ~(r.key = k /\ r.alone = TRUE)
    <3>1. Asks(r) /\ (r.alone = TRUE => Knows(r, lru)) /\ "pc" \in DOMAIN r
      BY Zenon, <2>1, <2>4 DEF Good
    <3>2. r.key \in Keys /\ r.alone \in BOOLEAN
      BY Zenon, <3>1 DEF Asks
    <3>3. s = r
      <4>1. ~(r.key = k /\ r.alone)
        BY <2>4, <3>2
      <4> QED
        BY Zenon, <1>3, <4>1
    <3>4. r.alone = TRUE => backend'[r.key] = backend[r.key]
      BY Zenon, <1>2, <2>4, <3>2
    <3>5. r.alone = TRUE => Knows(call[d], lru)'
      BY Zenon, <1>1, <3>1, <3>3, <3>4 DEF Knows
    <3>6. Asks(call[d])'
      BY Zenon, <3>1, <3>3 DEF Asks
    <3> QED
      BY Zenon, <3>1, <3>3, <3>5, <3>6 DEF Good
  <2> QED
    BY Zenon, <2>2, <2>3, <2>4
<1>5. Apart'
  <2> SUFFICES ASSUME NEW x \in Callers, NEW y \in Callers, x # y, call'[x].pc # "idle",
                      call'[y].pc # "idle", call'[x].alone = TRUE
               PROVE  call'[y].key # call'[x].key
    BY Zenon DEF Apart, In
  <2>1. /\ ~In(x, "idle") /\ call'[x].key = call[x].key /\ call[x].alone = TRUE
        /\ ~In(y, "idle") /\ call'[y].key = call[y].key
    BY Zenon, <1>4 DEF In
  <2> QED
    BY Zenon, <2>1 DEF CInv, Apart
<1>6. DOMAIN call' = Callers
  BY Zenon, <1>3
<1>7. Listed(lru)'
  BY Zenon, <1>1 DEF CInv, Listed
<1>8. ref' \in Programs
  BY Zenon, <1>1 DEF CInv
<1>9. \A d \in Callers : Good(call[d])'
  BY Zenon, <1>4
<1> QED
  BY Zenon, <1>2, <1>5, <1>6, <1>7, <1>8, <1>9 DEF CInv

\* A call joins those of its ref, which overlap it from now on.
LEMMA ResolveGood ==
    ASSUME CInv, NEW c \in Callers, NEW k \in Keys, Resolve(c, k)
    PROVE  CInv'
<1> DEFINE b == Begun(c, k)
           less(d) == [call[d] EXCEPT !.alone = FALSE, !.current = {}]
           same(d) == ~In(d, "idle") /\ call[d].key = k
<1>1. In(c, "idle") /\ UNCHANGED <<ref, backend, lru>>
  BY Zenon DEF Resolve
<1>2. PICK p : /\ call' = Joined(c, k, Over(p, b))
               /\ \/ p = [pc |-> "done", result |-> Ok(memo[k].val), hit |-> TRUE]
                  \/ p = [pc |-> "limited", slot |-> IF MustSpace(k) THEN Slot(k) ELSE 0]
  BY Zenon DEF Resolve
<1> DEFINE r == Over(p, b)
<1>3. /\ {"key", "cond", "current", "alone"} \cap DOMAIN p = {} /\ "pc" \in DOMAIN p
      /\ p["pc"] \in {"done", "limited"}
      /\ p["pc"] = "done" => {"result", "hit"} \subseteq DOMAIN p /\ p["hit"] = TRUE
  BY <1>2
<1>4. /\ {"key", "cond", "current", "alone"} \subseteq DOMAIN b
      /\ b["key"] = k /\ b["cond"] = None
      /\ b["alone"] = (\A d \in Callers \ {c} : In(d, "idle") \/ call[d].key # k)
      /\ b["current"] = IF \A d \in Callers \ {c} : In(d, "idle") \/ call[d].key # k
                        THEN {backend[k]} ELSE {}
  BY Zenon DEF Begun
<1>5. /\ b["alone"] \in BOOLEAN
      /\ b["alone"] = TRUE => /\ \A d \in Callers \ {c} : In(d, "idle") \/ call[d].key # k
                              /\ backend[k] \in b["current"]
  BY Zenon, <1>4
<1> HIDE DEF b
<1>6. /\ "pc" \in DOMAIN r /\ r.pc \in {"done", "limited"} /\ r.key = k /\ r.cond = None
      /\ {"key", "cond", "current", "alone"} \subseteq DOMAIN r
      /\ r.alone = b["alone"] /\ r.current = b["current"]
      /\ r.pc = "done" => {"result", "hit"} \subseteq DOMAIN r /\ r.hit = TRUE
  BY Zenon, <1>3, <1>4 DEF Over
<1>7. /\ DOMAIN call' = Callers /\ call'[c] = r
      /\ \A d \in Callers \ {c} : call'[d] = IF same(d) THEN less(d) ELSE call[d]
  BY Zenon, <1>2 DEF Joined
<1> HIDE DEF r
<1>8. Asks(r)
  BY Zenon, <1>5, <1>6 DEF Asks
<1>9. r.alone = TRUE => Knows(r, lru')
  BY Zenon, <1>5, <1>6 DEF Knows, Asking
<1>10. Good(call[c])'
  BY Zenon, <1>1, <1>6, <1>7, <1>8, <1>9, GoodNext
<1>11. ASSUME NEW d \in Callers \ {c}
       PROVE  /\ Good(call[d])' /\ call'[d].pc = call[d].pc
              /\ ~In(d, "idle") => /\ call'[d].key = call[d].key
                                   /\ call'[d].alone = TRUE => call[d].alone = TRUE /\ call[d].key # k
  <2>1. Good(call[d])
    BY Zenon DEF CInv
  <2>2. CASE same(d)
    <3> DEFINE s == less(d)
    <3>1. Asks(call[d]) /\ "pc" \in DOMAIN call[d]
      BY Zenon, <2>1, <2>2 DEF Good, In
    <3>2. "alone" \in DOMAIN call[d]
      BY Zenon, <3>1 DEF Asks
    <3>3. /\ DOMAIN s = DOMAIN call[d] /\ s["alone"] = FALSE
          /\ \A x \in DOMAIN call[d] \ {"alone", "current"} : s[x] = call[d][x]
      BY Zenon, <3>2
    <3>4. call'[d] = s
      BY Zenon, <1>7, <2>2
    <3> HIDE DEF less
    <3>5. s.pc = call[d].pc /\ s.key = call[d].key /\ s.alone = FALSE
      BY Zenon, <3>1, <3>3 DEF Asks
    <3>6. Asks(s)
      BY Zenon, <3>1, <3>3 DEF Asks
    <3>7. "pc" \in DOMAIN s
          /\ (s.pc # "idle" => Asks(s) /\ (s.alone = TRUE => Knows(s, lru')))
      BY Zenon, <3>1, <3>3, <3>5, <3>6
    <3>8. Good(call[d])'
      BY Zenon, <1>1, <3>4, <3>7, GoodNext
    <3> QED
      BY Zenon, <3>4, <3>5, <3>8
  <2>3. CASE ~same(d)
    <3>1. call'[d] = call[d]
      BY Zenon, <1>7, <2>3
    <3>2. "pc" \in DOMAIN call[d]
          /\ (call[d].pc # "idle" => Asks(call[d]) /\ (call[d].alone = TRUE => Knows(call[d], lru')))
      BY Zenon, <1>1, <2>1 DEF Good
    <3>3. Good(call[d])'
      BY Zenon, <1>1, <3>1, <3>2, GoodNext
    <3> QED
      BY Zenon, <2>3, <3>1, <3>3
  <2> QED
    BY Zenon, <2>2, <2>3
<1>12. Apart'
  <2> SUFFICES ASSUME NEW x \in Callers, NEW y \in Callers, x # y, call'[x].pc # "idle",
                      call'[y].pc # "idle", call'[x].alone = TRUE
               PROVE  call'[y].key # call'[x].key
    BY Zenon DEF Apart, In
  <2>1. CASE x = c
    <3>1. y \in Callers \ {c} /\ call'[x].key = k /\ r.alone = TRUE
      BY Zenon, <1>6, <1>7, <2>1
    <3>2. ~In(y, "idle") /\ call'[y].key = call[y].key
      BY Zenon, <1>11, <3>1 DEF In
    <3> QED
      BY Zenon, <1>5, <1>6, <3>1, <3>2
  <2>2. CASE x # c
    <3>1. ~In(x, "idle") /\ call'[x].key = call[x].key /\ call[x].alone = TRUE /\ call[x].key # k
      BY Zenon, <1>11, <2>2 DEF In
    <3>2. CASE y = c
      BY Zenon, <1>6, <1>7, <3>1, <3>2
    <3>3. CASE y # c
      <4>1. ~In(y, "idle") /\ call'[y].key = call[y].key
        BY Zenon, <1>11, <3>3 DEF In
      <4> QED
        BY Zenon, <3>1, <4>1 DEF CInv, Apart
    <3> QED
      BY Zenon, <3>2, <3>3
  <2> QED
    BY Zenon, <2>1, <2>2
<1>13. Listed(lru)' /\ ref' \in Programs
  BY Zenon, <1>1 DEF CInv, Listed
<1>14. \A d \in Callers : Good(call[d])'
  BY Zenon, <1>10, <1>11
<1>15. DOMAIN backend' = Keys /\ \A l \in Keys : backend'[l] \in Nat
  BY Zenon, <1>1 DEF CInv
<1> QED
  BY Zenon, <1>7, <1>12, <1>13, <1>14, <1>15 DEF CInv

-----------------------------------------------------------------------------

\* Nobody has asked for anything.
LEMMA CInit ==
    Init => CInv
<1> SUFFICES ASSUME Init PROVE CInv
  OBVIOUS
<1>1. /\ ref \in Programs /\ DOMAIN call = Callers /\ DOMAIN backend = Keys
      /\ \A k \in Keys : backend[k] \in Nat
  BY DEF Init
<1>2. ASSUME NEW c \in Callers PROVE In(c, "idle") /\ Good(call[c])
  BY Zenon DEF Init, Good, Idle, In
<1>3. Listed(lru)
  <2>1. lru = <<>> /\ lru \in Seq(Entries) /\ Len(lru) = 0
    BY EmptySeq DEF Init
  <2> QED
    BY <2>1 DEF Listed
<1>4. Apart
  BY Zenon, <1>2 DEF Apart
<1> QED
  BY Zenon, <1>1, <1>2, <1>3, <1>4 DEF CInv

\* Every step keeps what answers are made of.
LEMMA CNext ==
    CInv /\ [Next]_vars => CInv'
<1> SUFFICES ASSUME CInv, [Next]_vars PROVE CInv'
  OBVIOUS
<1>1. \A c \in Callers : ref[c] \in Keys
  BY Zenon, HTTPClientAssumption DEF CInv
<1>2. ASSUME NEW c \in Callers, Resolve(c, ref[c]) PROVE CInv'
  BY Zenon, <1>1, <1>2, ResolveGood
<1>3. ASSUME NEW c \in Callers, Step(c) PROVE CInv'
  BY Zenon, <1>3, LimitedGood, AuthGood, ExchangeEndsGood, SettleGood, WaitingGood, SendGood,
     AnswerGood, ReplicaGood, LeaveGood DEF Step
<1>4. ASSUME NEW c \in Callers, Cancel(c) PROVE CInv'
  BY Zenon, <1>4, CancelGood
<1>5. ASSUME NEW k \in {ref[c] : c \in Callers}, BackendMoves(k) PROVE CInv'
  BY Zenon, <1>1, <1>5, MovesGood
<1>6. CASE Tick
  BY Zenon, <1>6, StillGood DEF Tick
<1>7. CASE UNCHANGED vars
  BY Zenon, <1>7, StillGood DEF vars
<1> QED
  BY Zenon, <1>2, <1>3, <1>4, <1>5, <1>6, <1>7 DEF Next

\* A call nobody overlaps answers with a value the backend had while it ran, never an
\* empty one, through evictions, failures and broken 304s (Get).
THEOREM AnswersAreCurrent ==
    Spec => []AnswerIsCurrent
<1>1. CInv => AnswerIsCurrent
  <2> SUFFICES ASSUME CInv, NEW c \in Callers, Done(c), call[c].result.ok, ~call[c].hit,
                      call[c].alone
               PROVE  call[c].result.body \in call[c].current
    BY Zenon DEF AnswerIsCurrent
  <2>1. call[c].pc = "done" /\ Asks(call[c]) /\ (call[c].alone = TRUE => Knows(call[c], lru))
    BY Zenon DEF CInv, Good, Done, In
  <2>2. call[c].alone = TRUE
    BY Zenon, <2>1 DEF Asks
  <2> QED
    BY Zenon, <2>1, <2>2 DEF Knows
<1> QED
  BY CInit, CNext, <1>1, PTL DEF Spec
=============================================================================
