------------------------------ MODULE Fallback ------------------------------
(***************************************************************************)
(* A request on its way through the candidates of its model                *)
(* (domain/llmproxy/service/resolver.go, application/llmproxy/usecase):    *)
(* the candidates are resolved and ordered once, the trigger words have    *)
(* their say, the candidates are tried one after another while failures    *)
(* and the context of the request allow it, and records of what happened   *)
(* are left for the audit and the bill.                                    *)
(*                                                                         *)
(* A row of the models table joins an endpoint to the model, with the pool *)
(* it belongs to (0 the caller's own, 1 public, 2 shared) and a priority.  *)
(* The order inside a priority is a random shuffle, here any order.  The   *)
(* time an upstream takes, the retries at one endpoint and its guard are   *)
(* the module Guard, the words are Moderation: here their verdict is any.  *)
(* What is said is abstracted away.                                        *)
(***************************************************************************)
EXTENDS Integers, Sequences, SequencesExt, FiniteSets

CONSTANTS Requests,           \* who takes part in one conversation
          Rows,               \* [id, pool, priority, oauth]; id is the endpoint's
          SharedPoolFallback, \* gateway.shared_pool_fallback
          MaxChanges          \* bound: changes of the rows and of the affinity

NoRow == 0

VARIABLES
    rows,     \* the rows there are
    usable,   \* those enabled, with an endpoint and a live credential
    affinity, \* the endpoint that answered this conversation last, or NoRow
    req,      \* the requests; done: the context has ended
    log,      \* history: the candidates tried, how each attempt went, and
              \* whether it ended later than the context
    audits,   \* history: the records submitted for a request: [row, usage]
    changes

vars == <<rows, usable, affinity, req, log, audits, changes>>

Idle == [pc |-> "idle", verdict |-> "none", cands |-> <<>>, pos |-> 0, pending |-> NoRow,
         error |-> "none", done |-> FALSE]

Init ==
    /\ rows \in SUBSET Rows
    /\ usable = rows
    /\ affinity = NoRow
    /\ req = [r \in Requests |-> Idle]
    /\ log = [r \in Requests |-> <<>>]
    /\ audits = [r \in Requests |-> <<>>]
    /\ changes = 0

stored == <<rows, usable, affinity, changes>>
At(r, pc) == req[r].pc = pc
Candidate(r) == req[r].cands[req[r].pos]

------------------------------------------------------------------------------
(* Resolving *)

\* The first pool with a row of that name, whether or not the row is of use:
\* a tenant whose own rows are all disabled is not served by the public ones.
Pools == IF SharedPoolFallback THEN {0, 1, 2} ELSE {0, 1}
Found ==
    LET there == {p \in Pools : \E m \in rows : m.pool = p}
    IN  {m \in rows : m.pool \in there /\ \A p \in there : m.pool <= p}

\* orderByScheduling
Ordered(S) == {s \in SetToSeqs(S) : \A i, j \in DOMAIN s : i < j => s[i].priority <= s[j].priority}

\* ResolveCandidatesWithAffinity: the endpoint of the conversation goes first,
\* if it is among the candidates.
Pinned(s) ==
    LET at == {i \in DOMAIN s : s[i].id = affinity}
    IN  IF at \subseteq {1} THEN s
        ELSE LET i == CHOOSE i \in at : TRUE IN <<s[i]>> \o RemoveAt(s, i)

\* The request goes on with these candidates.
Lined(r, cands) ==
    req' = [req EXCEPT ![r] = [@ EXCEPT !.pc = "words", !.pos = 1, !.cands = cands]]

\* The matcher: a subscription answers only streams to the Response API.
Resolve(r) ==
    /\ At(r, "idle")
    /\ \E oauthFits \in BOOLEAN :
          \E s \in Ordered({m \in Found \cap usable : m.oauth => oauthFits}) :
             s # <<>> /\ Lined(r, Pinned(s))
    /\ UNCHANGED <<stored, log, audits>>

\* Nothing of use under that name, or the tables cannot be read.
ResolveFails(r) ==
    /\ At(r, "idle")
    /\ req' = [req EXCEPT ![r].pc = "unresolved"]
    /\ UNCHANGED <<stored, log, audits>>

\* The trigger words: they pass the request on, refuse it, answer for it, or keep
\* its history aside and pass it on; but for the first case they leave a record,
\* under the name of the first candidate, which need not be the one that answers.
Words(r) ==
    /\ At(r, "words")
    /\ \E verdict \in {"pass", "aside", "refused", "captured"} :
          /\ req' = [req EXCEPT ![r] = [@ EXCEPT !.verdict = verdict,
                        !.pc = IF verdict \in {"pass", "aside"} THEN "try" ELSE verdict]]
          /\ audits' = [audits EXCEPT ![r] = IF verdict = "pass" THEN @
                            ELSE Append(@, [row |-> Candidate(r).id, usage |-> FALSE])]
    /\ UNCHANGED <<stored, log>>

------------------------------------------------------------------------------
(* One attempt: dispatch to the candidate *)

Logged(r, how) ==
    log' = [log EXCEPT ![r] = Append(@, [row |-> Candidate(r), how |-> how,
                                         late |-> req[r].done])]

\* Mutation of Attempted: the slot of a failure's record outlives its attempt.
AttemptedWithOldSlot(r, how, error, fails) ==
    /\ At(r, "try")
    /\ Logged(r, how)
    /\ req' = [req EXCEPT ![r] = [@ EXCEPT !.pc = "judge", !.error = error,
                                   !.pending = IF fails THEN Candidate(r).id ELSE @]]
    /\ UNCHANGED <<stored, audits>>

\* The attempt fails: its record waits in failureAuditDeferral if it got as far
\* as the upstream (auditFailure), and there is none otherwise.
Attempted(r, how, error, fails) ==
    /\ At(r, "try")
    /\ Logged(r, how)
    /\ req' = [req EXCEPT ![r] = [@ EXCEPT !.pc = "judge", !.error = error,
                                   !.pending = IF fails THEN Candidate(r).id ELSE NoRow]]
    /\ UNCHANGED <<stored, audits>>

\* The request does not convert to the protocol of the endpoint.
ConversionFails(r) == Attempted(r, "unconvertible", "final", FALSE)

\* OAuthCredentialError is switchable; the other errors of GetAccessToken are not.
TokenFails(r) ==
    \E error \in {"switchable", "final"} :
        At(r, "try") /\ Candidate(r).oauth /\ Attempted(r, "tokenless", error, FALSE)

\* No connection, 5xx, 429, breaker open or bulkhead full; or any other refusal.
ForwardFails(r) ==
    \E error \in {"switchable", "final"} : Attempted(r, "failed", error, TRUE)

\* A unary answer that does not convert back: the upstream has done the work,
\* and nothing records it.
AnswerUnconvertible(r) == Attempted(r, "lost", "final", FALSE)

\* rememberAffinity, best effort.
Remember(r) ==
    /\ affinity' \in {affinity, Candidate(r).id}
    /\ UNCHANGED <<rows, usable, changes>>

\* A unary answer is stored and recorded inside the attempt; usage that the
\* upstream does not state, or that cannot be read, is not charged.
Answers(r) ==
    /\ At(r, "try")
    /\ Logged(r, "answered")
    /\ \E usage \in BOOLEAN :
          audits' = [audits EXCEPT ![r] = Append(@, [row |-> Candidate(r).id, usage |-> usage])]
    /\ req' = [req EXCEPT ![r] = [@ EXCEPT !.pc = "answered", !.pending = NoRow]]
    /\ Remember(r)

\* An open stream is the end of the fallback.
OpensStream(r) ==
    /\ At(r, "try")
    /\ Logged(r, "opened")
    /\ req' = [req EXCEPT ![r] = [@ EXCEPT !.pc = "streaming", !.pending = NoRow]]
    /\ Remember(r)
    /\ UNCHANGED audits

------------------------------------------------------------------------------
(* runWithFallback, after an attempt that failed *)

Submit(r) ==
    audits' = [audits EXCEPT ![r] = IF req[r].pending = NoRow THEN @
                                    ELSE Append(@, [row |-> req[r].pending, usage |-> FALSE])]

\* The candidates are exhausted, the error is of the request, or the context has
\* ended: the error goes to the caller, and the record that waited is submitted.
GiveUp(r) ==
    /\ At(r, "judge")
    /\ req[r].error = "final" \/ req[r].pos = Len(req[r].cands) \/ req[r].done
    /\ Submit(r)
    /\ req' = [req EXCEPT ![r].pc = "failed"]
    /\ UNCHANGED <<stored, log>>

\* Mutation of Switch: the context is not looked at.
SwitchWhenDone(r) ==
    /\ At(r, "judge")
    /\ req[r].error = "switchable" /\ req[r].pos < Len(req[r].cands)
    /\ req' = [req EXCEPT ![r].pc = "try", ![r].pos = @ + 1]
    /\ UNCHANGED <<stored, log, audits>>

\* The record of a failure that is switched away from is dropped.
Switch(r) ==
    /\ At(r, "judge")
    /\ req[r].error = "switchable" /\ req[r].pos < Len(req[r].cands) /\ ~req[r].done
    /\ req' = [req EXCEPT ![r].pc = "try", ![r].pos = @ + 1]
    /\ UNCHANGED <<stored, log, audits>>

\* Stream.Read returns: the stream was read to its end, or the upstream or the
\* client broke it off.  A native Response stream that breaks after its terminal
\* event is charged, any other that breaks is not.
StreamEnds(r) ==
    /\ At(r, "streaming")
    /\ \E usage \in BOOLEAN, end \in {"answered", "broken"} :
          /\ audits' = [audits EXCEPT ![r] =
                            Append(@, [row |-> Candidate(r).id, usage |-> usage])]
          /\ req' = [req EXCEPT ![r].pc = end]
    /\ UNCHANGED <<stored, log>>

\* The stream's writer cannot be registered: the stream is closed unread, and
\* nothing records what the upstream has done.
StreamDropped(r) ==
    /\ At(r, "streaming")
    /\ req' = [req EXCEPT ![r].pc = "dropped"]
    /\ UNCHANGED <<stored, log, audits>>

Ended(r) ==
    req[r].pc \in {"unresolved", "refused", "captured", "failed", "answered", "broken", "dropped"}

\* Whoever calls the use case ends its context (as the repository's tests do).
\* The drain ends only contexts derived from it for each call to an upstream,
\* which is a failed attempt here.
ContextEnds(r) ==
    /\ ~Ended(r) /\ ~req[r].done
    /\ req' = [req EXCEPT ![r].done = TRUE]
    /\ UNCHANGED <<stored, log, audits>>

\* The conversation goes on.
NextRequest(r) ==
    /\ Ended(r)
    /\ req' = [req EXCEPT ![r] = Idle]
    /\ log' = [log EXCEPT ![r] = <<>>]
    /\ audits' = [audits EXCEPT ![r] = <<>>]
    /\ UNCHANGED stored

------------------------------------------------------------------------------
(* Administrators, credentials that die or come back, and the key's TTL *)

RowChanges ==
    /\ changes < MaxChanges
    /\ changes' = changes + 1
    /\ \/ \E m \in rows : usable' = (usable \ {m}) \cup ({m} \ usable) /\ UNCHANGED <<rows, affinity>>
       \/ \E m \in rows : rows' = rows \ {m} /\ usable' = usable \ {m} /\ UNCHANGED affinity
       \/ affinity' = NoRow /\ UNCHANGED <<rows, usable>>
    /\ UNCHANGED <<req, log, audits>>

Next ==
    \/ \E r \in Requests :
          \/ Resolve(r) \/ ResolveFails(r) \/ Words(r)
          \/ ConversionFails(r) \/ TokenFails(r) \/ ForwardFails(r)
          \/ AnswerUnconvertible(r) \/ Answers(r) \/ OpensStream(r)
          \/ GiveUp(r) \/ Switch(r) \/ StreamEnds(r) \/ StreamDropped(r)
          \/ ContextEnds(r) \/ NextRequest(r)
    \/ RowChanges

Spec == Init /\ [][Next]_vars

------------------------------------------------------------------------------
(* Properties *)

Ids == {m.id : m \in Rows}
Hows == {"unconvertible", "tokenless", "lost", "failed", "answered", "opened"}
Entry == [row : Rows, how : Hows, late : BOOLEAN]
Record == [row : Ids, usage : BOOLEAN]

TypeOK ==
    /\ rows \subseteq Rows /\ usable \subseteq rows
    /\ affinity \in Ids \cup {NoRow}
    /\ req \in [Requests ->
          [pc : {"idle", "unresolved", "words", "refused", "captured", "try", "judge",
                 "streaming", "failed", "answered", "broken", "dropped"},
           verdict : {"none", "pass", "aside", "refused", "captured"},
           cands : Seq(Rows), pos : Nat, pending : Ids \cup {NoRow},
           error : {"none", "final", "switchable"}, done : BOOLEAN]]
    /\ log \in [Requests -> Seq(Entry)]
    /\ audits \in [Requests -> Seq(Record)]
    /\ changes \in Nat

\* The words left a record of this request.
Remarked(r) == req[r].verdict \in {"aside", "refused", "captured"}

\* A call that reached an upstream leaves exactly one record when it ends, of the
\* endpoint that answered or failed it last, and none before; unrecorded end the
\* calls whose last attempt got neither an upstream's error nor a usable answer,
\* and the streams nobody could read.  Ahead of it goes the record of the words,
\* if they had something to remark, and a request they end is not called at all.
OneRecord ==
    \A r \in Requests :
        LET silent == \/ log[r] = <<>>
                      \/ Last(log[r]).how \in {"unconvertible", "tokenless", "lost"}
                      \/ At(r, "dropped")
            called == Ended(r) /\ ~silent
        IN  /\ Len(audits[r]) = (IF Remarked(r) THEN 1 ELSE 0) + (IF called THEN 1 ELSE 0)
            /\ Remarked(r) => Head(audits[r]).row = Head(req[r].cands).id
            /\ called => Last(audits[r]).row = Last(log[r]).row.id
            /\ req[r].verdict \in {"refused", "captured"} => log[r] = <<>>

\* Nobody is tried twice, nor before someone of a better priority, but for the
\* endpoint of the conversation, nor after an attempt that outlived the context
\* of the request; and a request whose context lives fails for a reason another
\* endpoint might not have only when all of them were tried.
TriedInTurn ==
    \A r \in Requests :
        LET tried == log[r]
        IN  /\ \A i, j \in DOMAIN tried : i < j =>
                  /\ tried[i].row # tried[j].row
                  /\ i > 1 => tried[i].row.priority <= tried[j].row.priority
                  /\ ~tried[i].late
            /\ req[r].pc = "failed" /\ req[r].error = "switchable" /\ ~req[r].done =>
                  {tried[i].row : i \in DOMAIN tried} = Range(req[r].cands)

------------------------------------------------------------------------------
(* Why the properties hold *)

\* The order of the candidates: nobody twice, the first one apart by priority.
InTurn(s) ==
    \A i, j \in DOMAIN s : i < j =>
        s[i] # s[j] /\ (i > 1 => s[i].priority <= s[j].priority)

\* What was tried is the candidates up to the position of the request, and a late
\* attempt is the last one.
Walked(r) ==
    /\ InTurn(req[r].cands)
    /\ req[r].pc \notin {"idle", "unresolved"} => req[r].pos \in DOMAIN req[r].cands
    /\ req[r].pc = "words" => req[r].pos = 1
    /\ Len(log[r]) = CASE req[r].pc \in {"idle", "unresolved", "words", "refused", "captured"} -> 0
                        [] req[r].pc = "try" -> req[r].pos - 1
                        [] OTHER -> req[r].pos
    /\ \A i \in DOMAIN log[r] :
          /\ log[r][i].row = req[r].cands[i]
          /\ log[r][i].late => i = Len(log[r]) /\ req[r].done /\ req[r].pc # "try"
    /\ req[r].pc = "failed" /\ req[r].error = "switchable" /\ ~req[r].done =>
          req[r].pos = Len(req[r].cands)

\* A record waits exactly from an upstream's refusal until it is judged, and the
\* words have judged what is tried or ended.
Judged(r) ==
    /\ req[r].pc \in {"judge", "failed"} =>
          /\ Last(log[r]).how \in Hows \ {"answered", "opened"}
          /\ req[r].pending = IF Last(log[r]).how = "failed" THEN Candidate(r).id ELSE NoRow
    /\ req[r].pc \in {"streaming", "answered", "broken", "dropped"} =>
          Last(log[r]).how \in {"answered", "opened"}
    /\ req[r].pc \in {"idle", "unresolved", "words"} => req[r].verdict = "none"
    /\ \A verdict \in {"refused", "captured"} : req[r].verdict = verdict <=> req[r].pc = verdict

\* The call of a request has its record.
Called(r) ==
    \/ req[r].pc \in {"answered", "broken"}
    \/ req[r].pc = "failed" /\ req[r].pending # NoRow

\* The records there are: of the words, then of the call.
Recorded(r) ==
    /\ Len(audits[r]) = (IF Remarked(r) THEN 1 ELSE 0) + (IF Called(r) THEN 1 ELSE 0)
    /\ Remarked(r) => audits[r][1].row = req[r].cands[1].id
    /\ Called(r) => audits[r][Len(audits[r])].row = Candidate(r).id
=============================================================================
