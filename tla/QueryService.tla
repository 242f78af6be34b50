----------------------------- MODULE QueryService ---------------------------
(***************************************************************************)
(* POST /api/v1/query of one server process: guard_query, retrieve() in a  *)
(* session, the far-field gate, plan_context and the provider, with every  *)
(* exception the handlers of errors.py turn into a response.  Requests     *)
(* interleave at every await; they share the limiter, the connection pool, *)
(* which GET /health/ready draws on too, and the one thread of the         *)
(* reranker's executor.                                                    *)
(***************************************************************************)
EXTENDS RateLimiter, ContextBudget

CONSTANTS
  Probes,       \* readiness checks there may be at once
  MaxRetries,   \* VoyageEmbedder._max_retries
  PoolLimit,    \* db_pool_size + db_max_overflow
  Backends,     \* settings.reranker
  HitLists,     \* HitLists[b]: what retrieve() may return with backend b
  Tokens        \* token count of every chunk

ASSUME ServiceAssumption ==
  /\ IsFiniteSet(Probes)
  /\ MaxRetries \in Nat \ {0}
  /\ PoolLimit \in Nat \ {0}
  /\ Backends \subseteq {"local", "none"}
  /\ \A b \in Backends : \A found \in HitLists[b] :
       IsHitList(found) /\ \A i \in DOMAIN found : Tokens[found[i].chunk] \in Nat

VARIABLES
  backend,      \* which reranker the process was started with
  pc,           \* pc[r]: the await request r is at
  pool,         \* requests holding a database connection
  pinging,      \* readiness checks holding one
  queue,        \* the executor: requests whose candidates are to be scored
  embeds,       \* embeds[r]: calls of the embedding provider
  prompt,       \* prompt[r]: the chunks the model was sent
  asks,         \* asks[r]: calls of the generation provider
  hits,         \* hits[r]: Retrieval.hits
  response      \* response[r]

serviceVars == <<backend, pc, pool, pinging, queue, embeds, prompt, asks, hits, response>>
vars == <<limiterVars, serviceVars>>

InRetrieve == {"embed", "names", "scoring"}
PC == {"new", "connect", "judge", "generate", "done"} \cup InRetrieve

Response(status) == [status |-> status, verdict |-> "none", answer |-> FALSE,
                     cited |-> << >>, retry |-> 0]
Pending == Response(0)

Init ==
  /\ LimiterInit
  /\ backend \in Backends
  /\ pc = [r \in Requests |-> "new"]
  /\ pool = {} /\ pinging = {} /\ queue = << >>
  /\ embeds = [r \in Requests |-> 0] /\ asks = [r \in Requests |-> 0]
  /\ hits = [r \in Requests |-> << >>] /\ prompt = [r \in Requests |-> << >>]
  /\ response = [r \in Requests |-> Pending]

Goto(r, label) == pc' = [pc EXCEPT ![r] = label]

Answer(r, resp) ==
  /\ Goto(r, "done")
  /\ response' = [response EXCEPT ![r] = resp]

(* mutant: the session is not closed when retrieve() raises                *)
RaiseOpen(r, status) ==
  /\ Answer(r, Response(status))
  /\ UNCHANGED <<limiterVars, backend, pinging, pool, prompt, asks, hits>>

(* An exception leaves `async with session`, which gives its connection    *)
(* back, and becomes the response of its handler; 500 is the catch-all.    *)
Raise(r, status) ==
  /\ Answer(r, Response(status))
  /\ pool' = pool \ {r}
  /\ UNCHANGED <<limiterVars, backend, pinging, prompt, asks, hits>>

(* retrieve() goes on, in its session.                                     *)
Proceed(r, label) ==
  /\ Goto(r, label)
  /\ UNCHANGED <<limiterVars, backend, pinging, pool, prompt, asks, hits, response>>

(* retrieve() returns and the session is left.                             *)
Retrieved(r) ==
  /\ \E found \in HitLists[backend] : hits' = [hits EXCEPT ![r] = found]
  /\ Goto(r, "judge")
  /\ pool' = pool \ {r}
  /\ UNCHANGED <<limiterVars, backend, pinging, prompt, asks, response>>

-----------------------------------------------------------------------------
(* guard_query and then the body, with no await between: the credential,   *)
(* the limits, and only then a 422.                                        *)
Unauthenticated(r) ==
  /\ Answer(r, Response(401))
  /\ UNCHANGED limiterVars

RateLimited(r) ==
  /\ Refuse
  /\ Answer(r, [Response(429) EXCEPT !.retry = RetryAfter])

Invalid(r) ==
  /\ Admit(r)
  /\ Answer(r, Response(422))

Valid(r) ==
  /\ Admit(r)
  /\ Goto(r, "connect")
  /\ UNCHANGED response

Guard(r) ==
  /\ pc[r] = "new"
  /\ Unauthenticated(r) \/ RateLimited(r) \/ Invalid(r) \/ Valid(r)
  /\ UNCHANGED <<backend, pinging, pool, queue, embeds, prompt, asks, hits>>

(* The connections in use are counted together, whoever holds them.        *)
Free == Cardinality(pool) + Cardinality(pinging) < PoolLimit

(* lexical_search is the first statement of the session, so it checks the  *)
(* connection out, or waits for one until pool_timeout; it may itself fail.*)
Connect(r) ==
  /\ pc[r] = "connect"
  /\ \/ /\ Free
        /\ pool' = pool \cup {r}
        /\ Goto(r, "embed")
        /\ UNCHANGED <<limiterVars, backend, pinging, prompt, asks, hits, response>>
     \/ Raise(r, 500)
  /\ UNCHANGED <<queue, embeds>>

(* mutant: the counter starts at one                                       *)
MayRetryOnceMore(r) == embeds'[r] <= MaxRetries
MayRetry(r) == embeds'[r] < MaxRetries

(* vector_search with the vector in hand: ExactVectorStore.query runs      *)
(* without an await.  The corpus it loads on first use may be missing, not *)
(* match its digest, be of another model or lack its text: 503.            *)
VectorQuery(r) == Proceed(r, "names") \/ Raise(r, 503)

(* One attempt of VoyageEmbedder._embed_batch: 200, a failure worth another*)
(* attempt (transport, 429, 5xx), or the last failure or a 4xx, for which  *)
(* errors.py has no handler of its own.                                    *)
Embed(r) ==
  /\ pc[r] = "embed"
  /\ embeds' = [embeds EXCEPT ![r] = @ + 1]
  /\ \/ VectorQuery(r)
     \/ MayRetry(r) /\ Proceed(r, "embed")
     \/ Raise(r, 500)
  /\ UNCHANGED queue

(* The SELECT of the file names, then the reranker.  NoOpReranker returns  *)
(* at once; LocalOnnxReranker refuses an oversized question and hands the  *)
(* rest to its executor.                                                   *)
Rerank(r) ==
  /\ pc[r] = "names"
  /\ \/ Raise(r, 500) /\ UNCHANGED queue
     \/ backend = "none" /\ Retrieved(r) /\ UNCHANGED queue
     \/ backend = "local" /\ Proceed(r, "scoring") /\ queue' = Append(queue, r)
  /\ UNCHANGED embeds

(* mutant: an inference that raises takes the worker thread with it        *)
ScoreOldestDying ==
  /\ queue # << >>
  /\ pc[Head(queue)] = "scoring"
  /\ \/ Retrieved(Head(queue)) /\ queue' = Tail(queue)
     \/ Raise(Head(queue), 500) /\ UNCHANGED queue
  /\ UNCHANGED embeds

(* The executor's thread scores the oldest request, or inference fails.    *)
ScoreOldest ==
  /\ queue # << >>
  /\ queue' = Tail(queue)
  /\ Retrieved(Head(queue)) \/ Raise(Head(queue), 500)
  /\ UNCHANGED embeds

Result(verdict, answer, cited) ==
  [Response(200) EXCEPT !.verdict = verdict, !.answer = answer, !.cited = cited]

(* From the gate to the provider there is no await.  A planning error is   *)
(* an unhandled exception.                                                 *)
Judge(r) ==
  LET verdict == FarFieldGate(hits[r])
      plan == PlanContext(hits[r], Tokens)
  IN /\ pc[r] = "judge"
     /\ \/ /\ verdict = "unjudgeable"
           /\ Answer(r, Response(503))
           /\ UNCHANGED prompt
        \/ /\ verdict = "abstain"
           /\ Answer(r, Result("abstain", FALSE, hits[r]))
           /\ UNCHANGED prompt
        \/ /\ verdict = "unverified" /\ plan.error # "none"
           /\ Answer(r, Response(500))
           /\ UNCHANGED prompt
        \/ /\ verdict = "unverified" /\ plan.error = "none"
           /\ Goto(r, "generate")
           /\ prompt' = [prompt EXCEPT ![r] = plan.included]
           /\ UNCHANGED response
     /\ UNCHANGED <<limiterVars, backend, pinging, pool, queue, embeds, asks, hits>>

CitedHits(r) == hits[r]   \* mutant: every hit retrieved is cited
Cited(r) == PlanContext(hits[r], Tokens).included

(* AnthropicClient.generate: one attempt.  Unreachable, overloaded or      *)
(* unusable is a 503; a 4xx of the provider is a 500.                      *)
Generate(r) ==
  /\ pc[r] = "generate"
  /\ asks' = [asks EXCEPT ![r] = @ + 1]
  /\ \/ Answer(r, Result("unverified", TRUE, Cited(r)))
     \/ \E status \in {500, 503} : Answer(r, Response(status))
  /\ UNCHANGED <<limiterVars, backend, pinging, pool, queue, embeds, hits, prompt>>

-----------------------------------------------------------------------------
(* ping() of GET /health/ready, which takes a connection or gives up, and  *)
(* gives it back whether Postgres answers, fails or takes too long.        *)
Ping(p) ==
  /\ p \notin pinging
  /\ Free
  /\ pinging' = pinging \cup {p}
  /\ UNCHANGED <<limiterVars, backend, pc, pool, queue, embeds, prompt, asks, hits, response>>

Pong(p) ==
  /\ p \in pinging
  /\ pinging' = pinging \ {p}
  /\ UNCHANGED <<limiterVars, backend, pc, pool, queue, embeds, prompt, asks, hits, response>>

Step(r) == \/ Guard(r) \/ Connect(r) \/ Embed(r) \/ Rerank(r)
           \/ Judge(r) \/ Generate(r)

Next ==
  \/ Tick /\ UNCHANGED serviceVars
  \/ ScoreOldest
  \/ \E r \in Requests : Step(r)
  \/ \E p \in Probes : Ping(p) \/ Pong(p)

(* The event loop runs whatever is ready, the pool gives up after          *)
(* pool_timeout, both providers after their HTTP timeouts, and inference   *)
(* is finite.  Nothing is assumed of the clock.                            *)
Fairness == WF_vars(ScoreOldest) /\ \A r \in Requests : WF_vars(Step(r))
Spec == Init /\ [][Next]_vars /\ Fairness

-----------------------------------------------------------------------------
(* query.py:97-108, session.py:26-50: exactly the requests inside          *)
(* retrieve() hold a connection, on every path out of it; none is held     *)
(* through a generation, and with the readiness checks beside them the     *)
(* pool is never exceeded.                                                 *)
NoConnectionIsLeaked ==
  /\ pool = {r \in Requests : pc[r] \in InRetrieve}
  /\ Cardinality(pool) + Cardinality(pinging) <= PoolLimit

(* security.py:180-191, embeddings.py:134-194, query.py:77-95: money is    *)
(* spent only on requests the limiter charged, at most max_retries         *)
(* embedding calls and one generation each, and no generation unless the   *)
(* retrieval was judged near.                                              *)
SpendIsBounded ==
  \A r \in Requests :
    /\ embeds[r] + asks[r] > 0 => admitted[r] # NotYet
    /\ embeds[r] <= MaxRetries
    /\ asks[r] <= 1
    /\ asks[r] = 1 => FarFieldGate(hits[r]) = "unverified"

(* query.py:79-95: a 200 with an answer cites exactly the chunks the model *)
(* was sent, and there are some; a 200 without one is an abstention on a   *)
(* far top hit and no model was asked; no error carries an answer.         *)
CitedIsRead(r) ==
  response[r].answer =>
    /\ response[r].status = 200
    /\ asks[r] = 1
    /\ response[r].cited = prompt[r]
AbstainsUnasked(r) ==
  response[r].status = 200 /\ ~response[r].answer =>
    /\ asks[r] = 0
    /\ response[r].cited[1].distance >= FarCut
AnswersCiteWhatWasRead ==
  \A r \in Requests :
    /\ CitedIsRead(r)
    /\ AbstainsUnasked(r)
    /\ response[r].answer => response[r].cited # << >>

(* security.py:174-177: a client that waits Retry-After seconds comes back *)
(* when the window that refused it is over, and one second less would have *)
(* been too early.                                                         *)
RetryAfterIsExact ==
  [][\A r \in Requests :
       response'[r].status = 429 /\ response[r] = Pending =>
         LET wait(s) == now + s * TicksPerSecond
             Over(t) == IF MinuteSpent THEN MinuteOf(t) > MinuteOf(now)
                                       ELSE DayOf(t) > DayOf(now)
         IN /\ Over(wait(response'[r].retry))
            /\ response'[r].retry > 1 => ~Over(wait(response'[r].retry - 1))]_vars

(* session.py:29, reranking.py:357, query.py:97: every request is answered,*)
(* though readiness checks may take the connections and the executor has   *)
(* one thread: nobody waits for ever for either, or for a provider.        *)
EveryRequestIsAnswered == \A r \in Requests : <>(pc[r] = "done")
=============================================================================
