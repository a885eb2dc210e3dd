----------------------------- MODULE ProxyTurn -----------------------------
(***************************************************************************)
(* The proxy's two chat routes (proxy/proxy_server.py) and the distiller   *)
(* behind them (proxy/structured_distiller.py).  Handlers and distillation *)
(* tasks share one event loop: an action is what runs between two awaits.  *)
(*                                                                         *)
(* A chat turn waits at most 80 ms for distillations in flight, recalls,   *)
(* posts to a list of candidate models with one retry each, relays the     *)
(* answer, issues a receipt and queues the distillation of the turn.  A    *)
(* turn of the Anthropic route recalls without waiting, posts once, and    *)
(* has neither receipt nor distillation.                                   *)
(*                                                                         *)
(* Message contents, rewriting, compaction and the locality buffer decide  *)
(* only what is sent, and are left out; the receipt buffer is EndSession's.*)
(***************************************************************************)
EXTENDS Integers, FiniteSets

CONSTANTS
  Reqs,   \* requests
  Cands   \* candidate models of a request: the requested one and fallbacks

ASSUME ProxyAssumption == Cands \in Nat \ {0}

Routes   == {"plain", "stream", "anthropic"}
Attempts == 0..1
Conns    == Reqs \X (1..Cands) \X Attempts

\* 429, 503, another 5xx, another 4xx.
Failures == {"busy", "overloaded", "server", "client"}
ServerSide == {"overloaded", "server"}
Statuses == Failures \cup {"ok"}

\* "woken": the wait on the event is over.
PCs == {"idle", "read", "wait", "woken", "post", "enter", "error", "plain", "prepare",
        "stream", "tail", "epilogue", "passthrough", "close", "ended"}

VARIABLES
  req,      \* what each request's handler is doing, and its local variables
  open,     \* upstream connections entered and not yet exited
  bills,    \* how many receipts each request got
  seen,     \* requests whose whole answer their client has
  pending,  \* _pending_distillations
  idle,     \* _idle_event is set
  jobs,     \* distillation tasks created and not yet run
  done      \* requests distilled into the store

turnVars == <<bills, seen, pending, idle, jobs, done>>
vars == <<req, open, bills, seen, pending, idle, jobs, done>>

\* `after` is a ghost: the requests whose answers were seen before this one was
\* sent, and hence the turns its recall must find; `missed` are those of them
\* that a recall did not find although it counted no stale read.
Request == [pc : PCs, route : Routes, messages : {"none", "some"}, cand : 1..Cands,
            attempt : Attempts, result : {"none", "answered", "failed"},
            after : SUBSET Reqs, missed : SUBSET Reqs]
NoRequest == [pc |-> "idle", route |-> "plain", messages |-> "none", cand |-> 1,
              attempt |-> 0, result |-> "none", after |-> {}, missed |-> {}]

At(r, pc)  == req[r].pc = pc
Conn(r)    == <<r, req[r].cand, req[r].attempt>>
IsLast(r)  == req[r].cand = Cands

Init ==
  /\ req = [r \in Reqs |-> NoRequest]
  /\ open = {}
  /\ bills = [r \in Reqs |-> 0]
  /\ seen = {}
  /\ pending = 0 /\ idle = TRUE /\ jobs = {} /\ done = {}

Goto(r, pc) == req' = [req EXCEPT ![r].pc = pc]
Finish(r, result) ==
  req' = [req EXCEPT ![r].pc = "ended", ![r].result = result, ![r].after = {}]

-----------------------------------------------------------------------------
(* The request arrives.                                                    *)

\* A turn that is distilled is one of a chat route that carries messages.
Distills(r) == req[r].route # "anthropic" /\ req[r].messages = "some"

Receive(r) ==
  /\ At(r, "idle")
  /\ \E route \in Routes, messages \in {"none", "some"} :
       req' = [req EXCEPT ![r].pc = "read", ![r].route = route,
                          ![r].messages = messages,
                          ![r].after = {q \in seen : Distills(q)}]
  /\ UNCHANGED <<open, turnVars>>

\* The body is not JSON, or not of the shape a chat has: 400 or 500.
Reject(r) ==
  /\ At(r, "read") /\ Finish(r, "failed")
  /\ UNCHANGED <<open, turnVars>>

\* The store is asked, or not, and the payload compacted, or on any error left.
Recall(r, missed) ==
  req' = [req EXCEPT ![r].pc = "post", ![r].after = {}, ![r].missed = missed]

\* No messages, no store, or a reference nobody can resolve: no recall.
\* The Anthropic route recalls, or not, without a barrier.
SkipBarrier(r) ==
  /\ At(r, "read")
  /\ Recall(r, {})
  /\ UNCHANGED <<open, turnVars>>

\* A wait on an event that is set is over before it begins.
EnterBarrier(r) ==
  /\ At(r, "read") /\ Distills(r)
  /\ Goto(r, IF idle THEN "woken" ELSE "wait")
  /\ UNCHANGED <<open, turnVars>>

\* wait_for_pending_distillations returns True, and the store is asked.
\* Mutant: the event is not waited for.
PassBarrier_NoWait(r) ==
  /\ At(r, "wait") \/ At(r, "woken")
  /\ Recall(r, req[r].after \ done)
  /\ UNCHANGED <<open, turnVars>>
PassBarrier(r) ==
  /\ At(r, "woken")
  /\ Recall(r, req[r].after \ done)
  /\ UNCHANGED <<open, turnVars>>

\* The timeout: the recall goes on and is counted as a stale read.
TimeOut(r) ==
  /\ At(r, "wait") \/ At(r, "woken")
  /\ Recall(r, {})
  /\ UNCHANGED <<open, turnVars>>

-----------------------------------------------------------------------------
(* Upstream: candidate models in order, each with one retry.               *)

Post(r) ==
  /\ At(r, "post")
  /\ open' = open \cup {Conn(r)}
  /\ Goto(r, "enter")
  /\ UNCHANGED turnVars

NextCandidate(r) ==
  req' = [req EXCEPT ![r].pc = "post", ![r].cand = @ + 1, ![r].attempt = 0]
NextAttempt(r) ==
  req' = [req EXCEPT ![r].pc = "post", ![r].attempt = 1]

\* 429 and 503 go to the next model.
FailOver(r, status) ==
  /\ status \in {"busy", "overloaded"} /\ ~IsLast(r)
  /\ open' = open \ {Conn(r)}
  /\ NextCandidate(r)

\* The first 5xx is asked again half a second later.
\* Mutants: the answer is not closed first; the attempts are not counted; they
\* are counted and not compared.
Retries(r, status) ==
  /\ status \in ServerSide /\ req[r].attempt = 0
  /\ status = "overloaded" => IsLast(r)
Retry_NotClosed(r, status) ==
  /\ Retries(r, status)
  /\ open' = open
  /\ NextAttempt(r)
Retry_NotCounted(r, status) ==
  /\ Retries(r, status)
  /\ open' = open \ {Conn(r)}
  /\ Goto(r, "post")
Retry_Uncapped(r, status) ==
  /\ status \in ServerSide
  /\ status = "overloaded" => IsLast(r)
  /\ open' = open \ {Conn(r)}
  /\ req' = [req EXCEPT ![r].pc = "post", ![r].attempt = @ + 1]
Retry(r, status) ==
  /\ Retries(r, status)
  /\ open' = open \ {Conn(r)}
  /\ NextAttempt(r)

\* Any other error of a model that is not the last one: the loop goes on to the
\* next model, and the answer is dropped without being closed.
FallThrough(r, status) ==
  /\ status \in {"server", "client"} /\ ~IsLast(r)
  /\ ~Retries(r, status)
  /\ open' = open
  /\ NextCandidate(r)

\* An answer to relay: a success, or the error of the last model.
Settle(r, status) ==
  /\ status = "ok" \/ IsLast(r)
  /\ ~Retries(r, status)
  /\ open' = open
  /\ Goto(r, CASE status # "ok"             -> "error"
               [] req[r].route = "stream"   -> "prepare"
               [] OTHER                     -> "plain")

UpstreamAnswers(r) ==
  /\ At(r, "enter") /\ req[r].route # "anthropic"
  /\ \E status \in Statuses :
       FailOver(r, status) \/ Retry(r, status) \/ FallThrough(r, status) \/ Settle(r, status)
  /\ UNCHANGED turnVars

\* The connection fails, or reading a 429 or 503 does: again, the next model,
\* or 502.
UpstreamFails(r) ==
  /\ At(r, "enter") /\ req[r].route # "anthropic"
  /\ open' = open \ {Conn(r)}
  /\ \/ req[r].attempt = 0 /\ NextAttempt(r)
     \/ req[r].attempt = 1 /\ ~IsLast(r) /\ NextCandidate(r)
     \/ req[r].attempt = 1 /\ IsLast(r)  /\ Finish(r, "failed")
  /\ UNCHANGED turnVars

\* Leaving a context that was never entered may itself raise (aiohttp): 500.
ExitRaises(r) ==
  /\ At(r, "enter") /\ req[r].route # "anthropic"
  /\ open' = open \ {Conn(r)}
  /\ Finish(r, "failed")
  /\ UNCHANGED turnVars

\* An error is forwarded; one that cannot be read raises before the exit.
ForwardError(r) ==
  /\ At(r, "error")
  /\ open' = open \ {Conn(r)}
  /\ Finish(r, "failed")
  /\ UNCHANGED turnVars
ErrorUnread(r) ==
  /\ At(r, "error") /\ Finish(r, "failed")
  /\ UNCHANGED <<open, turnVars>>

-----------------------------------------------------------------------------
(* Relaying.                                                               *)

\* _issue_receipt
\* Mutant: no receipt.
IssueReceipt_Lost(r) == bills' = bills
IssueReceipt(r) == bills' = [bills EXCEPT ![r] = @ + 1]

\* The end of _update_tlb_and_distill: mark_distillation_in_flight, create_task.
\* Mutant: the event stays set.
QueueDistillation_StaysIdle(r) ==
  IF req[r].messages = "some"
    THEN pending' = pending + 1 /\ idle' = idle /\ jobs' = jobs \cup {r}
    ELSE UNCHANGED <<pending, idle, jobs>>
QueueDistillation(r) ==
  IF req[r].messages = "some"
    THEN pending' = pending + 1 /\ idle' = FALSE /\ jobs' = jobs \cup {r}
    ELSE UNCHANGED <<pending, idle, jobs>>

GotoClose(r, result) ==
  req' = [req EXCEPT ![r].pc = "close", ![r].result = result]

\* _handle_non_streaming_response: the body is read, and the turn is queued and
\* billed before the client gets it.
RelayPlain(r) ==
  /\ At(r, "plain")
  /\ QueueDistillation(r)
  /\ IssueReceipt(r)
  /\ GotoClose(r, "answered")
  /\ UNCHANGED <<open, seen, done>>

\* The body cannot be read, or its facts cannot be extracted.
PlainRaises(r) ==
  /\ At(r, "plain") /\ GotoClose(r, "failed")
  /\ UNCHANGED <<open, turnVars>>

\* _handle_streaming_response: the headers go out before the `try`.
Prepared(r) ==
  /\ At(r, "prepare") /\ Goto(r, "stream")
  /\ UNCHANGED <<open, turnVars>>
PrepareRaises(r) ==
  /\ At(r, "prepare") /\ Finish(r, "failed")
  /\ UNCHANGED <<open, turnVars>>

\* The last chunk is written; the loop awaits the end of the upstream body.
LastChunk(r) ==
  /\ At(r, "stream") /\ Goto(r, "tail")
  /\ seen' = seen \cup {r}
  /\ UNCHANGED <<open, bills, pending, idle, jobs, done>>

\* The upstream breaks off, or a client that is gone is written to.
StreamRaises(r) ==
  /\ At(r, "stream") \/ At(r, "tail")
  /\ GotoClose(r, "failed")
  /\ UNCHANGED <<open, turnVars>>

WriteEof(r) ==
  /\ At(r, "tail") /\ Goto(r, "epilogue")
  /\ UNCHANGED <<open, turnVars>>

RelayStream(r) ==
  /\ At(r, "epilogue")
  /\ IssueReceipt(r)
  /\ QueueDistillation(r)
  /\ GotoClose(r, "answered")
  /\ UNCHANGED <<open, seen, done>>

\* The receipt is issued; the facts of the turn cannot be extracted.
EpilogueRaises(r) ==
  /\ At(r, "epilogue")
  /\ IssueReceipt(r)
  /\ GotoClose(r, "failed")
  /\ UNCHANGED <<open, seen, pending, idle, jobs, done>>

\* The `finally`, after which a body that is not streamed reaches the client.
\* Mutant: the connection is left to the garbage collector.
Close_Forgotten(r) ==
  /\ At(r, "close")
  /\ Goto(r, "ended")
  /\ seen' = IF req[r].result = "answered" THEN seen \cup {r} ELSE seen
  /\ UNCHANGED <<open, bills, pending, idle, jobs, done>>
Close(r) ==
  /\ At(r, "close")
  /\ open' = open \ {Conn(r)}
  /\ Goto(r, "ended")
  /\ seen' = IF req[r].result = "answered" THEN seen \cup {r} ELSE seen
  /\ UNCHANGED <<bills, pending, idle, jobs, done>>

-----------------------------------------------------------------------------
(* handle_anthropic_messages: one post, everything else in a try/finally.  *)

AnthropicAnswers(r) ==
  /\ At(r, "enter") /\ req[r].route = "anthropic"
  /\ Goto(r, "passthrough")
  /\ UNCHANGED <<open, turnVars>>

AnthropicFails(r) ==
  /\ At(r, "enter") /\ req[r].route = "anthropic"
  /\ open' = open \ {Conn(r)}
  /\ Finish(r, "failed")
  /\ UNCHANGED turnVars

PassThrough(r) ==
  /\ At(r, "passthrough")
  /\ \E result \in {"answered", "failed"} : GotoClose(r, result)
  /\ UNCHANGED <<open, turnVars>>

-----------------------------------------------------------------------------
(* A distillation task: distill_and_ingest never awaits.                   *)

\* The wait of every request at the barrier is over when the event is set.
\* Mutant: the first task to finish sets it.
Distill_SetsAlways(r) ==
  /\ r \in jobs
  /\ jobs' = jobs \ {r} /\ done' = done \cup {r}
  /\ pending' = (IF pending = 0 THEN 0 ELSE pending - 1)
  /\ idle' = TRUE
  /\ req' = [q \in Reqs |-> IF At(q, "wait") THEN [req[q] EXCEPT !.pc = "woken"]
                            ELSE req[q]]
  /\ UNCHANGED <<open, bills, seen>>
Distill(r) ==
  /\ r \in jobs
  /\ jobs' = jobs \ {r} /\ done' = done \cup {r}
  /\ pending' = (IF pending = 0 THEN 0 ELSE pending - 1)
  /\ idle' = (idle \/ pending' = 0)
  /\ req' = [q \in Reqs |-> IF pending' = 0 /\ At(q, "wait")
                            THEN [req[q] EXCEPT !.pc = "woken"] ELSE req[q]]
  /\ UNCHANGED <<open, bills, seen>>

Step(r) ==
  \/ Reject(r) \/ SkipBarrier(r) \/ EnterBarrier(r) \/ PassBarrier(r) \/ TimeOut(r)
  \/ Post(r) \/ UpstreamAnswers(r) \/ UpstreamFails(r) \/ ExitRaises(r)
  \/ ForwardError(r) \/ ErrorUnread(r)
  \/ RelayPlain(r) \/ PlainRaises(r)
  \/ Prepared(r) \/ PrepareRaises(r) \/ LastChunk(r) \/ StreamRaises(r)
  \/ WriteEof(r) \/ RelayStream(r) \/ EpilogueRaises(r) \/ Close(r)
  \/ AnthropicAnswers(r) \/ AnthropicFails(r) \/ PassThrough(r)

Next == \E r \in Reqs : Receive(r) \/ Step(r) \/ Distill(r)

Spec == Init /\ [][Next]_vars

\* The event loop runs what is ready, and the upstream answers or breaks off:
\* the proxy has no read timeout of its own.
FairSpec == Spec /\ \A r \in Reqs : WF_vars(Step(r)) /\ WF_vars(Distill(r))

-----------------------------------------------------------------------------
(* Properties.                                                             *)

\* Every variable has its type.
TypeOK ==
  /\ req \in [Reqs -> Request]
  /\ open \in SUBSET Conns
  /\ bills \in [Reqs -> Nat]
  /\ seen \in SUBSET Reqs /\ jobs \in SUBSET Reqs /\ done \in SUBSET Reqs
  /\ pending \in Nat /\ idle \in BOOLEAN

\* The counter and the event of the barrier agree with the tasks in flight: the
\* barrier neither opens early nor stays shut for good.
BarrierCounts == pending = Cardinality(jobs) /\ (idle <=> jobs = {})

\* structured_distiller.py: "Turn N recall awaits Turn N-1 distillation
\* completion (zero stale reads)", of the turns of the routes R: a recall that
\* counted no stale read found every turn whose answer its client had.
NoStaleRecallOf(R) ==
  \A r \in Reqs : \A q \in req[r].missed : req[q].route \notin R
PlainTurnsRecalled == NoStaleRecallOf({"plain"})
NoStaleRecall      == NoStaleRecallOf({"plain", "stream"})

\* A retry closes the answer it discards, so each candidate holds at most one
\* connection; and none is left of the candidate whose answer was relayed.
ConnectionsBounded ==
  \A r \in Reqs :
    /\ \A c \in 1..Cands : Cardinality({a \in Attempts : <<r, c, a>> \in open}) <= 1
    /\ At(r, "ended") /\ req[r].result = "answered" =>
         \A a \in Attempts : <<r, req[r].cand, a>> \notin open

\* The promise of TurnContract: see there.
Phase(r) ==
  CASE At(r, "idle")  -> "new"
    [] At(r, "ended") -> req[r].result
    [] OTHER -> IF req[r].route = "anthropic" THEN "unmetered" ELSE "metered"
Contract == INSTANCE TurnContract WITH phase <- [r \in Reqs |-> Phase(r)],
                                       learnt <- done
KeepsContract == Contract!Spec

\* A request always ends and its distillation runs: neither retries, failover
\* nor the barrier hold it for ever.
RequestEnds == \A r \in Reqs : ~At(r, "idle") ~> (At(r, "ended") /\ r \notin jobs)
=============================================================================
