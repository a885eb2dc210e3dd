-------------------------- MODULE ProxyTurnProofs --------------------------
(***************************************************************************)
(* Theorems about ProxyTurn, for any set of requests, finite or not, and   *)
(* any number of candidate models.                                         *)
(***************************************************************************)
EXTENDS ProxyTurn, FiniteSetTheorems, TLAPS

LEMMA GotoTyped ==
  ASSUME TypeOK, NEW r \in Reqs, NEW pc \in PCs, Goto(r, pc)
  PROVE  req' \in [Reqs -> Request]
BY DEF TypeOK, Goto, Request

LEMMA CandidateTyped ==
  ASSUME TypeOK, NEW r \in Reqs, NextAttempt(r) \/ (NextCandidate(r) /\ ~IsLast(r))
  PROVE  req' \in [Reqs -> Request]
<1>1. CASE NextAttempt(r)
  <2>1. 1 \in Attempts
    BY DEF Attempts
  <2>2. [req[r] EXCEPT !.pc = "post", !.attempt = 1] \in Request
    <3>1. req[r] \in Request
      BY DEF TypeOK
    <3> QED BY <2>1, <3>1 DEF Request, PCs
  <2> QED BY <1>1, <2>2 DEF TypeOK, NextAttempt
<1>2. CASE NextCandidate(r) /\ ~IsLast(r)
  <2>1. req[r].cand + 1 \in 1..Cands
    BY <1>2, ProxyAssumption DEF TypeOK, IsLast, Request
  <2> QED BY <1>2, <2>1 DEF TypeOK, NextCandidate, Request, PCs, Attempts
<1> QED BY <1>1, <1>2

(* Every variable has its type in every reachable state: in particular no  *)
(* candidate is tried more than twice, and none past the last.             *)
THEOREM Typing == Spec => []TypeOK
<1>1. Init => TypeOK
  BY ProxyAssumption DEF Init, TypeOK, NoRequest, Request, PCs, Routes, Attempts
<1>2. TypeOK /\ [Next]_vars => TypeOK'
  <2> SUFFICES ASSUME TypeOK, [Next]_vars PROVE TypeOK'
    OBVIOUS
  <2> USE ProxyAssumption
  <2>1. CASE UNCHANGED vars
    BY <2>1 DEF TypeOK, vars
  <2>2. ASSUME NEW r \in Reqs, Receive(r) PROVE TypeOK'
    <3>1. PICK route \in Routes, messages \in {"none", "some"} :
            req' = [req EXCEPT ![r].pc = "read", ![r].route = route,
                               ![r].messages = messages,
                               ![r].after = {q \in seen : Distills(q)}]
      BY <2>2 DEF Receive
    <3>2. {q \in seen : Distills(q)} \in SUBSET Reqs
      BY DEF TypeOK
    <3> DEFINE after == {q \in seen : Distills(q)}
               h == [req[r] EXCEPT !.pc = "read", !.route = route, !.messages = messages,
                                   !.after = after]
    <3>4. req' = [req EXCEPT ![r] = h]
      BY <3>1
    <3> HIDE DEF after
    <3>3. h \in Request
      <4>1. req[r] \in Request
        BY DEF TypeOK
      <4> QED BY <3>2, <4>1 DEF Request, PCs, after
    <3> HIDE DEF h
    <3>5. req' \in [Reqs -> Request]
      BY <3>3, <3>4 DEF TypeOK
    <3> QED BY <2>2, <3>5 DEF Receive, TypeOK, turnVars
  <2>3. ASSUME NEW r \in Reqs, Reject(r) \/ ForwardError(r) \/ ErrorUnread(r)
                               \/ PrepareRaises(r) \/ AnthropicFails(r) \/ ExitRaises(r)
        PROVE TypeOK'
    BY <2>3 DEF TypeOK, Reject, ForwardError, ErrorUnread, PrepareRaises, AnthropicFails,
                ExitRaises, Finish, turnVars, Request, PCs
  <2>4. ASSUME NEW r \in Reqs, SkipBarrier(r) \/ PassBarrier(r) \/ TimeOut(r) PROVE TypeOK'
    BY <2>4 DEF TypeOK, SkipBarrier, PassBarrier, TimeOut, Recall, turnVars, Request, PCs
  <2>5. ASSUME NEW r \in Reqs, EnterBarrier(r) PROVE TypeOK'
    <3>1. PICK pc \in PCs : Goto(r, pc)
      BY <2>5 DEF EnterBarrier, PCs
    <3>2. req' \in [Reqs -> Request]
      BY <3>1, GotoTyped
    <3> QED BY <2>5, <3>2 DEF EnterBarrier, TypeOK, turnVars
  <2>6. ASSUME NEW r \in Reqs, Post(r) PROVE TypeOK'
    BY <2>6 DEF TypeOK, Post, Goto, Conn, Conns, turnVars, Request, PCs
  <2>7. ASSUME NEW r \in Reqs, UpstreamAnswers(r) PROVE TypeOK'
    <3>1. PICK status \in Statuses :
            FailOver(r, status) \/ Retry(r, status) \/ FallThrough(r, status) \/ Settle(r, status)
      BY <2>7 DEF UpstreamAnswers
    <3>2. open' \in SUBSET Conns
      BY <3>1 DEF FailOver, Retry, FallThrough, Settle, TypeOK
    <3>3. req' \in [Reqs -> Request]
      <4>1. \/ NextAttempt(r) \/ (NextCandidate(r) /\ ~IsLast(r))
            \/ \E pc \in PCs : Goto(r, pc)
        BY <3>1 DEF FailOver, Retry, FallThrough, Settle, PCs
      <4> QED BY <4>1, CandidateTyped, GotoTyped
    <3> QED BY <2>7, <3>2, <3>3 DEF UpstreamAnswers, TypeOK, turnVars
  <2>8. ASSUME NEW r \in Reqs, UpstreamFails(r) PROVE TypeOK'
    <3>1. NextAttempt(r) \/ (NextCandidate(r) /\ ~IsLast(r)) \/ Finish(r, "failed")
      BY <2>8 DEF UpstreamFails
    <3>2. req' \in [Reqs -> Request]
      BY <3>1, CandidateTyped DEF TypeOK, Finish, Request, PCs
    <3> QED BY <2>8, <3>2 DEF UpstreamFails, TypeOK, turnVars
  <2>9. ASSUME NEW r \in Reqs, RelayPlain(r) \/ RelayStream(r) \/ EpilogueRaises(r)
        PROVE TypeOK'
    <3>1. req' \in [Reqs -> Request]
      BY <2>9 DEF TypeOK, RelayPlain, RelayStream, EpilogueRaises, GotoClose, Request, PCs
    <3>2. bills' \in [Reqs -> Nat]
      BY <2>9 DEF TypeOK, RelayPlain, RelayStream, EpilogueRaises, IssueReceipt
    <3>3. QueueDistillation(r) \/ UNCHANGED <<pending, idle, jobs>>
      BY <2>9 DEF RelayPlain, RelayStream, EpilogueRaises
    <3>4. pending' \in Nat /\ idle' \in BOOLEAN /\ jobs' \in SUBSET Reqs
      <4>1. CASE UNCHANGED <<pending, idle, jobs>>
        BY <4>1 DEF TypeOK
      <4>2. CASE QueueDistillation(r) /\ req[r].messages = "some"
        <5>1. pending' = pending + 1 /\ idle' = FALSE /\ jobs' = jobs \cup {r}
          BY <4>2 DEF QueueDistillation
        <5>2. pending' \in Nat
          BY <5>1 DEF TypeOK
        <5>3. jobs' \in SUBSET Reqs
          BY <5>1 DEF TypeOK
        <5> QED BY <5>1, <5>2, <5>3
      <4>3. CASE QueueDistillation(r) /\ req[r].messages # "some"
        BY <4>3 DEF TypeOK, QueueDistillation
      <4> QED BY <3>3, <4>1, <4>2, <4>3
    <3> QED BY <2>9, <3>1, <3>2, <3>4 DEF TypeOK, RelayPlain, RelayStream, EpilogueRaises
  <2>10. ASSUME NEW r \in Reqs, PlainRaises(r) \/ StreamRaises(r) \/ PassThrough(r)
         PROVE TypeOK'
    BY <2>10 DEF TypeOK, PlainRaises, StreamRaises, PassThrough, GotoClose, turnVars, Request, PCs
  <2>11. ASSUME NEW r \in Reqs, Prepared(r) \/ WriteEof(r) \/ AnthropicAnswers(r)
         PROVE TypeOK'
    BY <2>11 DEF TypeOK, Prepared, WriteEof, AnthropicAnswers, Goto, turnVars, Request, PCs
  <2>12. ASSUME NEW r \in Reqs, LastChunk(r) \/ Close(r) PROVE TypeOK'
    BY <2>12 DEF TypeOK, LastChunk, Close, Goto, Request, PCs
  <2>13. ASSUME NEW r \in Reqs, Distill(r) PROVE TypeOK'
    <3>1. req' \in [Reqs -> Request]
      BY <2>13 DEF TypeOK, Distill, At, Request, PCs
    <3> QED BY <2>13, <3>1 DEF TypeOK, Distill
  <2> QED
    BY <2>1, <2>2, <2>3, <2>4, <2>5, <2>6, <2>7, <2>8, <2>9, <2>10, <2>11, <2>12, <2>13
    DEF Next, Step
<1> QED BY <1>1, <1>2, PTL DEF Spec

-----------------------------------------------------------------------------
(* The contract.                                                           *)

\* Which route reaches which part of the handler, and when a result is set.
Placed(r) ==
  /\ req[r].pc \in {"prepare", "stream", "tail", "epilogue"} => req[r].route = "stream"
  /\ req[r].pc = "plain" => req[r].route = "plain"
  /\ req[r].pc \in {"wait", "woken"} => Distills(r)
  /\ req[r].pc = "passthrough" => req[r].route = "anthropic"
  /\ req[r].pc \in {"close", "ended"} <=> req[r].result # "none"

\* A turn is billed once, when its handler leaves the relay, and distilled only
\* after that; a metered turn that was answered is billed.
Billed(r) ==
  /\ bills[r] \in {0, 1}
  /\ req[r].pc \notin {"close", "ended"} => bills[r] = 0
  /\ req[r].result = "answered" /\ req[r].route # "anthropic" => bills[r] = 1
  /\ r \in jobs \cup done => bills[r] = 1

TurnInv == \A r \in Reqs : Placed(r) /\ Billed(r)

LEMMA TurnInit == Init => TurnInv
BY DEF Init, NoRequest, TurnInv, Placed, Billed

\* A step of one handler that leaves receipts and distillations alone.
LEMMA QuietTurn ==
  ASSUME TypeOK, TurnInv, NEW r \in Reqs, Receive(r) \/ Step(r),
         ~RelayPlain(r), ~RelayStream(r), ~EpilogueRaises(r)
  PROVE  TurnInv'
<1> SUFFICES ASSUME NEW q \in Reqs PROVE (Placed(q) /\ Billed(q))'
  BY DEF TurnInv
<1>1. Placed(q) /\ Billed(q) /\ Placed(r) /\ Billed(r) /\ req[q].route \in Routes
  BY DEF TurnInv, TypeOK, Request
<1> USE DEF Placed, Billed, Distills, At, TypeOK, turnVars, Request
<1>2. CASE Receive(r)
  <2>1. PICK route \in Routes, messages \in {"none", "some"} :
          req' = [req EXCEPT ![r].pc = "read", ![r].route = route,
                             ![r].messages = messages,
                             ![r].after = {p \in seen : Distills(p)}]
    BY <1>2 DEF Receive
  <2>2. req[r].pc = "idle" /\ UNCHANGED turnVars
    BY <1>2 DEF Receive
  <2> QED BY <1>1, <2>1, <2>2
<1>3. CASE Reject(r) \/ ForwardError(r) \/ ErrorUnread(r) \/ PrepareRaises(r)
           \/ AnthropicFails(r) \/ ExitRaises(r)
  BY <1>1, <1>3 DEF Reject, ForwardError, ErrorUnread, PrepareRaises, AnthropicFails,
                    ExitRaises, Finish
<1>4. CASE SkipBarrier(r) \/ PassBarrier(r) \/ TimeOut(r)
  BY <1>1, <1>4 DEF SkipBarrier, PassBarrier, TimeOut, Recall
<1>5. CASE EnterBarrier(r)
  BY <1>1, <1>5 DEF EnterBarrier, Goto
<1>6. CASE Post(r) \/ Prepared(r) \/ WriteEof(r) \/ AnthropicAnswers(r)
  BY <1>1, <1>6 DEF Post, Prepared, WriteEof, AnthropicAnswers, Goto
<1>7. CASE UpstreamAnswers(r)
  <2>1. PICK status \in Statuses :
          FailOver(r, status) \/ Retry(r, status) \/ FallThrough(r, status) \/ Settle(r, status)
    BY <1>7 DEF UpstreamAnswers
  <2>2. \/ NextCandidate(r) \/ NextAttempt(r)
        \/ Goto(r, "error")
        \/ Goto(r, "prepare") /\ req[r].route = "stream"
        \/ Goto(r, "plain") /\ req[r].route # "stream"
    BY <2>1 DEF FailOver, Retry, FallThrough, Settle
  <2> QED BY <1>1, <1>7, <2>2 DEF UpstreamAnswers, NextCandidate, NextAttempt, Goto, Routes
<1>8. CASE UpstreamFails(r)
  <2>1. NextAttempt(r) \/ NextCandidate(r) \/ Finish(r, "failed")
    BY <1>8 DEF UpstreamFails
  <2> QED BY <1>1, <1>8, <2>1 DEF UpstreamFails, NextCandidate, NextAttempt, Finish
<1>9. CASE PlainRaises(r) \/ StreamRaises(r) \/ PassThrough(r)
  BY <1>1, <1>9 DEF PlainRaises, StreamRaises, PassThrough, GotoClose
<1>10. CASE LastChunk(r) \/ Close(r)
  BY <1>1, <1>10 DEF LastChunk, Close, Goto
<1> QED
  BY <1>2, <1>3, <1>4, <1>5, <1>6, <1>7, <1>8, <1>9, <1>10 DEF Step

\* The steps that issue a receipt, and the distillation.
LEMMA BillingTurn ==
  ASSUME TypeOK, TurnInv, NEW r \in Reqs,
         RelayPlain(r) \/ RelayStream(r) \/ EpilogueRaises(r) \/ Distill(r)
  PROVE  TurnInv'
<1> SUFFICES ASSUME NEW q \in Reqs PROVE (Placed(q) /\ Billed(q))'
  BY DEF TurnInv
<1>1. Placed(q) /\ Billed(q) /\ Placed(r) /\ Billed(r)
  BY DEF TurnInv
<1> USE DEF Placed, Billed, Distills, At, TypeOK, Request
<1>2. CASE RelayPlain(r)
  BY <1>1, <1>2 DEF RelayPlain, QueueDistillation, IssueReceipt, GotoClose
<1>3. CASE RelayStream(r)
  BY <1>1, <1>3 DEF RelayStream, QueueDistillation, IssueReceipt, GotoClose
<1>4. CASE EpilogueRaises(r)
  BY <1>1, <1>4 DEF EpilogueRaises, IssueReceipt, GotoClose
<1>5. CASE Distill(r)
  BY <1>1, <1>5 DEF Distill
<1> QED BY <1>2, <1>3, <1>4, <1>5

LEMMA TurnInvariant == Spec => []TurnInv
<1>1. TypeOK /\ TurnInv /\ [Next]_vars => TurnInv'
  <2>1. ASSUME TurnInv, UNCHANGED vars PROVE TurnInv'
    BY <2>1 DEF TurnInv, Placed, Billed, Distills, vars
  <2> QED BY <2>1, QuietTurn, BillingTurn DEF Next, Step
<1> QED BY <1>1, TurnInit, Typing, PTL DEF Spec

\* A step of r alone moves the phase of r alone.
LEMMA PhaseStep ==
  ASSUME NEW r \in Reqs, NEW phase, Phase(r)' = phase,
         \A q \in Reqs \ {r} : Phase(q)' = Phase(q)
  PROVE  [q \in Reqs |-> Phase(q)]' = [[q \in Reqs |-> Phase(q)] EXCEPT ![r] = phase]
OBVIOUS

\* A handler leaves the others alone, and its own request is what it was.
LEMMA Framed ==
  ASSUME TypeOK, NEW r \in Reqs, Receive(r) \/ Step(r)
  PROVE  /\ \A q \in Reqs \ {r} : req'[q] = req[q]
         /\ Step(r) => req'[r].route = req[r].route /\ req'[r].messages = req[r].messages
<1> USE DEF TypeOK, Request
<1>1. CASE Receive(r) /\ ~Step(r)
  <2>1. PICK route \in Routes, messages \in {"none", "some"} :
          req' = [req EXCEPT ![r].pc = "read", ![r].route = route,
                             ![r].messages = messages,
                             ![r].after = {p \in seen : Distills(p)}]
    BY <1>1 DEF Receive
  <2> QED BY <1>1, <2>1
<1>2. CASE Reject(r) \/ ForwardError(r) \/ ErrorUnread(r) \/ PrepareRaises(r)
           \/ AnthropicFails(r) \/ ExitRaises(r)
  BY <1>2 DEF Reject, ForwardError, ErrorUnread, PrepareRaises, AnthropicFails,
              ExitRaises, Finish
<1>3. CASE SkipBarrier(r) \/ PassBarrier(r) \/ TimeOut(r)
  BY <1>3 DEF SkipBarrier, PassBarrier, TimeOut, Recall
<1>4. CASE EnterBarrier(r) \/ Post(r) \/ Prepared(r) \/ WriteEof(r) \/ AnthropicAnswers(r)
           \/ LastChunk(r) \/ Close(r)
  BY <1>4 DEF EnterBarrier, Post, Prepared, WriteEof, AnthropicAnswers, LastChunk, Close, Goto
<1>5. CASE UpstreamAnswers(r)
  <2>1. NextCandidate(r) \/ NextAttempt(r) \/ \E pc \in PCs : Goto(r, pc)
    BY <1>5 DEF UpstreamAnswers, FailOver, Retry, FallThrough, Settle, PCs
  <2> QED BY <2>1 DEF NextCandidate, NextAttempt, Goto
<1>6. CASE UpstreamFails(r)
  <2>1. NextAttempt(r) \/ NextCandidate(r) \/ Finish(r, "failed")
    BY <1>6 DEF UpstreamFails
  <2> QED BY <2>1 DEF NextCandidate, NextAttempt, Finish
<1>7. CASE RelayPlain(r) \/ PlainRaises(r) \/ StreamRaises(r) \/ RelayStream(r)
           \/ EpilogueRaises(r) \/ PassThrough(r)
  BY <1>7 DEF RelayPlain, PlainRaises, StreamRaises, RelayStream, EpilogueRaises,
              PassThrough, GotoClose
<1> QED BY <1>1, <1>2, <1>3, <1>4, <1>5, <1>6, <1>7 DEF Step

\* A handler goes on, fails, or closes an answer; only a relay that is over
\* bills and queues.
LEMMA Progress ==
  ASSUME TypeOK, NEW r \in Reqs, Step(r)
  PROVE  /\ req[r].pc \notin {"idle", "ended"}
         /\ \/ req'[r].pc \notin {"idle", "ended"}
            \/ req'[r].pc = "ended" /\ req'[r].result = "failed" /\ UNCHANGED turnVars
            \/ Close(r)
<1> USE DEF TypeOK, Request, At
<1>2. CASE Reject(r) \/ ForwardError(r) \/ ErrorUnread(r) \/ PrepareRaises(r)
           \/ AnthropicFails(r) \/ ExitRaises(r)
  BY <1>2 DEF Reject, ForwardError, ErrorUnread, PrepareRaises, AnthropicFails,
              ExitRaises, Finish
<1>3. CASE SkipBarrier(r) \/ PassBarrier(r) \/ TimeOut(r)
  BY <1>3 DEF SkipBarrier, PassBarrier, TimeOut, Recall
<1>4. CASE EnterBarrier(r) \/ Post(r) \/ Prepared(r) \/ WriteEof(r) \/ AnthropicAnswers(r)
           \/ LastChunk(r)
  BY <1>4 DEF EnterBarrier, Post, Prepared, WriteEof, AnthropicAnswers, LastChunk, Goto
<1>5. CASE UpstreamAnswers(r)
  <2>1. NextCandidate(r) \/ NextAttempt(r) \/ \E pc \in PCs \ {"idle", "ended"} : Goto(r, pc)
    BY <1>5 DEF UpstreamAnswers, FailOver, Retry, FallThrough, Settle, PCs
  <2>2. At(r, "enter")
    BY <1>5 DEF UpstreamAnswers
  <2> QED BY <2>1, <2>2 DEF NextCandidate, NextAttempt, Goto
<1>6. CASE UpstreamFails(r)
  <2>1. NextAttempt(r) \/ NextCandidate(r) \/ Finish(r, "failed")
    BY <1>6 DEF UpstreamFails
  <2>2. At(r, "enter") /\ UNCHANGED turnVars
    BY <1>6 DEF UpstreamFails
  <2> QED BY <2>1, <2>2 DEF NextCandidate, NextAttempt, Finish
<1>7. CASE RelayPlain(r) \/ PlainRaises(r) \/ StreamRaises(r) \/ RelayStream(r)
           \/ EpilogueRaises(r) \/ PassThrough(r)
  BY <1>7 DEF RelayPlain, PlainRaises, StreamRaises, RelayStream, EpilogueRaises,
              PassThrough, GotoClose
<1>8. CASE Close(r)
  BY <1>8 DEF Close
<1> QED BY <1>2, <1>3, <1>4, <1>5, <1>6, <1>7, <1>8 DEF Step

\* What a handler does to receipts and to what memory has learnt.
LEMMA Billing ==
  ASSUME TypeOK, NEW r \in Reqs, Receive(r) \/ Step(r)
  PROVE  /\ done' = done
         /\ \/ bills' = bills
            \/ bills' = [bills EXCEPT ![r] = @ + 1] /\ req'[r].pc = "close"
               /\ req[r].pc \in {"plain", "epilogue"}
<1> USE DEF TypeOK, Request, At
<1>1. CASE RelayPlain(r) \/ RelayStream(r) \/ EpilogueRaises(r)
  BY <1>1 DEF RelayPlain, RelayStream, EpilogueRaises, IssueReceipt, GotoClose
<1>2. CASE ~(RelayPlain(r) \/ RelayStream(r) \/ EpilogueRaises(r))
  BY <1>2 DEF Step, Receive, Reject, ForwardError, ErrorUnread, PrepareRaises,
     AnthropicFails, ExitRaises, SkipBarrier, PassBarrier, TimeOut, EnterBarrier, Post,
     Prepared, WriteEof, AnthropicAnswers, LastChunk, Close, UpstreamAnswers,
     UpstreamFails, PlainRaises, StreamRaises, PassThrough, turnVars
<1> QED BY <1>1, <1>2

(* The proxy implements the contract: no turn of a chat route is answered  *)
(* without its receipt or gets a second one, through retries, failover,    *)
(* broken streams and concurrent turns, and memory learns billed turns only. *)
THEOREM Contracted == Spec => KeepsContract
<1>1. Init => Contract!Init
  BY DEF Init, NoRequest, Contract!Init, Phase, At
<1>2. TypeOK /\ TurnInv /\ [Next]_vars => [Contract!Next]_(Contract!vars)
  <2> SUFFICES ASSUME TypeOK, TurnInv, [Next]_vars PROVE [Contract!Next]_(Contract!vars)
    OBVIOUS
  <2>1. CASE UNCHANGED vars
    BY <2>1 DEF vars, Contract!vars, Phase, At
  <2>2. ASSUME NEW r \in Reqs, Receive(r) PROVE Contract!Accept(r)
    <3>1. \A q \in Reqs \ {r} : Phase(q)' = Phase(q)
      BY <2>2, Framed DEF Phase, At
    <3>2. req[r].pc = "idle" /\ req'[r].pc = "read" /\ UNCHANGED <<bills, done>>
      BY <2>2 DEF Receive, At, TypeOK, Request, turnVars
    <3>3. Phase(r) = "new" /\ Phase(r)' \in {"metered", "unmetered"}
      BY <3>2 DEF Phase, At
    <3> QED BY <3>1, <3>2, <3>3, PhaseStep DEF Contract!Accept
  <2>3. ASSUME NEW r \in Reqs, Step(r) PROVE [Contract!Next]_(Contract!vars)
    <3>1. /\ \A q \in Reqs \ {r} : Phase(q)' = Phase(q)
          /\ req'[r].route = req[r].route
      BY <2>3, Framed DEF Phase, At
    <3>2. Phase(r) \in {"metered", "unmetered"} /\ (Phase(r) = "metered" <=> req[r].route # "anthropic")
      BY <2>3, Progress DEF Phase, At
    <3>3. CASE req'[r].pc \notin {"idle", "ended"}
      <4>1. Phase(r)' = Phase(r)
        BY <3>1, <3>2, <3>3, <2>3, Progress DEF Phase, At
      <4>2. [q \in Reqs |-> Phase(q)]' = [q \in Reqs |-> Phase(q)]
        BY <3>1, <4>1
      <4>3. CASE bills' = bills
        BY <4>2, <4>3, <2>3, Billing DEF Contract!vars
      <4>4. CASE bills' # bills
        <5>1. /\ bills' = [bills EXCEPT ![r] = @ + 1] /\ done' = done
              /\ req[r].pc \in {"plain", "epilogue"}
          BY <4>4, <2>3, Billing
        <5>2. Placed(r) /\ Billed(r)
          BY DEF TurnInv
        <5>3. bills[r] = 0 /\ req[r].route # "anthropic"
          BY <5>1, <5>2 DEF Placed, Billed
        <5>4. bills' = [bills EXCEPT ![r] = 1]
          BY <5>1, <5>3
        <5>5. Contract!Bill(r)
          BY <5>1, <5>3, <5>4, <3>2, <4>2 DEF Contract!Bill
        <5> QED BY <5>5 DEF Contract!Next
      <4> QED BY <4>3, <4>4
    <3>4. CASE req'[r].pc = "ended" /\ req'[r].result = "failed" /\ UNCHANGED turnVars
      <4>1. Phase(r)' = "failed"
        BY <3>4 DEF Phase, At
      <4>2. Contract!Fail(r)
        BY <4>1, <3>1, <3>2, <3>4, PhaseStep DEF Contract!Fail, turnVars
      <4> QED BY <4>2 DEF Contract!Next
    <3>5. CASE Close(r)
      <4>1. /\ req[r].pc = "close" /\ req'[r].pc = "ended" /\ req'[r].result = req[r].result
            /\ UNCHANGED <<bills, done>>
        BY <3>5 DEF Close, Goto, At, TypeOK, Request
      <4>2. req[r].result \in {"answered", "failed"} /\ Phase(r)' = req[r].result
        BY <4>1 DEF TurnInv, Placed, TypeOK, Request, Phase, At
      <4>3. CASE req[r].result = "failed"
        <5>1. Contract!Fail(r)
          BY <4>1, <4>2, <4>3, <3>1, <3>2, PhaseStep DEF Contract!Fail
        <5> QED BY <5>1 DEF Contract!Next
      <4>4. CASE req[r].result = "answered"
        <5>1. req[r].route # "anthropic" => bills[r] = 1
          BY <4>4 DEF TurnInv, Billed
        <5>2. Contract!Answer(r)
          BY <4>1, <4>2, <4>4, <5>1, <3>1, <3>2, PhaseStep DEF Contract!Answer
        <5> QED BY <5>2 DEF Contract!Next
      <4> QED BY <4>2, <4>3, <4>4
    <3> QED BY <3>3, <3>4, <3>5, <2>3, Progress
  <2>4. ASSUME NEW r \in Reqs, Distill(r) PROVE Contract!Learn(r)
    <3>1. bills[r] = 1 /\ done' = done \cup {r} /\ bills' = bills
      BY <2>4 DEF Distill, TurnInv, Billed
    <3>2. \A q \in Reqs : Phase(q)' = Phase(q)
      BY <2>4 DEF Distill, Phase, At, TypeOK, Request
    <3>3. [q \in Reqs |-> Phase(q)]' = [q \in Reqs |-> Phase(q)]
      BY <3>2
    <3> QED BY <3>1, <3>3 DEF Contract!Learn
  <2> QED BY <2>1, <2>2, <2>3, <2>4 DEF Next, Contract!Next
<1> QED BY <1>1, <1>2, Typing, TurnInvariant, PTL DEF Spec, KeepsContract, Contract!Spec

-----------------------------------------------------------------------------
(* The barrier.                                                            *)

Counted == IsFiniteSet(jobs) /\ BarrierCounts

\* What a handler does to the distillations in flight.
LEMMA Queuing ==
  ASSUME TypeOK, NEW r \in Reqs, Receive(r) \/ Step(r)
  PROVE  \/ UNCHANGED <<pending, idle, jobs>>
         \/ /\ req[r].pc \in {"plain", "epilogue"}
            /\ pending' = pending + 1 /\ idle' = FALSE /\ jobs' = jobs \cup {r}
<1>1. CASE RelayPlain(r) \/ RelayStream(r)
  BY <1>1 DEF RelayPlain, RelayStream, QueueDistillation, At
<1>2. CASE ~(RelayPlain(r) \/ RelayStream(r))
  BY <1>2 DEF Step, Receive, Reject, ForwardError, ErrorUnread, PrepareRaises,
     AnthropicFails, ExitRaises, SkipBarrier, PassBarrier, TimeOut, EnterBarrier, Post,
     Prepared, WriteEof, AnthropicAnswers, LastChunk, Close, UpstreamAnswers,
     UpstreamFails, PlainRaises, EpilogueRaises, StreamRaises, PassThrough, turnVars
<1> QED BY <1>1, <1>2

LEMMA Counting == TypeOK /\ TurnInv /\ Counted /\ [Next]_vars => Counted'
<1> SUFFICES ASSUME TypeOK, TurnInv, Counted, [Next]_vars PROVE Counted'
  OBVIOUS
<1>1. CASE UNCHANGED <<pending, idle, jobs>>
  BY <1>1 DEF Counted, BarrierCounts
<1>2. ASSUME NEW r \in Reqs, req[r].pc \in {"plain", "epilogue"},
             pending' = pending + 1, idle' = FALSE, jobs' = jobs \cup {r}
      PROVE  Counted'
  <2>1. r \notin jobs
    BY <1>2 DEF TurnInv, Billed
  <2>2. IsFiniteSet(jobs') /\ Cardinality(jobs') = Cardinality(jobs) + 1
    BY <1>2, <2>1, FS_AddElement DEF Counted
  <2>3. jobs' # {}
    BY <1>2
  <2> QED BY <1>2, <2>2, <2>3 DEF Counted, BarrierCounts
<1>3. ASSUME NEW r \in Reqs, Distill(r) PROVE Counted'
  <2>1. r \in jobs /\ jobs' = jobs \ {r}
    BY <1>3 DEF Distill
  <2>2. IsFiniteSet(jobs') /\ Cardinality(jobs') = Cardinality(jobs) - 1
    BY <2>1, FS_RemoveElement DEF Counted
  <2>3. jobs # {} /\ pending = Cardinality(jobs) /\ ~idle
    BY <2>1 DEF Counted, BarrierCounts
  <2>4. pending \in Nat /\ pending # 0
    BY <2>3, FS_EmptySet DEF TypeOK, Counted
  <2>5. pending' = Cardinality(jobs')
    BY <1>3, <2>2, <2>3, <2>4 DEF Distill
  <2>6. idle' <=> pending' = 0
    BY <1>3, <2>3 DEF Distill
  <2>7. pending' = 0 <=> jobs' = {}
    BY <2>2, <2>5, FS_EmptySet
  <2> QED BY <2>2, <2>5, <2>6, <2>7 DEF Counted, BarrierCounts
<1> QED BY <1>1, <1>2, <1>3, Queuing DEF Next, vars

LEMMA CountedInvariant == Spec => []Counted
<1>1. Init => Counted
  BY FS_EmptySet DEF Init, Counted, BarrierCounts
<1> QED BY <1>1, Counting, Typing, TurnInvariant, PTL DEF Spec

(* The counter of the distiller is the number of tasks in flight and its    *)
(* event is set exactly when there is none, whatever handlers mark and      *)
(* whatever tasks finish in between: the floor at zero is never needed.     *)
THEOREM BarrierIsExact == Spec => []BarrierCounts
<1>1. Counted => BarrierCounts
  BY DEF Counted
<1> QED BY <1>1, CountedInvariant, PTL


-----------------------------------------------------------------------------
(* The recall.                                                             *)

\* An answered turn is queued before its client can have the answer, unless it
\* is streamed; a handler owes its client the turns the client had seen; and
\* when its wait is over, the plain ones among them are distilled.
Fresh(r) ==
  /\ req[r].result = "answered" /\ Distills(r) => r \in jobs \cup done
  /\ r \in seen => /\ req[r].pc \in {"tail", "epilogue", "close", "ended"}
                   /\ req[r].route = "plain" => req[r].result = "answered"
  /\ \A q \in req[r].after : q \in seen /\ Distills(q)
  /\ req[r].pc = "woken" =>
       \A q \in req[r].after : req[q].route = "plain" => q \in done
  /\ \A q \in req[r].missed : q \in seen /\ req[q].route # "plain"

FreshInv == \A r \in Reqs : Fresh(r)

\* What a handler's step does to the answer and to who has seen it.
LEMMA Answering ==
  ASSUME TypeOK, TurnInv, NEW r \in Reqs, Step(r)
  PROVE  /\ \/ req'[r].result = req[r].result
            \/ req'[r].result = "failed" /\ req[r].result = "none"
            \/ req'[r].result = "answered" /\ (Distills(r) => r \in jobs')
         /\ req[r].pc \in {"tail", "epilogue", "close"} =>
              req'[r].pc \in {"tail", "epilogue", "close", "ended"}
         /\ \/ seen' = seen
            \/ /\ seen' = seen \cup {r}
               /\ req'[r].pc \in {"tail", "ended"}
               /\ req[r].route = "plain" => req'[r].result = "answered"
<1>1. Placed(r) /\ Billed(r) /\ req[r].route \in Routes
  BY DEF TurnInv, TypeOK, Request
<1> USE DEF TypeOK, Request, At, turnVars, Placed, Distills
<1>2. CASE Reject(r) \/ ForwardError(r) \/ ErrorUnread(r) \/ PrepareRaises(r)
           \/ AnthropicFails(r) \/ ExitRaises(r)
  BY <1>1, <1>2 DEF Reject, ForwardError, ErrorUnread, PrepareRaises, AnthropicFails,
              ExitRaises, Finish
<1>3. CASE SkipBarrier(r) \/ PassBarrier(r) \/ TimeOut(r)
  BY <1>3 DEF SkipBarrier, PassBarrier, TimeOut, Recall
<1>4. CASE EnterBarrier(r) \/ Post(r) \/ Prepared(r) \/ WriteEof(r) \/ AnthropicAnswers(r)
  BY <1>4 DEF EnterBarrier, Post, Prepared, WriteEof, AnthropicAnswers, Goto
<1>5. CASE UpstreamAnswers(r)
  <2>1. NextCandidate(r) \/ NextAttempt(r) \/ \E pc \in PCs : Goto(r, pc)
    BY <1>5 DEF UpstreamAnswers, FailOver, Retry, FallThrough, Settle, PCs
  <2>2. req[r].pc = "enter" /\ UNCHANGED turnVars
    BY <1>5 DEF UpstreamAnswers
  <2> QED BY <2>1, <2>2 DEF NextCandidate, NextAttempt, Goto
<1>6. CASE UpstreamFails(r)
  <2>1. NextAttempt(r) \/ NextCandidate(r) \/ Finish(r, "failed")
    BY <1>6 DEF UpstreamFails
  <2>2. req[r].pc = "enter" /\ UNCHANGED turnVars
    BY <1>6 DEF UpstreamFails
  <2> QED BY <1>1, <2>1, <2>2 DEF NextCandidate, NextAttempt, Finish
<1>7. CASE PlainRaises(r) \/ StreamRaises(r) \/ EpilogueRaises(r) \/ PassThrough(r)
  BY <1>1, <1>7 DEF PlainRaises, StreamRaises, EpilogueRaises, PassThrough, GotoClose
<1>8. CASE RelayPlain(r) \/ RelayStream(r)
  BY <1>1, <1>8 DEF RelayPlain, RelayStream, GotoClose, QueueDistillation
<1>9. CASE LastChunk(r) \/ Close(r)
  BY <1>1, <1>9 DEF LastChunk, Close, Goto
<1> QED BY <1>2, <1>3, <1>4, <1>5, <1>6, <1>7, <1>8, <1>9 DEF Step

\* What a handler's step does to the turns it owes.
LEMMA Owing ==
  ASSUME TypeOK, NEW r \in Reqs, Step(r)
  PROVE  /\ req'[r].after \subseteq req[r].after
         /\ req'[r].missed \subseteq req[r].missed
              \cup (IF req[r].pc = "woken" THEN req[r].after \ done ELSE {})
         /\ req'[r].pc = "woken" => idle
<1> USE DEF TypeOK, Request, At, turnVars
<1>2. CASE Reject(r) \/ ForwardError(r) \/ ErrorUnread(r) \/ PrepareRaises(r)
           \/ AnthropicFails(r) \/ ExitRaises(r)
  BY <1>2 DEF Reject, ForwardError, ErrorUnread, PrepareRaises, AnthropicFails,
              ExitRaises, Finish
<1>3. CASE SkipBarrier(r) \/ PassBarrier(r) \/ TimeOut(r)
  BY <1>3 DEF SkipBarrier, PassBarrier, TimeOut, Recall
<1>4. CASE EnterBarrier(r) \/ Post(r) \/ Prepared(r) \/ WriteEof(r) \/ AnthropicAnswers(r)
           \/ LastChunk(r) \/ Close(r)
  BY <1>4 DEF EnterBarrier, Post, Prepared, WriteEof, AnthropicAnswers, LastChunk, Close, Goto
<1>5. CASE UpstreamAnswers(r)
  <2>1. NextCandidate(r) \/ NextAttempt(r) \/ \E pc \in PCs \ {"woken"} : Goto(r, pc)
    BY <1>5 DEF UpstreamAnswers, FailOver, Retry, FallThrough, Settle, PCs
  <2> QED BY <2>1 DEF NextCandidate, NextAttempt, Goto
<1>6. CASE UpstreamFails(r)
  <2>1. NextAttempt(r) \/ NextCandidate(r) \/ Finish(r, "failed")
    BY <1>6 DEF UpstreamFails
  <2> QED BY <2>1 DEF NextCandidate, NextAttempt, Finish
<1>7. CASE RelayPlain(r) \/ PlainRaises(r) \/ StreamRaises(r) \/ RelayStream(r)
           \/ EpilogueRaises(r) \/ PassThrough(r)
  BY <1>7 DEF RelayPlain, PlainRaises, StreamRaises, RelayStream, EpilogueRaises,
              PassThrough, GotoClose
<1> QED BY <1>2, <1>3, <1>4, <1>5, <1>6, <1>7 DEF Step

LEMMA FreshReceive ==
  ASSUME TypeOK, TurnInv, FreshInv, NEW r \in Reqs, Receive(r)
  PROVE  FreshInv'
<1>1. PICK route \in Routes, messages \in {"none", "some"} :
        req' = [req EXCEPT ![r].pc = "read", ![r].route = route,
                           ![r].messages = messages,
                           ![r].after = {p \in seen : Distills(p)}]
  BY DEF Receive
<1>2. UNCHANGED <<seen, jobs, done>> /\ req[r].pc = "idle"
  BY DEF Receive, turnVars, At
<1>3. Placed(r) /\ Fresh(r) /\ r \notin seen /\ req[r].result = "none"
  BY <1>2 DEF TurnInv, FreshInv, Placed, Fresh
<1>4. \A q \in Reqs \ {r} : req'[q] = req[q]
  BY Framed
<1>5. /\ req'[r].pc = "read" /\ req'[r].result = "none"
      /\ req'[r].after = {p \in seen : Distills(p)} /\ req'[r].missed = req[r].missed
  BY <1>1, <1>3 DEF TypeOK, Request
<1>6. \A q \in seen : q \in Reqs \ {r}
  BY <1>3 DEF TypeOK
<1> SUFFICES ASSUME NEW q \in Reqs PROVE Fresh(q)'
  BY DEF FreshInv
<1>7. CASE q = r
  BY <1>2, <1>3, <1>4, <1>5, <1>6, <1>7 DEF Fresh, Distills
<1>8. CASE q # r
  BY <1>2, <1>4, <1>6, <1>8 DEF FreshInv, Fresh, Distills
<1> QED BY <1>7, <1>8

LEMMA FreshStep ==
  ASSUME TypeOK, TurnInv, Counted, FreshInv, NEW r \in Reqs, Step(r)
  PROVE  FreshInv'
<1>1. /\ \A q \in Reqs \ {r} : req'[q] = req[q]
      /\ req'[r].route = req[r].route /\ req'[r].messages = req[r].messages
  BY Framed
<1>2. done' = done /\ jobs \subseteq jobs'
  BY Billing, Queuing
<1>3. \A q \in Reqs : /\ req'[q].route = req[q].route
                       /\ Distills(q)' <=> Distills(q)
  BY <1>1 DEF Distills
<1>4. seen \subseteq seen' /\ seen' \subseteq seen \cup {r}
  BY Answering
<1>5. \A q \in Reqs : Fresh(q) /\ req[q].after \subseteq Reqs /\ req[q].missed \subseteq Reqs
  BY DEF FreshInv, TypeOK, Request
<1>6. ASSUME NEW q \in Reqs \ {r} PROVE Fresh(q)'
  BY <1>1, <1>2, <1>3, <1>4, <1>5 DEF Fresh
<1>7. Fresh(r)'
  <2> DEFINE result == req'[r].result
  <2>7. \/ result = req[r].result
        \/ result = "failed" /\ req[r].result = "none"
        \/ result = "answered" /\ (Distills(r) => r \in jobs')
    BY Answering
  <2>8. \/ seen' = seen
        \/ seen' = seen \cup {r} /\ (req[r].route = "plain" => result = "answered")
    BY Answering
  <2>9. /\ req[r].result = "answered" /\ Distills(r) => r \in jobs \cup done
        /\ r \in seen => (req[r].route = "plain" => req[r].result = "answered")
    BY <1>5 DEF Fresh
  <2>10. Distills(r)' <=> Distills(r)
    BY <1>1 DEF Distills
  <2> HIDE DEF result
  <2>11. result = "answered" /\ Distills(r) => r \in jobs' \cup done'
    BY <1>2, <2>7, <2>9
  <2>12. r \in seen' => (req[r].route = "plain" => result = "answered")
    BY <2>7, <2>8, <2>9
  <2>1. (req[r].result = "answered" /\ Distills(r) => r \in jobs \cup done)'
    BY <2>10, <2>11 DEF result
  <2>2. (r \in seen => req[r].pc \in {"tail", "epilogue", "close", "ended"})'
    BY <1>5, Answering, Progress DEF Fresh
  <2>3. (r \in seen => (req[r].route = "plain" => req[r].result = "answered"))'
    BY <1>1, <2>12 DEF result
  <2>4. (\A q \in req[r].after : q \in seen /\ Distills(q))'
    BY <1>3, <1>4, <1>5, Owing DEF Fresh
  <2>5. ASSUME req'[r].pc = "woken", NEW q \in req'[r].after, req'[q].route = "plain"
        PROVE  q \in done'
    <3>1. q \in Reqs /\ q \in seen /\ Distills(q) /\ req[q].route = "plain"
      BY <2>5, <1>3, <1>5, Owing DEF Fresh
    <3>2. jobs = {}
      BY <2>5, Owing DEF Counted, BarrierCounts
    <3>3. q \in jobs \cup done
      BY <3>1, <1>5 DEF Fresh
    <3> QED BY <3>2, <3>3, <1>2
  <2>6. (\A q \in req[r].missed : q \in seen /\ req[q].route # "plain")'
    <3>1. ASSUME NEW q \in req'[r].missed
          PROVE  q \in Reqs /\ q \in seen /\ req[q].route # "plain"
      <4>1. CASE q \in req[r].missed
        BY <4>1, <1>5 DEF Fresh
      <4>2. CASE req[r].pc = "woken" /\ q \in req[r].after \ done
        BY <4>2, <1>5 DEF Fresh
      <4> QED BY <4>1, <4>2, Owing
    <3>2. ASSUME NEW q \in req'[r].missed PROVE q \in seen' /\ req'[q].route # "plain"
      <4>1. q \in Reqs /\ q \in seen /\ req[q].route # "plain"
        BY <3>1, <3>2
      <4>2. req'[q].route = req[q].route
        BY <4>1, <1>1
      <4> QED BY <4>1, <4>2, <1>4
    <3> QED BY <3>2
  <2> QED BY <2>1, <2>2, <2>3, <2>4, <2>5, <2>6 DEF Fresh
<1> QED BY <1>6, <1>7 DEF FreshInv

LEMMA FreshDistill ==
  ASSUME TypeOK, Counted, FreshInv, NEW r \in Reqs, Distill(r), Counted'
  PROVE  FreshInv'
<1>1. \A q \in Reqs : /\ req'[q].route = req[q].route /\ req'[q].messages = req[q].messages
                       /\ req'[q].result = req[q].result
                       /\ req'[q].after = req[q].after /\ req'[q].missed = req[q].missed
                       /\ \/ req'[q].pc = req[q].pc
                          \/ req'[q].pc = "woken" /\ req[q].pc = "wait" /\ pending' = 0
  BY DEF Distill, At, TypeOK, Request
<1>2. seen' = seen /\ jobs \cup done = jobs' \cup done' /\ done \subseteq done'
  BY DEF Distill
<1>3. \A q \in Reqs : Distills(q)' <=> Distills(q)
  BY <1>1 DEF Distills
<1>4. \A q \in Reqs : Fresh(q) /\ req[q].after \subseteq Reqs /\ req[q].missed \subseteq Reqs
  BY DEF FreshInv, TypeOK, Request
<1>5. pending' = 0 => jobs' = {}
  BY FS_EmptySet DEF Counted, BarrierCounts
<1> SUFFICES ASSUME NEW q \in Reqs PROVE Fresh(q)'
  BY DEF FreshInv
<1>6. CASE req'[q].pc = req[q].pc
  BY <1>1, <1>2, <1>3, <1>4, <1>6 DEF Fresh
<1>7. CASE req'[q].pc = "woken" /\ req[q].pc = "wait" /\ pending' = 0
  <2>1. \A p \in req[q].after : req[p].route = "plain" => p \in done'
    BY <1>2, <1>4, <1>5, <1>7 DEF Fresh
  <2> QED BY <1>1, <1>2, <1>3, <1>4, <1>7, <2>1 DEF Fresh
<1> QED BY <1>1, <1>6, <1>7

(* A recall that counted no stale read found every turn of the plain route *)
(* whose answer its client had seen when it asked, for any number of       *)
(* handlers and distillations in flight.                                   *)
THEOREM PlainTurnsFresh == Spec => []PlainTurnsRecalled
<1>1. Init => FreshInv
  BY DEF Init, NoRequest, FreshInv, Fresh
<1>2. TypeOK /\ TurnInv /\ Counted /\ Counted' /\ FreshInv /\ [Next]_vars => FreshInv'
  <2>1. ASSUME FreshInv, UNCHANGED vars PROVE FreshInv'
    BY <2>1 DEF FreshInv, Fresh, Distills, vars
  <2> QED BY <2>1, FreshReceive, FreshStep, FreshDistill DEF Next
<1>3. FreshInv => PlainTurnsRecalled
  BY DEF FreshInv, Fresh, PlainTurnsRecalled, NoStaleRecallOf
<1> QED BY <1>1, <1>2, <1>3, Typing, TurnInvariant, CountedInvariant, PTL DEF Spec


-----------------------------------------------------------------------------
(* The connections.                                                        *)

Holding == {"enter", "error", "plain", "prepare", "stream", "tail", "epilogue",
            "passthrough", "close", "ended"}

\* A handler's connections are those of candidates it gave up, and, between a
\* post and its end, the one of its present attempt.
Held(r) ==
  /\ \A c \in 1..Cands : \A a \in Attempts : <<r, c, a>> \in open =>
       /\ c <= req[r].cand
       /\ c = req[r].cand => a = req[r].attempt /\ req[r].pc \in Holding
  /\ \A c \in 1..Cands : ~(<<r, c, 0>> \in open /\ <<r, c, 1>> \in open)
  /\ req[r].pc = "ended" /\ req[r].result = "answered" =>
       \A a \in Attempts : <<r, req[r].cand, a>> \notin open

HeldInv == \A r \in Reqs : Held(r)

Same(r) == req'[r].cand = req[r].cand /\ req'[r].attempt = req[r].attempt

\* What a handler's step does to its connections.
LEMMA Connecting ==
  ASSUME TypeOK, TurnInv, NEW r \in Reqs, Receive(r) \/ Step(r)
  PROVE  \/ /\ open' = open /\ Same(r)
            /\ req[r].pc \in Holding => req'[r].pc \in Holding
            /\ req'[r].pc = "ended" => req'[r].result # "answered"
         \/ /\ open' = open \cup {Conn(r)} /\ Same(r)
            /\ req[r].pc = "post" /\ req'[r].pc = "enter"
         \/ open' = open \ {Conn(r)} /\ NextAttempt(r)
         \/ open' \in {open, open \ {Conn(r)}} /\ NextCandidate(r)
         \/ open' = open \ {Conn(r)} /\ Same(r) /\ req'[r].pc = "ended"
<1>1. Placed(r)
  BY DEF TurnInv
<1> USE DEF TypeOK, Request, At, Same, Holding, turnVars
<1>2. CASE Receive(r)
  <2>1. PICK route \in Routes, messages \in {"none", "some"} :
          req' = [req EXCEPT ![r].pc = "read", ![r].route = route,
                             ![r].messages = messages,
                             ![r].after = {p \in seen : Distills(p)}]
    BY <1>2 DEF Receive
  <2>2. req[r].pc = "idle" /\ open' = open
    BY <1>2 DEF Receive
  <2> QED BY <2>1, <2>2
<1>3. CASE Reject(r) \/ ErrorUnread(r) \/ PrepareRaises(r)
           \/ ForwardError(r) \/ AnthropicFails(r) \/ ExitRaises(r)
  BY <1>3 DEF Reject, ForwardError, ErrorUnread, PrepareRaises, AnthropicFails,
              ExitRaises, Finish
<1>4. CASE SkipBarrier(r) \/ PassBarrier(r) \/ TimeOut(r)
  BY <1>4 DEF SkipBarrier, PassBarrier, TimeOut, Recall
<1>5. CASE EnterBarrier(r) \/ Post(r) \/ Prepared(r) \/ WriteEof(r) \/ AnthropicAnswers(r)
           \/ LastChunk(r) \/ Close(r)
  BY <1>5 DEF EnterBarrier, Post, Prepared, WriteEof, AnthropicAnswers, LastChunk, Close, Goto
<1>6. CASE UpstreamAnswers(r)
  <2>1. PICK status \in Statuses :
          FailOver(r, status) \/ Retry(r, status) \/ FallThrough(r, status) \/ Settle(r, status)
    BY <1>6 DEF UpstreamAnswers
  <2>2. CASE FailOver(r, status) \/ Retry(r, status) \/ FallThrough(r, status)
    BY <2>2 DEF FailOver, Retry, FallThrough
  <2>3. CASE Settle(r, status)
    BY <2>3, <1>6 DEF Settle, Goto, UpstreamAnswers
  <2> QED BY <2>1, <2>2, <2>3
<1>7. CASE UpstreamFails(r)
  <2>1. open' = open \ {Conn(r)} /\ (NextAttempt(r) \/ NextCandidate(r) \/ Finish(r, "failed"))
    BY <1>7 DEF UpstreamFails
  <2> QED BY <2>1 DEF Finish
<1>8. CASE RelayPlain(r) \/ PlainRaises(r) \/ StreamRaises(r) \/ RelayStream(r)
           \/ EpilogueRaises(r) \/ PassThrough(r)
  BY <1>8 DEF RelayPlain, PlainRaises, StreamRaises, RelayStream, EpilogueRaises,
              PassThrough, GotoClose
<1> QED BY <1>2, <1>3, <1>4, <1>5, <1>6, <1>7, <1>8 DEF Step

LEMMA HeldStep ==
  ASSUME TypeOK, TurnInv, HeldInv, NEW r \in Reqs, Receive(r) \/ Step(r)
  PROVE  HeldInv'
<1>1. /\ req[r].cand \in 1..Cands /\ req[r].attempt \in Attempts /\ Held(r)
      /\ \A q \in Reqs \ {r} : req'[q] = req[q] /\ Held(q)
  BY Framed DEF HeldInv, TypeOK, Request
<1>2. ASSUME NEW q \in Reqs \ {r} PROVE Held(q)'
  <2>1. \A c, a : <<q, c, a>> \in open' <=> <<q, c, a>> \in open
    BY Connecting DEF Conn
  <2> QED BY <1>1, <2>1 DEF Held
<1>3. Held(r)'
  <2>1. CASE /\ open' = open /\ Same(r)
             /\ req[r].pc \in Holding => req'[r].pc \in Holding
             /\ req'[r].pc = "ended" => req'[r].result # "answered"
    BY <1>1, <2>1 DEF Held, Same
  <2>2. CASE /\ open' = open \cup {Conn(r)} /\ Same(r)
             /\ req[r].pc = "post" /\ req'[r].pc = "enter"
    <3>1. \A a \in Attempts : <<r, req[r].cand, a>> \notin open
      BY <1>1, <2>2 DEF Held, Holding
    <3> QED BY <1>1, <2>2, <3>1, ProxyAssumption DEF Held, Same, Conn, Holding, Attempts
  <2>3. CASE open' = open \ {Conn(r)} /\ NextAttempt(r)
    <3>1. \A a \in Attempts : <<r, req[r].cand, a>> \notin open'
      BY <1>1, <2>3 DEF Held, Conn
    <3>2. req'[r].pc = "post" /\ req'[r].cand = req[r].cand
      BY <2>3 DEF NextAttempt, TypeOK, Request
    <3> QED BY <1>1, <2>3, <3>1, <3>2 DEF Held
  <2>4. CASE open' \in {open, open \ {Conn(r)}} /\ NextCandidate(r)
    <3>1. req'[r].pc = "post" /\ req'[r].cand = req[r].cand + 1
      BY <2>4 DEF NextCandidate, TypeOK, Request
    <3>2. open' \subseteq open
      BY <2>4
    <3>3. \A c \in 1..Cands : c <= req[r].cand => c <= req'[r].cand /\ c # req'[r].cand
      BY <1>1, <3>1, ProxyAssumption
    <3> QED BY <1>1, <3>1, <3>2, <3>3 DEF Held
  <2>5. CASE open' = open \ {Conn(r)} /\ Same(r) /\ req'[r].pc = "ended"
    <3>1. \A a \in Attempts : <<r, req[r].cand, a>> \notin open'
      BY <1>1, <2>5 DEF Held, Conn
    <3> QED BY <1>1, <2>5, <3>1 DEF Held, Same, Holding
  <2> QED BY <2>1, <2>2, <2>3, <2>4, <2>5, Connecting
<1> QED BY <1>2, <1>3 DEF HeldInv

LEMMA HeldDistill ==
  ASSUME TypeOK, HeldInv, NEW r \in Reqs, Distill(r)
  PROVE  HeldInv'
<1>1. \A q \in Reqs : /\ Same(q) /\ req'[q].result = req[q].result
                       /\ \/ req'[q].pc = req[q].pc
                          \/ req[q].pc = "wait" /\ req'[q].pc = "woken"
  BY DEF Distill, At, TypeOK, Request, Same
<1>2. open' = open
  BY DEF Distill
<1> QED BY <1>1, <1>2 DEF HeldInv, Held, Same, Holding

LEMMA OneAttempt ==
  ASSUME NEW r, NEW c, ~(<<r, c, 0>> \in open /\ <<r, c, 1>> \in open)
  PROVE  Cardinality({a \in Attempts : <<r, c, a>> \in open}) <= 1
<1> DEFINE held == {a \in Attempts : <<r, c, a>> \in open}
<1>1. held = {} \/ held = {0} \/ held = {1}
  BY DEF Attempts
<1>2. Cardinality({}) = 0 /\ Cardinality({0}) = 1 /\ Cardinality({1}) = 1
  BY FS_EmptySet, FS_Singleton
<1>3. Cardinality(held) = 0 \/ Cardinality(held) = 1
  BY <1>1, <1>2
<1> QED BY <1>3

(* Whatever retries, failovers and failures a request meets, it never holds *)
(* two connections to one candidate, and a request that was answered holds  *)
(* none to the candidate that answered it.                                  *)
THEOREM BoundedConnections == Spec => []ConnectionsBounded
<1>1. Init => HeldInv
  BY DEF Init, NoRequest, HeldInv, Held
<1>2. TypeOK /\ TurnInv /\ HeldInv /\ [Next]_vars => HeldInv'
  <2>1. ASSUME HeldInv, UNCHANGED vars PROVE HeldInv'
    BY <2>1 DEF HeldInv, Held, vars
  <2> QED BY <2>1, HeldStep, HeldDistill DEF Next
<1>3. HeldInv => ConnectionsBounded
  BY OneAttempt DEF HeldInv, Held, ConnectionsBounded, At
<1> QED BY <1>1, <1>2, <1>3, Typing, TurnInvariant, PTL DEF Spec

-----------------------------------------------------------------------------
(* Every request is finite work.                                           *)

\* The awaits of a handler that are still ahead of it if no answer is retried ...
Ahead(pc) ==
  CASE pc = "read"    -> 13  [] pc = "wait"   -> 12  [] pc = "woken" -> 11
    [] pc = "post"    -> 10  [] pc = "enter"  -> 9
    [] pc = "prepare" -> 8   [] pc = "stream" -> 7   [] pc = "tail"  -> 6
    [] pc \in {"plain", "error", "epilogue", "passthrough"} -> 5
    [] pc = "close"   -> 4
    [] OTHER -> 0

\* ... and the posts that failover and retry may still add, two awaits each.
PostsLeft(r) == 2 * (Cands - req[r].cand) + 1 - req[r].attempt
Left(r) == IF At(r, "idle") \/ At(r, "ended") THEN 0
           ELSE 2 * PostsLeft(r) + Ahead(req[r].pc)

WorkBounded == \A r \in Reqs : Left(r) \in 0..(4 * Cands + 11)
WorkDone ==
  [][\A r \in Reqs : At(r, "idle") \/ req'[r] = req[r] \/ Left(r)' < Left(r)]_vars

LEMMA AheadBounds ==
  ASSUME NEW pc \in PCs
  PROVE  Ahead(pc) \in 0..13 /\ (pc \in {"idle", "ended"} \/ Ahead(pc) >= 4)
BY DEF PCs, Ahead

LEMMA Numbers ==
  ASSUME TypeOK, NEW r \in Reqs
  PROVE  /\ Cands \in Nat /\ req[r].cand \in 1..Cands /\ req[r].attempt \in {0, 1}
         /\ PostsLeft(r) \in 0..(2 * Cands - 1)
         /\ req[r].pc \in PCs /\ req[r] \in Request
<1>1. /\ req[r].cand \in 1..Cands /\ req[r].attempt \in {0, 1}
      /\ req[r].pc \in PCs /\ req[r] \in Request
  BY DEF TypeOK, Request, Attempts
<1> QED BY <1>1, ProxyAssumption DEF PostsLeft

\* A step that goes on within an attempt has less ahead of it ...
LEMMA OnWorks ==
  ASSUME TypeOK, NEW r \in Reqs, ~At(r, "idle"), ~At(r, "ended"), Same(r),
         req'[r].pc \in PCs,
         Ahead(req'[r].pc) < Ahead(req[r].pc)
  PROVE  Left(r)' < Left(r)
<1>1. PostsLeft(r)' = PostsLeft(r) /\ PostsLeft(r) \in Nat
  BY Numbers DEF PostsLeft, Same
<1>2. Ahead(req[r].pc) \in Nat /\ Ahead(req'[r].pc) \in Nat
  BY Numbers, AheadBounds
<1>3. Left(r) = 2 * PostsLeft(r) + Ahead(req[r].pc)
  BY DEF Left
<1>4. Left(r)' \in {0, 2 * PostsLeft(r) + Ahead(req'[r].pc)}
  BY <1>1 DEF Left
<1> QED BY <1>1, <1>2, <1>3, <1>4

\* ... and one that posts again has used up an attempt.
LEMMA AgainWorks ==
  ASSUME TypeOK, NEW r \in Reqs, At(r, "enter"),
         NextCandidate(r) \/ (NextAttempt(r) /\ req[r].attempt = 0)
  PROVE  Left(r)' < Left(r)
<1>1. req'[r].pc = "post" /\ PostsLeft(r)' <= PostsLeft(r) - 1 /\ PostsLeft(r)' \in Int
  <2>1. CASE NextCandidate(r)
    <3>1. req'[r].pc = "post" /\ req'[r].cand = req[r].cand + 1 /\ req'[r].attempt = 0
      BY <2>1, Numbers DEF NextCandidate, TypeOK, Request
    <3> QED BY <3>1, Numbers DEF PostsLeft
  <2>2. CASE NextAttempt(r) /\ req[r].attempt = 0
    <3>1. req'[r].pc = "post" /\ req'[r].cand = req[r].cand /\ req'[r].attempt = 1
      BY <2>2, Numbers DEF NextAttempt, TypeOK, Request
    <3> QED BY <2>2, <3>1, Numbers DEF PostsLeft
  <2> QED BY <2>1, <2>2
<1>2. Left(r) = 2 * PostsLeft(r) + 9 /\ Left(r)' = 2 * PostsLeft(r)' + 10
  BY <1>1 DEF Left, At, Ahead
<1>3. PostsLeft(r) \in Int
  BY Numbers
<1> QED BY <1>1, <1>2, <1>3

LEMMA StepWorks ==
  ASSUME TypeOK, NEW r \in Reqs, Step(r) PROVE Left(r)' < Left(r)
<1>0. req \in [Reqs -> Request] /\ req[r] \in Request
  BY DEF TypeOK
<1>1. ASSUME NEW pc \in PCs, Goto(r, pc), Ahead(pc) < Ahead(req[r].pc),
             ~At(r, "idle"), ~At(r, "ended")
      PROVE  Left(r)' < Left(r)
  <2>1. req'[r].pc = pc /\ Same(r)
    BY <1>0, <1>1 DEF Goto, Same, Request
  <2> QED BY <1>1, <2>1, OnWorks
<1>2. ASSUME NEW result, Finish(r, result), Ahead(req[r].pc) > 0,
             ~At(r, "idle"), ~At(r, "ended")
      PROVE  Left(r)' < Left(r)
  <2>1. req'[r].pc = "ended" /\ Same(r)
    BY <1>0, <1>2 DEF Finish, Same, Request
  <2>2. Ahead("ended") = 0 /\ "ended" \in PCs
    BY DEF Ahead, PCs
  <2> QED BY <1>2, <2>1, <2>2, OnWorks, Numbers, AheadBounds
<1>3. ASSUME NEW result, GotoClose(r, result), Ahead(req[r].pc) > 4,
             ~At(r, "idle"), ~At(r, "ended")
      PROVE  Left(r)' < Left(r)
  <2>1. req'[r].pc = "close" /\ Same(r)
    BY <1>0, <1>3 DEF GotoClose, Same, Request
  <2>2. Ahead("close") = 4 /\ "close" \in PCs
    BY DEF Ahead, PCs
  <2> QED BY <1>3, <2>1, <2>2, OnWorks, Numbers, AheadBounds
<1>4. ASSUME NEW missed, Recall(r, missed), Ahead(req[r].pc) > 10,
             ~At(r, "idle"), ~At(r, "ended")
      PROVE  Left(r)' < Left(r)
  <2>1. req'[r].pc = "post" /\ Same(r)
    BY <1>0, <1>4 DEF Recall, Same, Request
  <2>2. Ahead("post") = 10 /\ "post" \in PCs
    BY DEF Ahead, PCs
  <2> QED BY <1>4, <2>1, <2>2, OnWorks, Numbers, AheadBounds
<1> USE DEF At, Ahead, PCs
<1>5. CASE Reject(r)
  BY <1>2, <1>5 DEF Reject
<1>6. CASE SkipBarrier(r) \/ PassBarrier(r) \/ TimeOut(r)
  BY <1>4, <1>6 DEF SkipBarrier, PassBarrier, TimeOut
<1>7. CASE EnterBarrier(r) \/ Post(r) \/ Prepared(r) \/ WriteEof(r) \/ LastChunk(r) \/ Close(r)
           \/ AnthropicAnswers(r)
  BY <1>1, <1>7 DEF EnterBarrier, Post, Prepared, WriteEof, LastChunk, Close, AnthropicAnswers
<1>8. CASE UpstreamAnswers(r)
  <2>1. PICK status \in Statuses :
          FailOver(r, status) \/ Retry(r, status) \/ FallThrough(r, status) \/ Settle(r, status)
    BY <1>8 DEF UpstreamAnswers
  <2>2. At(r, "enter")
    BY <1>8 DEF UpstreamAnswers
  <2>3. CASE FailOver(r, status) \/ Retry(r, status) \/ FallThrough(r, status)
    BY <2>2, <2>3, AgainWorks DEF FailOver, Retry, Retries, FallThrough
  <2>4. CASE Settle(r, status)
    <3>1. PICK pc \in {"error", "prepare", "plain"} : Goto(r, pc)
      BY <2>4 DEF Settle
    <3> QED BY <1>1, <2>2, <3>1
  <2> QED BY <2>1, <2>3, <2>4
<1>9. CASE UpstreamFails(r)
  BY <1>2, <1>9, AgainWorks DEF UpstreamFails
<1>10. CASE ExitRaises(r) \/ ForwardError(r) \/ ErrorUnread(r) \/ PrepareRaises(r)
            \/ AnthropicFails(r)
  BY <1>2, <1>10 DEF ExitRaises, ForwardError, ErrorUnread, PrepareRaises, AnthropicFails
<1>11. CASE RelayPlain(r) \/ PlainRaises(r) \/ StreamRaises(r) \/ RelayStream(r)
            \/ EpilogueRaises(r) \/ PassThrough(r)
  BY <1>3, <1>11 DEF RelayPlain, PlainRaises, StreamRaises, RelayStream, EpilogueRaises,
                     PassThrough
<1> QED
  BY <1>5, <1>6, <1>7, <1>8, <1>9, <1>10, <1>11 DEF Step

(* The safety half of RequestEnds, for any number of candidate models and   *)
(* of concurrent requests: whatever the upstream answers and whenever the   *)
(* barrier opens, a request takes at most 4 * Cands + 11 steps of the event *)
(* loop, and when it has ended it takes none.  No failure is retried        *)
(* without using up an attempt.                                             *)
THEOREM RequestsAreFinite == Spec => []WorkBounded /\ WorkDone
<1>1. TypeOK => WorkBounded
  BY Numbers, AheadBounds DEF WorkBounded, Left
<1>2. ASSUME TypeOK, [Next]_vars
      PROVE  [\A r \in Reqs : At(r, "idle") \/ req'[r] = req[r] \/ Left(r)' < Left(r)]_vars
  <2> SUFFICES ASSUME NEW r \in Reqs, ~At(r, "idle"), req'[r] # req[r]
               PROVE  Left(r)' < Left(r)
    OBVIOUS
  <2>1. PICK q \in Reqs : Receive(q) \/ Step(q) \/ Distill(q)
    BY <1>2 DEF Next, vars
  <2>2. CASE Receive(q) \/ Step(q)
    <3>1. q = r
      BY <1>2, <2>2, Framed
    <3> QED BY <1>2, <2>2, <3>1, StepWorks DEF Receive
  <2>3. CASE Distill(q)
    <3>1. At(r, "wait") /\ req'[r].pc = "woken" /\ Same(r)
      BY <1>2, <2>3 DEF Distill, TypeOK, Request, At, Same
    <3> QED BY <1>2, <3>1, OnWorks DEF At, Ahead, PCs
  <2> QED BY <2>1, <2>2, <2>3
<1> QED BY <1>1, <1>2, Typing, PTL DEF Spec, WorkDone

=============================================================================
