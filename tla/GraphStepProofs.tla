--------------------------- MODULE GraphStepProofs ---------------------------
(***************************************************************************)
(* What the steps of GovernedGraph do, taken together.                     *)
(*                                                                         *)
(* They implement StepLifecycle: nodes, crashes, resumes and replays are,  *)
(* for the rows of the journal, the steps of the lifecycle of one workflow *)
(* step, or invisible.  The stage of a key is read from its row and from   *)
(* the one call that works on it (OneHolder of GInv): most actions touch   *)
(* neither, four move the stage of the key their call works on.            *)
(*                                                                         *)
(* And where each start or resume is made after the one before it is over, *)
(* a thread's chain is only extended, a terminal thread stays so, and a    *)
(* handler is called only where the whole policy accepts it.  AInv adds to *)
(* GInv how far a call is ahead of the checkpoint of its thread.           *)
(***************************************************************************)
EXTENDS GraphEvidenceProofs

-----------------------------------------------------------------------------
(***************************************************************************)
(* The lifecycle of a step                                                 *)
(***************************************************************************)

Works(c, k) == InHandler(c) /\ KeyOfCall(c) = k

\* The callers that work on a key are those of the model's Workers.
LEMMA WorkersAre ==
  \A k \in Keys : Workers(k) = {s \in Sessions : Works(session[s], k)}
BY DEF Workers, Works, InHandler, KeyOfCall

\* A step that changes the stage of k alone is a move of the lifecycle.
LEMMA OneStageMoves ==
  ASSUME NEW k \in Keys, NEW from, NEW to, NEW o,
         StageOf(k).at \in from,
         StageOf(k)' = [at |-> to, outcome |-> o],
         \A j \in Keys : j # k => StageOf(j)' = StageOf(j)
  PROVE  Lifecycle!Move(k, from, to, o)
BY DEF Lifecycle!Move

\* A step that changes no stage is a stutter of the lifecycle.
LEMMA NoStageMoves ==
  ASSUME \A j \in Keys : StageOf(j)' = StageOf(j)
  PROVE  UNCHANGED [k \in Keys |-> StageOf(k)]
OBVIOUS

\* The stage of a key depends on its row and on the calls that work on it.
LEMMA StageKept ==
  ASSUME NEW j \in Keys,
         step_executions'[j] = step_executions[j],
         \A s \in Sessions : Works(session'[s], j) <=> Works(session[s], j),
         \A s \in Sessions : Works(session[s], j) => session'[s] = session[s]
  PROVE  StageOf(j)' = StageOf(j)
<1>1. Workers(j)' = Workers(j)
  <2>1. Workers(j)' = {s \in Sessions : Works(session'[s], j)}
    BY DEF Workers, Works, InHandler, KeyOfCall
  <2> QED BY <2>1, WorkersAre
<1>2. CASE Workers(j) = {}
  BY <1>1, <1>2 DEF StageOf
<1>3. CASE Workers(j) # {}
  <2>1. PICK s : s = CHOOSE w \in Workers(j) : TRUE
    OBVIOUS
  <2>2. s \in Workers(j) /\ s = CHOOSE w \in Workers(j)' : TRUE
    BY <1>1, <1>3, <2>1
  <2>3. session'[s] = session[s]
    BY <2>2, WorkersAre
  <2> QED BY <1>1, <2>1, <2>2, <2>3 DEF StageOf
<1> QED BY <1>2, <1>3

\* A call that works on a row does so alone, and the stage is where it stands.
LEMMA StageOfWorker ==
  ASSUME GInv, NEW s \in Sessions, InHandler(session[s])
  PROVE  LET k == KeyOfCall(session[s])
         IN  /\ k \in Keys
             /\ \A r \in Sessions : Works(session[r], k) => r = s
             /\ step_executions[k] # NoRow
             /\ step_executions[k].status = "STARTED"
             /\ session[s].pc = "handler" => StageOf(k) = [at |-> "claimed", outcome |-> NoRow]
             /\ session[s].pc = "seal" =>
                  StageOf(k) = [at |-> "ran", outcome |-> session[s].outcome]
<1>1. /\ session[s] \in Session
      /\ CallOk(authority_uses, step_executions, checkpoints, handled, session[s])
  BY DEF GInv
<1>2. PICK k \in Keys : k = KeyOfCall(session[s])
  BY <1>1, HandlerKey DEF KeyOfCall
<1>3. step_executions[k] # NoRow /\ step_executions[k].status = "STARTED"
  BY <1>1, <1>2 DEF CallOk, Holds, KeyOfCall
<1>4. \A r \in Sessions : Works(session[r], k) => r = s
  BY <1>2 DEF GInv, OneHolder, Works, KeyOfCall
<1>5. Workers(k) = {s}
  BY <1>2, <1>4, WorkersAre DEF Works
<1>6. (CHOOSE w \in Workers(k) : TRUE) = s
  BY <1>5
<1>7. StageOf(k) = IF session[s].pc = "seal"
                   THEN [at |-> "ran", outcome |-> session[s].outcome]
                   ELSE [at |-> "claimed", outcome |-> NoRow]
  BY <1>3, <1>5, <1>6 DEF StageOf
<1> QED BY <1>2, <1>3, <1>4, <1>7

-----------------------------------------------------------------------------
(***************************************************************************)
(* Steps that touch one call                                               *)
(***************************************************************************)

\* A step of a call that works on no row, before or after it.
LEMMA QuietStage ==
  ASSUME GInv, NEW s \in Sessions, NEW c,
         session' = [session EXCEPT ![s] = c],
         ~InHandler(session[s]),
         ~InHandler(c),
         UNCHANGED step_executions
  PROVE  UNCHANGED [k \in Keys |-> StageOf(k)]
<1>1. \A r \in Sessions : r # s => session'[r] = session[r]
  BY DEF GInv
<1>2. session'[s] = c
  BY DEF GInv
<1>3. ASSUME NEW j \in Keys PROVE StageOf(j)' = StageOf(j)
  <2>1. \A r \in Sessions : Works(session'[r], j) <=> Works(session[r], j)
    BY <1>1, <1>2 DEF Works
  <2>2. \A r \in Sessions : Works(session[r], j) => session'[r] = session[r]
    BY <1>1 DEF Works
  <2> QED BY <2>1, <2>2, StageKept
<1> QED BY <1>3, NoStageMoves

\* A step that leads a call that works on no row to another node than handler.
LEMMA GoToStage ==
  ASSUME GInv, NEW s \in Sessions, session[s].pc \notin {"idle", "resuming"},
         ~InHandler(session[s]),
         NEW w, NEW node, node \notin {"handler", "seal"},
         GoTo(s, w, node),
         UNCHANGED step_executions
  PROVE  UNCHANGED [k \in Keys |-> StageOf(k)]
<1>1. PICK c : c = [session[s] EXCEPT !.values = w, !.pc = node, !.interrupt = NoRow,
                                      !.responses = <<>>, !.response = <<>>]
  OBVIOUS
<1>2. session' = [session EXCEPT ![s] = c]
  BY <1>1 DEF GoTo, GInv
<1>3. c.pc = node
  BY <1>1, CallFacts DEF Call
<1> QED BY <1>2, <1>3, QuietStage DEF InHandler

\* A step that changes the stage of the key a call works on, or comes to work on.
LEMMA WorkerStage ==
  ASSUME GInv, NEW s \in Sessions, NEW c, NEW k \in Keys,
         session' = [session EXCEPT ![s] = c],
         InHandler(session[s]) => KeyOfCall(session[s]) = k,
         InHandler(c) => KeyOfCall(c) = k,
         \A j \in Keys : j # k => step_executions'[j] = step_executions[j]
  PROVE  \A j \in Keys : j # k => StageOf(j)' = StageOf(j)
<1>1. \A r \in Sessions : r # s => session'[r] = session[r]
  BY DEF GInv
<1>2. session'[s] = c
  BY DEF GInv
<1>3. ASSUME NEW j \in Keys, j # k PROVE StageOf(j)' = StageOf(j)
  <2>1. \A r \in Sessions : Works(session'[r], j) <=> Works(session[r], j)
    BY <1>1, <1>2, <1>3 DEF Works
  <2>2. \A r \in Sessions : Works(session[r], j) => session'[r] = session[r]
    BY <1>1, <1>3 DEF Works
  <2> QED BY <1>3, <2>1, <2>2, StageKept
<1> QED BY <1>3

\* A call that ends while it works on a row loses it, before or after its
\* handler ran; any other end is invisible.
LEMMA LoseStage ==
  ASSUME GInv, NEW s \in Sessions,
         session' = [session EXCEPT ![s] = Idle],
         UNCHANGED step_executions
  PROVE  Lifecycle!Next \/ UNCHANGED [k \in Keys |-> StageOf(k)]
<1>1. ~InHandler(Idle)
  BY DEF InHandler, Idle
<1>2. CASE ~InHandler(session[s])
  BY <1>1, <1>2, QuietStage
<1>3. CASE InHandler(session[s])
  <2>1. PICK k \in Keys : k = KeyOfCall(session[s])
    BY <1>3, StageOfWorker
  <2>2. /\ \A r \in Sessions : Works(session[r], k) => r = s
        /\ step_executions[k] # NoRow
        /\ step_executions[k].status = "STARTED"
        /\ session[s].pc = "handler" => StageOf(k) = [at |-> "claimed", outcome |-> NoRow]
        /\ session[s].pc = "seal" => StageOf(k) = [at |-> "ran", outcome |-> session[s].outcome]
    BY <1>3, <2>1, StageOfWorker
  <2>7. StageOf(k).at \in {"claimed", "ran"}
    BY <1>3, <2>2 DEF InHandler
  <2>3. Workers(k)' = {}
    <3>1. \A r \in Sessions : ~Works(session'[r], k)
      BY <1>1, <2>2 DEF GInv, Works
    <3> QED BY <3>1 DEF Workers, Works, InHandler, KeyOfCall
  <2>4. StageOf(k)' = [at |-> "in_doubt", outcome |-> NoRow]
    BY <2>2, <2>3 DEF StageOf
  <2>5. \A j \in Keys : j # k => StageOf(j)' = StageOf(j)
    BY <1>1, <2>1, WorkerStage
  <2>6. Lifecycle!Lose(k)
    BY <2>7, <2>4, <2>5, OneStageMoves DEF Lifecycle!Lose
  <2> QED BY <2>6 DEF Lifecycle!Next
<1> QED BY <1>2, <1>3

-----------------------------------------------------------------------------
(***************************************************************************)
(* One lemma per action that can be seen, and one for the others           *)
(***************************************************************************)

\* Every step starts with no row: unclaimed.
LEMMA InitLifecycle == Init => Lifecycle!Init
<1> SUFFICES ASSUME Init PROVE Lifecycle!Init
  OBVIOUS
<1>1. \A k \in Keys : StageOf(k) = [at |-> "unclaimed", outcome |-> NoRow]
  BY DEF Init, StageOf
<1> QED BY <1>1 DEF Lifecycle!Init

\* start and resume begin with a call outside of execute.
LEMMA BeginStage ==
  ASSUME GInv, NEW s \in Sessions,
         \/ \E t \in Threads, w \in Workflows, g \in Grants, l \in InitialLedgers,
              r \in Registries : Start(s, t, w, g, l, r)
         \/ \E t \in Threads, x \in Reviews, r \in Registries : Resume(s, t, x, r)
  PROVE  UNCHANGED [k \in Keys |-> StageOf(k)]
<1>1. session[s] = Idle /\ UNCHANGED step_executions
  BY DEF Start, Resume, durable
<1>2. ASSUME NEW c, session' = [session EXCEPT ![s] = c], c.pc \in {"authorize", "resuming"}
      PROVE  UNCHANGED [k \in Keys |-> StageOf(k)]
  <2>1. ~InHandler(session[s]) /\ ~InHandler(c)
    BY <1>1, <1>2 DEF InHandler, Idle
  <2> QED BY <1>1, <1>2, <2>1, QuietStage
<1>3. ASSUME NEW t, NEW w, NEW g, NEW l, NEW r, Start(s, t, w, g, l, r)
      PROVE  UNCHANGED [k \in Keys |-> StageOf(k)]
  <2>1. PICK c : c = [pc        |-> "authorize",
                      thread    |-> t,
                      values    |-> InitialState(w, g, l),
                      interrupt |-> NoRow,
                      responses |-> <<>>,
                      response  |-> <<>>,
                      outcome   |-> NoRow,
                      registry  |-> r]
    OBVIOUS
  <2> QED BY <1>2, <1>3, <2>1 DEF Start
<1>4. ASSUME NEW t, NEW x, NEW r, Resume(s, t, x, r)
      PROVE  UNCHANGED [k \in Keys |-> StageOf(k)]
  <2>1. PICK given : given = <<[workflow_id |-> checkpoints[t].interrupt.workflow_id,
                                step_id     |-> checkpoints[t].interrupt.step_id,
                                approved    |-> x.approved,
                                kinds       |-> x.kinds,
                                at          |-> now]>>
    OBVIOUS
  <2>2. PICK c : c = [pc |-> "resuming", thread |-> t, response |-> given, registry |-> r]
    OBVIOUS
  <2> QED BY <1>2, <1>4, <2>1, <2>2 DEF Resume
<1> QED BY <1>3, <1>4

\* A checkpoint that is entered between gate and execute is at the claim.
LEMMA EnterStage ==
  ASSUME GInv, NEW s \in Sessions, Enter(s)
  PROVE  UNCHANGED [k \in Keys |-> StageOf(k)]
<1>1. session[s].pc = "resuming"
  BY DEF Enter, AtNode
<1>2. PICK t \in Threads, p \in Checkpoint : t = session[s].thread /\ p = checkpoints[t]
  <2>1. session[s] \in Resuming
    BY <1>1 DEF GInv, Session, Idle, Call
  <2>2. session[s].thread \in Threads /\ checkpoints[session[s].thread] # NoRow
    BY <1>1, <2>1 DEF GInv, CallOk, Resuming
  <2> QED BY <2>2 DEF GInv, Points
<1>3. PICK c : c = IF p.next = "end" THEN Idle
                   ELSE [pc        |-> IF p.next = "execute" THEN "claim" ELSE p.next,
                         thread    |-> t,
                         values    |-> p.values,
                         interrupt |-> p.interrupt,
                         responses |-> p.responses,
                         response  |-> session[s].response,
                         outcome   |-> NoRow,
                         registry  |-> session[s].registry]
  OBVIOUS
<1>4. session' = [session EXCEPT ![s] = c]
  BY <1>2, <1>3 DEF Enter
<1>5. ~InHandler(c)
  BY <1>3 DEF InHandler, Idle, Checkpoint
<1>6. UNCHANGED step_executions
  BY DEF Enter, durable
<1> QED BY <1>1, <1>4, <1>5, <1>6, QuietStage DEF InHandler

\* Ending a call outside of execute.
LEMMA QuietEnd ==
  ASSUME GInv, NEW s \in Sessions, ~InHandler(session[s]),
         session' = [session EXCEPT ![s] = Idle], UNCHANGED step_executions
  PROVE  UNCHANGED [k \in Keys |-> StageOf(k)]
BY QuietStage DEF InHandler, Idle

\* authorize, gate, finalize and the return work on no row.
LEMMA NodeStage ==
  ASSUME GInv, NEW s \in Sessions,
         AuthorizeNode(s) \/ GateRecheck(s) \/ GateStep(s) \/ FinalizeNode(s) \/ Return(s)
  PROVE  UNCHANGED [k \in Keys |-> StageOf(k)]
<1>1. /\ session[s].pc \notin {"idle", "resuming"}
      /\ ~InHandler(session[s])
  BY DEF AuthorizeNode, GateRecheck, GateStep, FinalizeNode, Return, Returns, AtNode, InHandler
<1>2. UNCHANGED step_executions
  BY DEF AuthorizeNode, GateRecheck, GateStep, FinalizeNode, Return, durable
<1>3. ASSUME NEW w, NEW node \in {"gate", "claim", "end"}, GoTo(s, w, node)
      PROVE  UNCHANGED [k \in Keys |-> StageOf(k)]
  <2>1. node \notin {"handler", "seal"}
    OBVIOUS
  <2> QED BY <1>1, <1>2, <1>3, <2>1, GoToStage
<1>4. ASSUME session' = [session EXCEPT ![s] = Idle]
      PROVE  UNCHANGED [k \in Keys |-> StageOf(k)]
  BY <1>1, <1>2, <1>4, QuietEnd
<1>5. ASSUME NEW asked, NEW answered,
             session' = [session EXCEPT ![s].pc = "interrupted", ![s].interrupt = asked,
                                        ![s].responses = answered, ![s].response = <<>>]
      PROVE  UNCHANGED [k \in Keys |-> StageOf(k)]
  <2>1. PICK c : c = [session[s] EXCEPT !.pc = "interrupted", !.interrupt = asked,
                                        !.responses = answered, !.response = <<>>]
    OBVIOUS
  <2>2. session' = [session EXCEPT ![s] = c]
    BY <1>5, <2>1 DEF GInv
  <2>3. c.pc = "interrupted"
    BY <1>1, <2>1, CallFacts DEF Call
  <2> QED BY <1>1, <1>2, <2>2, <2>3, QuietStage DEF InHandler
<1>6. \/ \E w, node : GoTo(s, w, node) /\ node \in {"gate", "claim", "end"}
      \/ session' = [session EXCEPT ![s] = Idle]
      \/ \E asked, answered :
           session' = [session EXCEPT ![s].pc = "interrupted", ![s].interrupt = asked,
                                      ![s].responses = answered, ![s].response = <<>>]
  <2>1. CASE AuthorizeNode(s)
    BY <2>1 DEF AuthorizeNode, Raise
  <2>2. CASE GateRecheck(s)
    BY <2>2 DEF GateRecheck, Raise
  <2>3. CASE GateStep(s)
    BY <2>3 DEF GateStep
  <2>4. CASE FinalizeNode(s)
    BY <2>4 DEF FinalizeNode
  <2>5. CASE Return(s)
    BY <2>5 DEF Return
  <2> QED BY <2>1, <2>2, <2>3, <2>4, <2>5
<1> QED BY <1>3, <1>4, <1>5, <1>6

\* A claim on a free row is the lifecycle's Claim, any other answer is invisible.
LEMMA ClaimStage ==
  ASSUME GInv, NEW s \in Sessions, ClaimNode(s)
  PROVE  Lifecycle!Next \/ UNCHANGED [k \in Keys |-> StageOf(k)]
<1>1. session[s].pc = "claim" /\ ~InHandler(session[s])
  BY DEF ClaimNode, AtNode, InHandler
<1>2. PICK k \in Keys, d \in Digest :
        /\ k = KeyOf(session[s].thread, session[s].values)
        /\ d = request_digest(session[s].thread, session[s].values)
  <2>1. /\ session[s].values \in GraphState
        /\ session[s].thread \in Threads
        /\ session[s].values.current_step < Len(session[s].values.workflow.steps)
    BY <1>1, CallFacts DEF Sound, Placed, NodeOf
  <2> QED BY <2>1, KeyIn
<1>3. CASE /\ StepNew(step_executions, k)
           /\ step_executions' = StepTable(step_executions, k, d)
           /\ session' = [session EXCEPT ![s].pc = "handler"]
  <2>1. PICK c : c = [session[s] EXCEPT !.pc = "handler"]
    OBVIOUS
  <2>2. session' = [session EXCEPT ![s] = c]
    BY <1>3, <2>1 DEF GInv
  <2>3. c.pc = "handler" /\ KeyOfCall(c) = k
    BY <1>1, <1>2, <2>1, CallFacts DEF Call, KeyOfCall
  <2>4. /\ step_executions[k] = NoRow
        /\ \A j \in Keys : j # k => step_executions'[j] = step_executions[j]
        /\ step_executions'[k] # NoRow
        /\ step_executions'[k].status = "STARTED"
    BY <1>3, StepTableFacts DEF GInv, StepNew
  <2>5. \A r \in Sessions : ~Works(session[r], k)
    BY <2>4, StageOfWorker DEF Works
  <2>6. Workers(k)' = {s}
    <3>1. \A r \in Sessions : Works(session'[r], k) <=> r = s
      BY <2>2, <2>3, <2>5 DEF GInv, Works, InHandler
    <3> QED BY <3>1 DEF Workers, Works, InHandler, KeyOfCall
  <2>7. StageOf(k)' = [at |-> "claimed", outcome |-> NoRow]
    <3>1. (CHOOSE w \in Workers(k)' : TRUE) = s
      BY <2>6
    <3>2. session'[s].pc = "handler"
      BY <2>2, <2>3 DEF GInv
    <3> QED BY <2>4, <2>6, <3>1, <3>2 DEF StageOf
  <2>8. StageOf(k).at = "unclaimed"
    BY <2>4 DEF StageOf
  <2>9. \A j \in Keys : j # k => StageOf(j)' = StageOf(j)
    BY <1>1, <2>2, <2>3, <2>4, WorkerStage
  <2>10. Lifecycle!Claim(k)
    BY <2>7, <2>8, <2>9, OneStageMoves DEF Lifecycle!Claim
  <2> QED BY <2>10 DEF Lifecycle!Next
<1>4. CASE /\ \E w, node : GoTo(s, w, node) /\ node \in {"gate", "finalize", "end"}
           /\ UNCHANGED step_executions
  <2>1. PICK w, node : GoTo(s, w, node) /\ node \in {"gate", "finalize", "end"}
    BY <1>4
  <2>2. node \notin {"handler", "seal"}
    BY <2>1
  <2> QED BY <1>1, <1>4, <2>1, <2>2, GoToStage
<1>5. CASE session' = [session EXCEPT ![s] = Idle] /\ UNCHANGED step_executions
  BY <1>1, <1>5, QuietEnd
<1>6. \A w : AfterStep(w) \in {"gate", "finalize", "end"}
  BY DEF AfterStep
<1> QED BY <1>2, <1>3, <1>4, <1>5, <1>6 DEF ClaimNode, Raise

\* The handler call is the lifecycle's Run; one whose outcome cannot be stored
\* leaves its row in doubt.
LEMMA HandlerStage ==
  ASSUME GInv, NEW s \in Sessions, NEW o \in Outcomes, HandlerNode(s, o)
  PROVE  Lifecycle!Next \/ UNCHANGED [k \in Keys |-> StageOf(k)]
<1>1. session[s].pc = "handler" /\ InHandler(session[s])
  BY DEF HandlerNode, AtNode, InHandler
<1>2. UNCHANGED step_executions
  BY DEF HandlerNode
<1>3. CASE session' = [session EXCEPT ![s].pc = "seal", ![s].outcome = o]
  <2>1. PICK k \in Keys : k = KeyOfCall(session[s])
    BY <1>1, StageOfWorker
  <2>2. /\ \A r \in Sessions : Works(session[r], k) => r = s
        /\ step_executions[k] # NoRow
        /\ step_executions[k].status = "STARTED"
        /\ StageOf(k) = [at |-> "claimed", outcome |-> NoRow]
    BY <1>1, <2>1, StageOfWorker
  <2>3. PICK c : c = [session[s] EXCEPT !.pc = "seal", !.outcome = o]
    OBVIOUS
  <2>4. session' = [session EXCEPT ![s] = c]
    BY <1>3, <2>3 DEF GInv
  <2>5. c.pc = "seal" /\ c.outcome = o /\ KeyOfCall(c) = k
    BY <1>1, <2>1, <2>3, CallFacts DEF Call, KeyOfCall
  <2>6. Workers(k)' = {s}
    <3>1. \A r \in Sessions : Works(session'[r], k) <=> r = s
      BY <2>2, <2>4, <2>5 DEF GInv, Works, InHandler
    <3> QED BY <3>1 DEF Workers, Works, InHandler, KeyOfCall
  <2>7. StageOf(k)' = [at |-> "ran", outcome |-> o]
    <3>1. (CHOOSE w \in Workers(k)' : TRUE) = s
      BY <2>6
    <3>2. session'[s].pc = "seal" /\ session'[s].outcome = o
      BY <2>4, <2>5 DEF GInv
    <3> QED BY <1>2, <2>2, <2>6, <3>1, <3>2 DEF StageOf
  <2>8. \A j \in Keys : j # k => StageOf(j)' = StageOf(j)
    BY <1>2, <2>1, <2>4, <2>5, WorkerStage
  <2>9. Lifecycle!Run(k, o)
    BY <2>2, <2>7, <2>8, OneStageMoves DEF Lifecycle!Run
  <2> QED BY <2>9 DEF Lifecycle!Next
<1>4. CASE Raise(s)
  BY <1>2, <1>4, LoseStage DEF Raise
<1> QED BY <1>3, <1>4 DEF HandlerNode

\* finish_step is the lifecycle's Seal: the row keeps what the handler returned.
LEMMA SealStage ==
  ASSUME GInv, NEW s \in Sessions, SealNode(s)
  PROVE  Lifecycle!Next
<1>1. session[s].pc = "seal" /\ InHandler(session[s])
  BY DEF SealNode, AtNode, InHandler
<1>2. PICK k \in Keys, d \in Digest :
        /\ k = KeyOfCall(session[s])
        /\ k = KeyOf(session[s].thread, session[s].values)
        /\ d = request_digest(session[s].thread, session[s].values)
        /\ StepInDoubt(step_executions, k, d)
  BY <1>1, HandlerKey DEF GInv, KeyOfCall
<1>3. PICK o \in Outcomes : o = session[s].outcome
  BY <1>1 DEF GInv, CallOk, Holds
<1>4. PICK failed \in BOOLEAN : failed = (o.decision = "FAIL")
  OBVIOUS
<1>5. /\ \A j \in Keys : j # k => step_executions'[j] = step_executions[j]
      /\ step_executions'[k] # NoRow
      /\ step_executions'[k].status # "STARTED"
      /\ step_executions'[k].outcome = o
  <2>1. step_executions' = FinishTable(step_executions, k, d, o, failed)
    BY <1>2, <1>3, <1>4 DEF SealNode
  <2> QED BY <1>2, <2>1, FinishTableFacts DEF GInv
<1>6. PICK w : w = Completed(session[s].values, o, FALSE)
  OBVIOUS
<1>7. GoTo(s, w, AfterStep(w))
  <2>1. ~FinishRaises(step_executions, k, d, o, failed)
    BY <1>2 DEF FinishRaises, StepInDoubt, StepNew, StepMismatch, StepTerminal
  <2> QED BY <1>2, <1>3, <1>4, <1>6, <2>1 DEF SealNode
<1>8. PICK c : c = [session[s] EXCEPT !.values = w, !.pc = AfterStep(w), !.interrupt = NoRow,
                                      !.responses = <<>>, !.response = <<>>]
  OBVIOUS
<1>9. session' = [session EXCEPT ![s] = c]
  BY <1>7, <1>8 DEF GoTo, GInv
<1>10. ~InHandler(c)
  <2>1. c.pc = AfterStep(w)
    BY <1>1, <1>8, CallFacts DEF Call
  <2> QED BY <2>1 DEF InHandler, AfterStep
<1>11. StageOf(k) = [at |-> "ran", outcome |-> o]
  BY <1>1, <1>2, <1>3, StageOfWorker
<1>12. StageOf(k)' = [at |-> "sealed", outcome |-> o]
  BY <1>5 DEF StageOf
<1>13. \A j \in Keys : j # k => StageOf(j)' = StageOf(j)
  BY <1>2, <1>5, <1>9, <1>10, WorkerStage
<1>14. Lifecycle!Move(k, {"ran"}, "sealed", o)
  BY <1>11, <1>12, <1>13, OneStageMoves
<1>15. Lifecycle!Seal(k)
  BY <1>11, <1>14 DEF Lifecycle!Seal
<1> QED BY <1>15 DEF Lifecycle!Next

-----------------------------------------------------------------------------

\* Every step of the adapter is a step of the lifecycle or none at all.
LEMMA NextLifecycle ==
  ASSUME GInv, [Next]_vars
  PROVE  [Lifecycle!Next]_[k \in Keys |-> StageOf(k)]
<1>1. ASSUME UNCHANGED <<step_executions, session>>
      PROVE  UNCHANGED [k \in Keys |-> StageOf(k)]
  BY <1>1, NoStageMoves DEF StageOf, Workers
<1>2. ASSUME NEW s \in Sessions, Work(s)
      PROVE  Lifecycle!Next \/ UNCHANGED [k \in Keys |-> StageOf(k)]
  BY <1>2, EnterStage, NodeStage, ClaimStage, HandlerStage, SealStage DEF Work
<1>3. ASSUME NEW s \in Sessions, Crash(s)
      PROVE  Lifecycle!Next \/ UNCHANGED [k \in Keys |-> StageOf(k)]
  BY <1>3, LoseStage DEF Crash, durable
<1>4. CASE Calm
  <2>1. CASE Tick
    BY <1>1, <2>1 DEF Tick, durable
  <2>2. ASSUME NEW s \in Sessions, Persist(s)
        PROVE  UNCHANGED [k \in Keys |-> StageOf(k)]
    BY <1>1, <2>2 DEF Persist
  <2> QED BY <1>2, <1>4, <2>1, <2>2, BeginStage DEF Calm
<1>5. CASE UNCHANGED vars
  BY <1>1, <1>5 DEF vars
<1> QED BY <1>3, <1>4, <1>5 DEF Next

\* Whatever calls race, crash, resume and replay, each step is claimed once,
\* runs once and ends sealed with its handler's outcome or in doubt: the
\* adapter implements the lifecycle.
THEOREM GraphImplementsLifecycle == Spec => ImplementsLifecycle
BY InitLifecycle, NextLifecycle, SpecGInv, PTL
   DEF Spec, ImplementsLifecycle, Lifecycle!Spec

-----------------------------------------------------------------------------
(***************************************************************************)
(* One session at a time                                                   *)
(*                                                                         *)
(* Calls that race on a thread may store an old state over a newer one.    *)
(* When each start or resume is made after the one before it returned,     *)
(* raised or crashed, the call in progress is at or past the checkpoint of *)
(* its thread, and nobody comes in between.                                *)
(***************************************************************************)

OneSession == \A r, s \in Sessions : r = s

\* The registry has the step's agent, and the policy accepts it.
Admits(registry, v) ==
  /\ current(v).agent_id \in DOMAIN registry
  /\ StepReasons(current(v), registry[current(v).agent_id], v.authority, v.evidence) = {}

\* A call in progress is on a thread that is not over; it resumes an interrupted
\* checkpoint, its chain extends the stored one, and past the gate its own
\* registry has been asked.
Ahead(points, over, c) ==
  /\ c.pc # "idle" => c.thread \notin over
  /\ c.pc = "resuming" => points[c.thread].interrupt # NoRow
  /\ c.pc \notin {"idle", "resuming"} /\ points[c.thread] # NoRow =>
       Extends(points[c.thread].values.evidence, c.values.evidence)
  /\ c.pc \in {"claim", "handler"} => Admits(c.registry, c.values)

AInv ==
  /\ \A s \in Sessions : Ahead(checkpoints, closed, session[s])
  /\ \A t \in closed : checkpoints[t] # NoRow /\ checkpoints[t].next = "end"
  /\ CallsSatisfyPolicy

\* A step of the only session: the checkpoints of other threads stay, and a
\* thread that is closed is over.
LEMMA OnlyStep ==
  ASSUME OneSession, GInv, AInv, NEW s \in Sessions, NEW c,
         session' = [session EXCEPT ![s] = c],
         \A t \in Threads : \/ checkpoints'[t] = checkpoints[t]
                            \/ session[s].pc # "idle" /\ session[s].thread = t,
         \A t \in closed' : t \in closed \/ (checkpoints'[t] # NoRow /\ checkpoints'[t].next = "end"),
         Ahead(checkpoints', closed', c),
         CallsSatisfyPolicy'
  PROVE  AInv'
<1>1. \A r \in Sessions : session'[r] = c
  BY DEF OneSession, GInv
<1>2. ASSUME NEW t \in closed PROVE checkpoints'[t] = checkpoints[t]
  BY DEF AInv, Ahead, GInv
<1> QED BY <1>1, <1>2 DEF AInv

\* The checkpoint of a thread holds the chain it held, if it held one.
SameStored(points, points2, t) ==
  points2[t] # NoRow => /\ points[t] # NoRow
                        /\ points2[t].values = points[t].values
                        /\ points2[t].next = points[t].next

\* A response that is kept changes no chain.
LEMMA KeptStored ==
  ASSUME GInv, NEW s \in Sessions, session[s].pc \notin {"idle", "resuming"},
         UNCHANGED checkpoints \/ MayKeepResponse(s)
  PROVE  /\ SameStored(checkpoints, checkpoints', session[s].thread)
         /\ \A t \in Threads : t # session[s].thread => checkpoints'[t] = checkpoints[t]
<1>1. CASE UNCHANGED checkpoints
  BY <1>1 DEF SameStored
<1>2. CASE checkpoints[session[s].thread] = Image(s) /\ checkpoints' = Kept(s)
  <2>1. PICK t \in Threads, p \in Checkpoint : t = session[s].thread /\ p = Image(s)
    BY CallFacts
  <2>2. PICK q : q = [p EXCEPT !.responses = @ \o session[s].response]
    OBVIOUS
  <2>3. q.values = p.values /\ q.next = p.next /\ p # NoRow
    BY <2>2, NoRowIsNone DEF Checkpoint
  <2>4. checkpoints' = [checkpoints EXCEPT ![t] = q]
    BY <1>2, <2>1, <2>2 DEF Kept, GInv, Points
  <2> QED BY <1>2, <2>1, <2>3, <2>4 DEF SameStored, GInv, Points
<1> QED BY <1>1, <1>2 DEF MayKeepResponse

\* A step that ends a call and stores nothing new, or what the call had.
LEMMA IdleAlone ==
  ASSUME OneSession, GInv, AInv, NEW s \in Sessions,
         session' = [session EXCEPT ![s] = Idle],
         closed' = closed,
         handled' = handled,
         \/ UNCHANGED checkpoints
         \/ /\ session[s].pc \notin {"idle", "resuming"}
            /\ checkpoints' = Stored(s) \/ MayKeepResponse(s)
  PROVE  AInv'
<1>1. Ahead(checkpoints', closed', Idle)
  BY DEF Ahead, Idle
<1>2. \A t \in Threads : \/ checkpoints'[t] = checkpoints[t]
                         \/ session[s].pc # "idle" /\ session[s].thread = t
  BY KeptStored DEF Stored, GInv, Points
<1>3. CallsSatisfyPolicy'
  BY DEF AInv, CallsSatisfyPolicy
<1> QED BY <1>1, <1>2, <1>3, OnlyStep

\* A step that leads the call to the next node with a chain that is longer.
LEMMA GoToAlone ==
  ASSUME OneSession, GInv, GInv', AInv, NEW s \in Sessions,
         session[s].pc \notin {"idle", "resuming"},
         NEW w, NEW node \in {"gate", "claim", "finalize", "end"},
         GoTo(s, w, node),
         UNCHANGED checkpoints \/ MayKeepResponse(s),
         closed' = closed,
         handled' = handled,
         w \in GraphState => Extends(session[s].values.evidence, w.evidence),
         node = "claim" => Admits(session[s].registry, w)
  PROVE  AInv'
<1>1. PICK c : c = [session[s] EXCEPT !.values = w, !.pc = node, !.interrupt = NoRow,
                                      !.responses = <<>>, !.response = <<>>]
  OBVIOUS
<1>2. session' = [session EXCEPT ![s] = c] /\ session'[s] = c
  BY <1>1 DEF GoTo, GInv
<1>3. /\ c.pc = node /\ c.values = w /\ c.thread = session[s].thread
      /\ c.registry = session[s].registry
  BY <1>1, CallFacts DEF Call
<1>4. w \in GraphState
  <2>1. c \in Session
    BY <1>2 DEF GInv
  <2> QED BY <1>3, <2>1 DEF Session, Idle, Resuming, Call
<1>5. PICK t \in Threads, v \in GraphState : t = session[s].thread /\ v = session[s].values
  BY CallFacts
<1>6. /\ SameStored(checkpoints, checkpoints', t)
      /\ \A u \in Threads : u # t => checkpoints'[u] = checkpoints[u]
  BY <1>5, KeptStored
<1>7. checkpoints'[t] # NoRow => Extends(checkpoints'[t].values.evidence, w.evidence)
  <2> SUFFICES ASSUME checkpoints'[t] # NoRow
               PROVE  Extends(checkpoints'[t].values.evidence, w.evidence)
    OBVIOUS
  <2>1. checkpoints[t] # NoRow /\ checkpoints'[t].values = checkpoints[t].values
    BY <1>6 DEF SameStored
  <2>2. PICK u \in GraphState : u = checkpoints[t].values
    BY <2>1 DEF GInv, Points, Checkpoint
  <2>3. Extends(u.evidence, v.evidence)
    BY <1>5, <2>1, <2>2 DEF AInv, Ahead
  <2>4. Extends(v.evidence, w.evidence)
    BY <1>4, <1>5
  <2>5. /\ u.evidence \in Seq(EvidenceRecord)
        /\ v.evidence \in Seq(EvidenceRecord)
        /\ w.evidence \in Seq(EvidenceRecord)
    BY <1>4 DEF GraphState
  <2>6. Extends(u.evidence, w.evidence)
    BY <2>3, <2>4, <2>5, ExtendsTwice
  <2> QED BY <2>1, <2>2, <2>6
<1>8. t \notin closed
  BY <1>5 DEF AInv, Ahead
<1>9. Ahead(checkpoints', closed', c)
  BY <1>3, <1>5, <1>7, <1>8 DEF Ahead
<1>10. CallsSatisfyPolicy'
  BY DEF AInv, CallsSatisfyPolicy
<1> QED BY <1>2, <1>5, <1>6, <1>9, <1>10, OnlyStep

\* start: on a thread of its own, which has no checkpoint.
LEMMA StartAlone ==
  ASSUME OneSession, GInv, AInv,
         NEW s \in Sessions, NEW t \in Threads, NEW w \in Workflows, NEW g \in Grants,
         NEW l \in InitialLedgers, NEW r \in Registries, Start(s, t, w, g, l, r)
  PROVE  AInv'
<1>1. PICK c : /\ c.pc = "authorize" /\ c.thread = t
               /\ session' = [session EXCEPT ![s] = c]
  BY DEF Start
<1>2. checkpoints[t] = NoRow /\ t \notin closed
  BY DEF Start, Fresh, AInv
<1>3. UNCHANGED <<checkpoints, closed, handled>>
  BY DEF Start, durable, history
<1>4. Ahead(checkpoints', closed', c)
  BY <1>1, <1>2, <1>3 DEF Ahead
<1>5. CallsSatisfyPolicy'
  BY <1>3 DEF AInv, CallsSatisfyPolicy
<1> QED BY <1>1, <1>3, <1>4, <1>5, OnlyStep

\* resume: of an interrupted checkpoint, which is not over.
LEMMA ResumeAlone ==
  ASSUME OneSession, GInv, AInv,
         NEW s \in Sessions, NEW t \in Threads, NEW x \in Reviews, NEW r \in Registries,
         Resume(s, t, x, r)
  PROVE  AInv'
<1>1. PICK c : /\ c.pc = "resuming" /\ c.thread = t
               /\ session' = [session EXCEPT ![s] = c]
  BY DEF Resume
<1>2. checkpoints[t].interrupt # NoRow /\ checkpoints[t].next # "end"
  BY DEF Resume, GInv, CheckpointOk
<1>3. t \notin closed
  BY <1>2 DEF AInv
<1>4. UNCHANGED <<checkpoints, closed, handled>>
  BY DEF Resume, durable
<1>5. Ahead(checkpoints', closed', c)
  BY <1>1, <1>2, <1>3, <1>4 DEF Ahead
<1>6. CallsSatisfyPolicy'
  BY <1>4 DEF AInv, CallsSatisfyPolicy
<1> QED BY <1>1, <1>4, <1>5, <1>6, OnlyStep

\* The checkpoint that is entered is the one that was resumed, at its gate.
LEMMA EnterAlone ==
  ASSUME OneSession, GInv, AInv, NEW s \in Sessions, Enter(s)
  PROVE  AInv'
<1>1. PICK d \in Resuming : d = session[s]
  BY DEF Enter, AtNode, GInv, Session, Idle, Call
<1>2. checkpoints[d.thread] # NoRow /\ d.thread \in Threads /\ d.pc = "resuming"
  BY <1>1 DEF GInv, CallOk, Enter, AtNode, Resuming
<1>3. PICK p \in Checkpoint : p = checkpoints[d.thread]
  BY <1>2 DEF GInv, Points
<1>4. p.interrupt # NoRow /\ d.thread \notin closed
  BY <1>1, <1>2, <1>3 DEF AInv, Ahead
<1>5. p.next = "gate"
  BY <1>2, <1>3, <1>4 DEF GInv, CheckpointOk
<1>c. PICK c : c = [pc        |-> p.next,
                    thread    |-> d.thread,
                    values    |-> p.values,
                    interrupt |-> p.interrupt,
                    responses |-> p.responses,
                    response  |-> d.response,
                    outcome   |-> NoRow,
                    registry  |-> d.registry]
  OBVIOUS
<1>6. /\ c.pc = "gate" /\ c.thread = d.thread /\ c.values = p.values
      /\ session' = [session EXCEPT ![s] = c]
  BY <1>1, <1>3, <1>5, <1>c DEF Enter
<1>7. UNCHANGED <<checkpoints, closed, handled>>
  BY DEF Enter, durable, history
<1>8. Extends(p.values.evidence, c.values.evidence)
  BY <1>6, SameChain DEF Checkpoint, GraphState
<1>9. Ahead(checkpoints', closed', c)
  BY <1>3, <1>4, <1>6, <1>7, <1>8 DEF Ahead
<1>10. CallsSatisfyPolicy'
  BY <1>7 DEF AInv, CallsSatisfyPolicy
<1> QED BY <1>6, <1>7, <1>9, <1>10, OnlyStep

\* A chain that ends in a record of the adapter's extends the one before it.
LEMMA NotedExtends ==
  ASSUME NEW a \in Seq(EvidenceRecord), NEW ledger \in Seq(EvidenceRecord),
         Extends(a, ledger), now \in 0..MaxTime,
         NEW kind \in Kinds, NEW step \in StepIds \cup {NoRow}
  PROVE  Extends(a, Append(ledger, AdapterRecord(kind, step)))
<1>1. PICK record \in EvidenceRecord : record = AdapterRecord(kind, step)
  BY RecordIn
<1>2. PICK b \in Seq(EvidenceRecord) : b = Append(ledger, record) /\ Extends(ledger, b)
  BY OneRecord
<1>3. Extends(a, b)
  BY <1>2, ExtendsTwice
<1> QED BY <1>1, <1>2, <1>3

\* A state that is blocked has a longer chain.
LEMMA BlockedExtends ==
  ASSUME now \in 0..MaxTime, NEW v \in GraphState, NEW ledger \in Seq(EvidenceRecord),
         NEW a \in Seq(EvidenceRecord), Extends(a, ledger),
         NEW step \in StepIds \cup {NoRow},
         NEW kind \in {"workflow.blocked", "step.blocked", "step.in_doubt"}
  PROVE  Extends(a, Blocked(v, ledger, step, kind).evidence)
<1>1. kind \in Kinds
  BY OwnKinds
<1>2. Blocked(v, ledger, step, kind).evidence = Append(ledger, AdapterRecord(kind, step))
  BY DEF Blocked, GraphState
<1> QED BY <1>1, <1>2, NotedExtends

\* The records of an outcome are records.
LEMMA OutcomeRecords ==
  ASSUME now \in 0..MaxTime, NEW v \in GraphState, NEW o \in Outcomes,
         NEW replay \in BOOLEAN, v.current_step < Len(v.workflow.steps)
  PROVE  /\ [i \in DOMAIN o.evidence |->
              Record(current(v).agent_id, o.evidence[i], now, NoRow, FALSE)]
              \in Seq(EvidenceRecord)
         /\ Record("langgraph-adapter", StepRecordKind(o.decision), now,
                   current(v).step_id, replay) \in EvidenceRecord
<1> DEFINE items == [i \in DOMAIN o.evidence |->
                      Record(current(v).agent_id, o.evidence[i], now, NoRow, FALSE)]
<1>1. /\ o.evidence \in Seq(Kinds) /\ o.decision \in Decisions
      /\ current(v) \in Steps /\ current(v).step_id \in StepIds
  BY CurrentStep, OutcomesAssumption
<1>2. Len(o.evidence) \in Nat /\ DOMAIN o.evidence = 1..Len(o.evidence)
  BY <1>1, LenProperties
<1>3. ASSUME NEW i \in 1..Len(o.evidence) PROVE items[i] \in EvidenceRecord
  <2>1. o.evidence[i] \in Kinds
    BY <1>1, ElementOfSeq
  <2> QED BY <2>1, <1>1, <1>2, RecordIn
<1>4. items \in [1..Len(o.evidence) -> EvidenceRecord]
  BY <1>2, <1>3
<1> HIDE DEF items
<1>5. items \in Seq(EvidenceRecord)
  BY <1>2, <1>4, SeqDef
<1>6. Record("langgraph-adapter", StepRecordKind(o.decision), now, current(v).step_id, replay)
        \in EvidenceRecord
  BY <1>1, RecordIn, OwnKinds
<1> QED BY <1>5, <1>6 DEF items

\* A step that ended has a longer chain.
LEMMA CompletedExtends ==
  ASSUME now \in 0..MaxTime, NEW v \in GraphState, NEW o \in Outcomes,
         NEW replay \in BOOLEAN, v.current_step < Len(v.workflow.steps)
  PROVE  Extends(v.evidence, Completed(v, o, replay).evidence)
<1> DEFINE items == [i \in DOMAIN o.evidence |->
                      Record(current(v).agent_id, o.evidence[i], now, NoRow, FALSE)]
           last  == Record("langgraph-adapter", StepRecordKind(o.decision), now,
                           current(v).step_id, replay)
<1>1. Completed(v, o, replay).evidence = Joined(v.evidence, Closed(items, last))
  BY DEF Completed, Reported, Joined, Closed, GraphState
<1>2. items \in Seq(EvidenceRecord) /\ last \in EvidenceRecord
  BY OutcomeRecords
<1> HIDE DEF items, last
<1>3. Reports(v.evidence, items, last, Joined(v.evidence, Closed(items, last)))
  BY <1>2, ReportedChain DEF GraphState
<1> QED BY <1>1, <1>3 DEF Reports

\* authorize.
LEMMA AuthorizeAlone ==
  ASSUME OneSession, GInv, GInv', AInv, NEW s \in Sessions, AuthorizeNode(s)
  PROVE  AInv'
<1>1. session[s].pc = "authorize"
  BY DEF AuthorizeNode, AtNode
<1>2. PICK v \in GraphState : v = session[s].values
  BY <1>1, CallFacts
<1>3. /\ now \in 0..MaxTime
      /\ closed' = closed /\ handled' = handled
      /\ v.evidence \in Seq(EvidenceRecord)
      /\ Extends(v.evidence, v.evidence)
  BY SameChain DEF AuthorizeNode, history, GInv, GraphState
<1>4. CASE GoTo(s, Blocked(v, v.evidence, NoRow, "workflow.blocked"), "end")
           /\ UNCHANGED checkpoints
  <2>1. PICK w : w = Blocked(v, v.evidence, NoRow, "workflow.blocked")
    OBVIOUS
  <2>2. Extends(v.evidence, w.evidence)
    BY <1>3, <2>1, BlockedExtends
  <2> QED BY <1>1, <1>2, <1>3, <1>4, <2>1, <2>2, GoToAlone
<1>5. CASE Raise(s)
  BY <1>1, <1>3, <1>5, IdleAlone DEF Raise
<1>6. CASE GoTo(s, Started(v), "gate") /\ UNCHANGED checkpoints
  <2>1. PICK w : w = Started(v)
    OBVIOUS
  <2>2. w.evidence = Append(v.evidence, AdapterRecord("workflow.started", NoRow))
    BY <2>1 DEF Started, GraphState
  <2>3. Extends(v.evidence, w.evidence)
    BY <1>3, <2>2, NotedExtends, OwnKinds
  <2> QED BY <1>1, <1>2, <1>3, <1>6, <2>1, <2>3, GoToAlone
<1> QED BY <1>2, <1>4, <1>5, <1>6 DEF AuthorizeNode

\* The gate, when the grant holds no longer.
LEMMA GateRecheckAlone ==
  ASSUME OneSession, GInv, GInv', AInv, NEW s \in Sessions, GateRecheck(s)
  PROVE  AInv'
<1>1. session[s].pc = "gate"
  BY DEF GateRecheck, AtNode
<1>2. PICK v \in GraphState : v = session[s].values
  BY <1>1, CallFacts
<1>3. /\ now \in 0..MaxTime
      /\ closed' = closed /\ handled' = handled
      /\ v.evidence \in Seq(EvidenceRecord)
      /\ Extends(v.evidence, v.evidence)
  BY SameChain DEF GateRecheck, history, GInv, GraphState
<1>4. CASE GoTo(s, Blocked(v, v.evidence, NoRow, "workflow.blocked"), "end")
           /\ UNCHANGED checkpoints
  <2>1. PICK w : w = Blocked(v, v.evidence, NoRow, "workflow.blocked")
    OBVIOUS
  <2>2. Extends(v.evidence, w.evidence)
    BY <1>3, <2>1, BlockedExtends
  <2> QED BY <1>1, <1>2, <1>3, <1>4, <2>1, <2>2, GoToAlone
<1>5. CASE Raise(s)
  BY <1>1, <1>3, <1>5, IdleAlone DEF Raise
<1> QED BY <1>2, <1>4, <1>5 DEF GateRecheck

\* finalize.
LEMMA FinalizeAlone ==
  ASSUME OneSession, GInv, GInv', AInv, NEW s \in Sessions, FinalizeNode(s)
  PROVE  AInv'
<1>1. session[s].pc = "finalize"
  BY DEF FinalizeNode, AtNode
<1>2. PICK v \in GraphState : v = session[s].values
  BY <1>1, CallFacts
<1>3. /\ now \in 0..MaxTime
      /\ UNCHANGED <<checkpoints, closed, handled>>
      /\ v.evidence \in Seq(EvidenceRecord)
      /\ Extends(v.evidence, v.evidence)
  BY SameChain DEF FinalizeNode, durable, history, GInv, GraphState
<1>4. PICK w : w = Finalized(v)
  OBVIOUS
<1>5. w.evidence = Append(v.evidence, AdapterRecord("workflow.completed", NoRow))
  BY <1>4 DEF Finalized, GraphState
<1>6. Extends(v.evidence, w.evidence)
  BY <1>3, <1>5, NotedExtends, OwnKinds
<1>7. GoTo(s, w, "end")
  BY <1>2, <1>4 DEF FinalizeNode
<1> QED BY <1>1, <1>2, <1>3, <1>6, <1>7, GoToAlone

\* The gate: it says ready only of a step the call's own registry has an agent
\* for and that the policy accepts.
LEMMA GateAlone ==
  ASSUME OneSession, GInv, GInv', EInv, AInv, NEW s \in Sessions, GateStep(s)
  PROVE  AInv'
<1>1. session[s].pc = "gate" /\ NodeOf(session[s].pc) = "gate"
  BY DEF GateStep, AtNode, NodeOf
<1>2. PICK v \in GraphState, t \in Threads, r \in Registries,
           a \in Seq(Response), b \in Seq(Response) :
        /\ v = session[s].values
        /\ t = session[s].thread
        /\ r = session[s].registry
        /\ a = session[s].responses
        /\ b = session[s].response
  BY <1>1, CallFacts DEF Call
<1>3. PICK answered \in Seq(Response) : answered = a \o b
  BY ConcatProperties
<1>4. /\ Given(reviewed, t, a)
      /\ Given(reviewed, t, b)
      /\ now \in 0..MaxTime
      /\ closed' = closed /\ handled' = handled
      /\ \A x \in reviewed : \E y \in Reviews : x[2].kinds = y.kinds
      /\ v.evidence \in Seq(EvidenceRecord)
      /\ Extends(v.evidence, v.evidence)
  BY <1>1, <1>2, CallTells, SameChain DEF GateStep, history, GInv, EInv, GraphState
<1>5. Given(reviewed, t, answered)
  BY <1>3, <1>4, GivenBoth
<1>6. /\ v.current_step < Len(v.workflow.steps)
      /\ current(v).step_id \in StepIds
  BY <1>1, <1>2, CallFacts, CurrentStep DEF Sound, Placed
<1> DEFINE agent == current(v).agent_id
<1>7. CASE /\ GoTo(s, Blocked(v, v.evidence, current(v).step_id, "step.blocked"), "end")
           /\ MayKeepResponse(s)
  <2>1. PICK w : w = Blocked(v, v.evidence, current(v).step_id, "step.blocked")
    OBVIOUS
  <2>2. Extends(v.evidence, w.evidence)
    BY <1>4, <1>6, <2>1, BlockedExtends
  <2> QED BY <1>1, <1>2, <1>4, <1>7, <2>1, <2>2, GoToAlone
<1>8. CASE agent \in DOMAIN r
  <2>1. PICK review : review = Review(v, r[agent], answered)
    OBVIOUS
  <2>2. PICK ledger \in Seq(EvidenceRecord) : ledger = review.ledger
    BY <2>1, ReviewType
  <2>3. /\ Extends(v.evidence, ledger)
        /\ review.verdict \in {"ready", "refused", "denied", "raised", "interrupt"}
        /\ review.verdict = "ready" =>
             StepReasons(current(v), r[agent], v.authority, ledger) = {}
    BY <1>4, <1>5, <1>6, <2>1, <2>2, ReviewHeard, ReviewType
  <2>4. PICK judged : judged = [v EXCEPT !.gated =
          [step_id |-> current(v).step_id, at |-> now, verdict |-> review.verdict]]
    OBVIOUS
  <2>5. judged \in GraphState
    BY <1>4, <1>6, <2>3, <2>4 DEF GraphState, Verdict
  <2>6. CASE /\ review.verdict = "ready"
             /\ GoTo(s, [judged EXCEPT !.evidence = ledger], "claim")
             /\ MayKeepResponse(s)
    <3>1. PICK w : w = [judged EXCEPT !.evidence = ledger]
      OBVIOUS
    <3>2. /\ w.evidence = ledger /\ w.authority = v.authority
          /\ w.workflow = v.workflow /\ w.current_step = v.current_step
      BY <2>4, <3>1 DEF GraphState
    <3>3. Admits(r, w)
      BY <1>8, <2>3, <2>6, <3>2 DEF Admits, current
    <3> QED BY <1>1, <1>2, <1>4, <2>3, <2>6, <3>1, <3>2, <3>3, GoToAlone
  <2>7. CASE /\ GoTo(s, Blocked(judged, ledger, current(v).step_id, "step.blocked"), "end")
             /\ MayKeepResponse(s)
    <3>1. PICK w : w = Blocked(judged, ledger, current(v).step_id, "step.blocked")
      OBVIOUS
    <3>2. Extends(v.evidence, w.evidence)
      BY <1>4, <1>6, <2>3, <2>5, <3>1, BlockedExtends
    <3> QED BY <1>1, <1>2, <1>4, <2>7, <3>1, <3>2, GoToAlone
  <2>8. CASE /\ session' = [session EXCEPT ![s] = Idle]
             /\ MayKeepResponse(s)
    BY <1>1, <1>4, <2>8, IdleAlone
  <2>9. CASE /\ session' = [session EXCEPT
                   ![s].pc = "interrupted",
                   ![s].interrupt = [workflow_id |-> v.workflow.workflow_id,
                                     step_id |-> current(v).step_id],
                   ![s].responses = answered,
                   ![s].response = <<>>]
              /\ UNCHANGED checkpoints
    <3>1. PICK c : c = [session[s] EXCEPT
                          !.pc = "interrupted",
                          !.interrupt = [workflow_id |-> v.workflow.workflow_id,
                                         step_id |-> current(v).step_id],
                          !.responses = answered,
                          !.response = <<>>]
      OBVIOUS
    <3>2. c.pc = "interrupted" /\ c.thread = t /\ c.values = v
      BY <1>1, <1>2, <3>1, CallFacts DEF Call
    <3>3. session' = [session EXCEPT ![s] = c]
      BY <2>9, <3>1 DEF GInv
    <3>4. Ahead(checkpoints', closed', c)
      BY <1>1, <1>2, <1>4, <2>9, <3>2 DEF Ahead, AInv
    <3>5. CallsSatisfyPolicy'
      BY <1>4 DEF AInv, CallsSatisfyPolicy
    <3> QED BY <1>4, <2>9, <3>3, <3>4, <3>5, OnlyStep
  <2> QED BY <1>2, <1>3, <1>7, <1>8, <2>1, <2>2, <2>4, <2>6, <2>7, <2>8, <2>9 DEF GateStep
<1> QED BY <1>2, <1>7, <1>8 DEF GateStep

\* execute, up to the journal's answer: a step is claimed for a registry that
\* was asked, and a replayed outcome makes the chain longer.
LEMMA ClaimNodeAlone ==
  ASSUME OneSession, GInv, GInv', AInv, NEW s \in Sessions, ClaimNode(s)
  PROVE  AInv'
<1>1. session[s].pc = "claim" /\ NodeOf(session[s].pc) = "execute"
  BY DEF ClaimNode, AtNode, NodeOf
<1>2. PICK v \in GraphState, t \in Threads :
        /\ v = session[s].values
        /\ t = session[s].thread
        /\ v.current_step < Len(v.workflow.steps)
  BY <1>1, CallFacts DEF Sound, Placed
<1>3. /\ now \in 0..MaxTime
      /\ closed' = closed /\ handled' = handled
      /\ v.evidence \in Seq(EvidenceRecord)
      /\ Extends(v.evidence, v.evidence)
      /\ current(v).step_id \in StepIds
  BY <1>2, SameChain, CurrentStep DEF ClaimNode, history, GInv, GraphState
<1>4. ASSUME NEW kind \in {"step.blocked", "step.in_doubt"},
             GoTo(s, Blocked(v, v.evidence, current(v).step_id, kind), "end"),
             UNCHANGED checkpoints
      PROVE  AInv'
  <2>1. PICK w : w = Blocked(v, v.evidence, current(v).step_id, kind)
    OBVIOUS
  <2>2. Extends(v.evidence, w.evidence)
    BY <1>3, <2>1, BlockedExtends
  <2> QED BY <1>1, <1>2, <1>3, <1>4, <2>1, <2>2, GoToAlone
<1>5. CASE Raise(s)
  BY <1>1, <1>3, <1>5, IdleAlone DEF Raise
<1>6. CASE session' = [session EXCEPT ![s].pc = "handler"] /\ UNCHANGED checkpoints
  <2>1. PICK c : c = [session[s] EXCEPT !.pc = "handler"]
    OBVIOUS
  <2>2. /\ c.pc = "handler" /\ c.thread = t /\ c.values = v
        /\ c.registry = session[s].registry
    BY <1>1, <1>2, <2>1, CallFacts DEF Call
  <2>3. session' = [session EXCEPT ![s] = c]
    BY <1>6, <2>1 DEF GInv
  <2>4. Ahead(checkpoints', closed', c)
    BY <1>1, <1>2, <1>3, <1>6, <2>2 DEF Ahead, AInv
  <2>5. CallsSatisfyPolicy'
    BY <1>3 DEF AInv, CallsSatisfyPolicy
  <2> QED BY <1>3, <1>6, <2>3, <2>4, <2>5, OnlyStep
<1>7. ASSUME NEW o, o = step_executions[KeyOf(t, v)].outcome,
             StepTerminal(step_executions, KeyOf(t, v), request_digest(t, v)),
             GoTo(s, Completed(v, o, TRUE), AfterStep(Completed(v, o, TRUE))),
             UNCHANGED checkpoints
      PROVE  AInv'
  <2>1. KeyOf(t, v) \in Keys
    BY <1>2, KeyIn
  <2>2. o \in Outcomes
    BY <1>7, <2>1 DEF GInv, RowOk, StepTerminal
  <2>3. PICK w : w = Completed(v, o, TRUE)
    OBVIOUS
  <2>4. Extends(v.evidence, w.evidence)
    BY <1>2, <1>3, <2>2, <2>3, CompletedExtends
  <2>5. PICK node \in {"gate", "finalize", "end"} : node = AfterStep(w)
    BY DEF AfterStep
  <2>6. node \in {"gate", "claim", "finalize", "end"} /\ node # "claim" /\ GoTo(s, w, node)
    BY <1>7, <2>3, <2>5
  <2> QED BY <1>1, <1>2, <1>3, <1>7, <2>4, <2>6, GoToAlone
<1> QED BY <1>2, <1>4, <1>5, <1>6, <1>7 DEF ClaimNode

\* execute, the call of the handler: its own registry was asked at its gate.
LEMMA HandlerAlone ==
  ASSUME OneSession, GInv, AInv, NEW s \in Sessions, NEW o \in Outcomes, HandlerNode(s, o)
  PROVE  AInv'
<1>1. session[s].pc = "handler" /\ NodeOf(session[s].pc) = "execute"
  BY DEF HandlerNode, AtNode, NodeOf
<1>2. PICK v \in GraphState, t \in Threads :
        /\ v = session[s].values
        /\ t = session[s].thread
        /\ Judged(v)
        /\ Admits(session[s].registry, v)
  BY <1>1, CallFacts DEF Sound, AInv, Ahead
<1>3. PICK h : h = [key        |-> KeyOf(t, v),
                    state      |-> v,
                    descriptor |-> session[s].registry[current(v).agent_id],
                    outcome    |-> o]
  OBVIOUS
<1>4. /\ InForce(h.state.authority, h.state.workflow, Subject, h.state.gated.at)
      /\ Entitled(current(h.state), h.descriptor, h.state.authority, h.state.evidence)
  <2>1. InForce(v.authority, v.workflow, Subject, v.gated.at)
    BY <1>2, JudgedInForce
  <2>2. StepReasons(current(v), h.descriptor, v.authority, v.evidence) = {}
    BY <1>2, <1>3 DEF Admits
  <2>3. Entitled(current(v), h.descriptor, v.authority, v.evidence)
    BY <2>2, AcceptedEntitled
  <2> QED BY <1>3, <2>1, <2>3
<1>5. handled' = Append(handled, h) /\ closed' = closed
  BY <1>2, <1>3 DEF HandlerNode
<1>6. \A i \in DOMAIN handled' : (i \in DOMAIN handled /\ handled'[i] = handled[i])
                                 \/ handled'[i] = h
  <2>1. DOMAIN handled = 1..Len(handled) /\ Len(handled) \in Nat
    BY LenProperties DEF GInv
  <2> QED BY <1>5, <2>1
<1>7. CallsSatisfyPolicy'
  <2> SUFFICES ASSUME NEW i \in DOMAIN handled'
               PROVE  LET w == handled'[i].state
                      IN  /\ InForce(w.authority, w.workflow, Subject, w.gated.at)
                          /\ Entitled(current(w), handled'[i].descriptor,
                                      w.authority, w.evidence)
    BY DEF CallsSatisfyPolicy
  <2>1. CASE i \in DOMAIN handled /\ handled'[i] = handled[i]
    BY <2>1 DEF AInv, CallsSatisfyPolicy
  <2>2. CASE handled'[i] = h
    BY <1>4, <2>2
  <2> QED BY <1>6, <2>1, <2>2
<1>8. CASE session' = [session EXCEPT ![s].pc = "seal", ![s].outcome = o] /\ UNCHANGED checkpoints
  <2>1. PICK c : c = [session[s] EXCEPT !.pc = "seal", !.outcome = o]
    OBVIOUS
  <2>2. c.pc = "seal" /\ c.thread = t /\ c.values = v
    BY <1>1, <1>2, <2>1, CallFacts DEF Call
  <2>3. session' = [session EXCEPT ![s] = c]
    BY <1>8, <2>1 DEF GInv
  <2>4. Ahead(checkpoints', closed', c)
    BY <1>1, <1>2, <1>5, <1>8, <2>2 DEF Ahead, AInv
  <2> QED BY <1>5, <1>7, <1>8, <2>3, <2>4, OnlyStep
<1>9. CASE Raise(s)
  <2>1. \A u \in Threads : \/ checkpoints'[u] = checkpoints[u]
                           \/ session[s].pc # "idle" /\ session[s].thread = u
    BY <1>1, <1>9 DEF Raise, Stored, GInv, Points
  <2>2. Ahead(checkpoints', closed', Idle)
    BY DEF Ahead, Idle
  <2>3. session' = [session EXCEPT ![s] = Idle]
    BY <1>9 DEF Raise
  <2> QED BY <1>5, <1>7, <2>1, <2>2, <2>3, OnlyStep
<1> QED BY <1>8, <1>9 DEF HandlerNode

\* execute, the seal and what follows it.
LEMMA SealAlone ==
  ASSUME OneSession, GInv, GInv', AInv, NEW s \in Sessions, SealNode(s)
  PROVE  AInv'
<1>1. session[s].pc = "seal" /\ NodeOf(session[s].pc) = "execute" /\ InHandler(session[s])
  BY DEF SealNode, AtNode, NodeOf, InHandler
<1>2. PICK v \in GraphState : v = session[s].values /\ v.current_step < Len(v.workflow.steps)
  BY <1>1, CallFacts DEF Sound, Placed
<1>3. PICK o \in Outcomes : o = session[s].outcome
  BY <1>1 DEF GInv, CallOk, Holds
<1>4. now \in 0..MaxTime /\ closed' = closed /\ handled' = handled
  BY DEF SealNode, history, GInv
<1>5. PICK w : w = Completed(v, o, FALSE)
  OBVIOUS
<1>6. CASE GoTo(s, w, AfterStep(w)) /\ UNCHANGED checkpoints
  <2>1. Extends(v.evidence, w.evidence)
    BY <1>2, <1>4, <1>5, CompletedExtends
  <2>2. PICK node \in {"gate", "finalize", "end"} : node = AfterStep(w)
    BY DEF AfterStep
  <2>3. node \in {"gate", "claim", "finalize", "end"} /\ node # "claim" /\ GoTo(s, w, node)
    BY <1>6, <2>2
  <2> QED BY <1>1, <1>2, <1>4, <1>6, <2>1, <2>3, GoToAlone
<1>7. CASE Raise(s)
  BY <1>1, <1>4, <1>7, IdleAlone DEF Raise
<1> QED BY <1>2, <1>3, <1>5, <1>6, <1>7 DEF SealNode

\* The background writer: the checkpoint is what the call has.
LEMMA PersistAlone ==
  ASSUME OneSession, GInv, AInv, NEW s \in Sessions, Persist(s)
  PROVE  AInv'
<1>1. session[s].pc \notin {"idle", "resuming"}
  BY DEF Persist
<1>2. PICK t \in Threads, p \in Checkpoint : t = session[s].thread /\ p = Image(s)
  BY <1>1, CallFacts
<1>3. PICK c : c = session[s]
  OBVIOUS
<1>4. /\ session' = [session EXCEPT ![s] = c]
      /\ closed' = closed /\ handled' = handled
      /\ checkpoints' = [checkpoints EXCEPT ![t] = p]
  BY <1>2, <1>3 DEF Persist, history, GInv, Stored
<1>5. checkpoints'[t] = p /\ p.values = c.values
  BY <1>2, <1>3, <1>4 DEF GInv, Points, Image
<1>6. Extends(p.values.evidence, c.values.evidence)
  BY <1>5, SameChain DEF Checkpoint, GraphState
<1>7. Ahead(checkpoints', closed', c)
  BY <1>1, <1>2, <1>3, <1>4, <1>5, <1>6 DEF Ahead, AInv
<1>8. \A u \in Threads : \/ checkpoints'[u] = checkpoints[u]
                         \/ session[s].pc # "idle" /\ session[s].thread = u
  BY <1>1, <1>2, <1>4 DEF GInv, Points
<1>9. CallsSatisfyPolicy'
  BY <1>4 DEF AInv, CallsSatisfyPolicy
<1> QED BY <1>4, <1>7, <1>8, <1>9, OnlyStep

\* invoke returns: a thread that is closed now is stored at the end of its graph.
LEMMA ReturnAlone ==
  ASSUME OneSession, GInv, AInv, NEW s \in Sessions, Return(s)
  PROVE  AInv'
<1>1. session[s].pc \notin {"idle", "resuming"}
  BY DEF Return, Returns, AtNode
<1>2. PICK t \in Threads, p \in Checkpoint : t = session[s].thread /\ p = Image(s)
  BY <1>1, CallFacts
<1>3. /\ session' = [session EXCEPT ![s] = Idle]
      /\ handled' = handled
      /\ checkpoints' = [checkpoints EXCEPT ![t] = p]
      /\ closed' = closed \cup {u \in {t} : AtNode(s, "end")}
  BY <1>2 DEF Return, Stored
<1>4. checkpoints'[t] = p /\ p # NoRow
  BY <1>2, <1>3, NoRowIsNone DEF GInv, Points
<1>5. AtNode(s, "end") => p.next = "end"
  BY <1>2 DEF AtNode, Image, NodeOf
<1>6. \A u \in closed' : u \in closed \/ (checkpoints'[u] # NoRow /\ checkpoints'[u].next = "end")
  BY <1>3, <1>4, <1>5
<1>7. \A u \in Threads : \/ checkpoints'[u] = checkpoints[u]
                         \/ session[s].pc # "idle" /\ session[s].thread = u
  BY <1>1, <1>2, <1>3 DEF GInv, Points
<1>8. Ahead(checkpoints', closed', Idle)
  BY DEF Ahead, Idle
<1>9. CallsSatisfyPolicy'
  BY <1>3 DEF AInv, CallsSatisfyPolicy
<1> QED BY <1>3, <1>6, <1>7, <1>8, <1>9, OnlyStep

\* A process dies: what it had not stored is lost.
LEMMA CrashAlone ==
  ASSUME OneSession, GInv, AInv, NEW s \in Sessions, Crash(s)
  PROVE  AInv'
  BY IdleAlone DEF Crash, durable, history

\* At the start no call is in progress, and none was made.
LEMMA InitAInv == Init => AInv
  BY DEF Init, AInv, Ahead, Idle, CallsSatisfyPolicy

\* Every step keeps the invariant.
LEMMA NextAInv ==
  ASSUME OneSession
  PROVE  GInv /\ EInv /\ AInv /\ [Next]_vars => AInv'
<1> SUFFICES ASSUME GInv, EInv, AInv, [Next]_vars PROVE AInv'
  OBVIOUS
<1>1. GInv'
  BY NextGInv
<1>2. ASSUME NEW s \in Sessions, Work(s) PROVE AInv'
  BY <1>1, <1>2, EnterAlone, AuthorizeAlone, GateRecheckAlone, GateAlone, ClaimNodeAlone,
     HandlerAlone, SealAlone, FinalizeAlone, ReturnAlone DEF Work
<1>3. ASSUME Tick PROVE AInv'
  BY <1>3 DEF Tick, durable, history, AInv, CallsSatisfyPolicy
<1>4. ASSUME Calm PROVE AInv'
  BY <1>2, <1>3, <1>4, PersistAlone, StartAlone, ResumeAlone DEF Calm
<1>5. CASE UNCHANGED vars
  BY <1>5 DEF vars, AInv, CallsSatisfyPolicy
<1> QED BY <1>4, <1>5, CrashAlone DEF Next

\* One session at a time is always at or past the checkpoint of its thread.
THEOREM SpecAInv ==
  ASSUME OneSession
  PROVE  Spec => []AInv
<1>1. Init => GInv /\ EInv /\ AInv
  BY InitGInv, InitEInv, InitAInv
<1>2. GInv /\ EInv /\ AInv /\ [Next]_vars => (GInv /\ EInv /\ AInv)'
  BY NextGInv, NextEInv, NextAInv
<1> QED BY <1>1, <1>2, PTL DEF Spec

\* A chain that extends another has it as a prefix.
LEMMA ExtendsPrefix ==
  ASSUME NEW a \in Seq(EvidenceRecord), NEW b \in Seq(EvidenceRecord), Extends(a, b)
  PROVE  IsPrefix(a, b)
<1>1. Len(a) \in Nat /\ Len(b) \in Nat /\ Len(a) <= Len(b)
  BY LenProperties DEF Extends
<1>2. \A n \in 1..Len(a) : b[n] = a[n]
  BY <1>1, LenProperties DEF Extends
<1>3. SubSeq(a, 1, Len(a)) = SubSeq(b, 1, Len(a))
  BY <1>1, <1>2, SubSeqProperties
<1> QED BY <1>1, <1>3 DEF IsPrefix

\* A step stores what its call has, or leaves the chains.
LEMMA StepStores ==
  ASSUME GInv, [Next]_vars, checkpoints' # checkpoints
  PROVE  \E s \in Sessions : /\ session[s].pc \notin {"idle", "resuming"}
                             /\ checkpoints' = Stored(s) \/ MayKeepResponse(s)
<1>1. ASSUME NEW s \in Sessions, Work(s)
      PROVE  /\ session[s].pc \notin {"idle", "resuming"}
             /\ checkpoints' = Stored(s) \/ MayKeepResponse(s)
  <2>1. CASE Enter(s) \/ FinalizeNode(s)
    BY <2>1 DEF Enter, FinalizeNode, durable
  <2>2. CASE AuthorizeNode(s) \/ GateRecheck(s) \/ GateStep(s)
    BY <2>2 DEF AuthorizeNode, GateRecheck, GateStep, Raise, AtNode
  <2>3. CASE ClaimNode(s) \/ SealNode(s) \/ \E o \in Outcomes : HandlerNode(s, o)
    BY <2>3 DEF ClaimNode, HandlerNode, SealNode, Raise, AtNode
  <2>4. CASE Return(s)
    BY <2>4 DEF Return, Returns, AtNode
  <2> QED BY <1>1, <2>1, <2>2, <2>3, <2>4 DEF Work
<1>2. CASE Tick
  BY <1>2 DEF Tick, durable
<1>3. ASSUME NEW s \in Sessions, NEW t \in Threads, NEW w \in Workflows, NEW g \in Grants,
             NEW l \in InitialLedgers, NEW r \in Registries, Start(s, t, w, g, l, r)
      PROVE  FALSE
  BY <1>3 DEF Start, durable
<1>4. ASSUME NEW s \in Sessions, NEW t \in Threads, NEW x \in Reviews, NEW r \in Registries,
             Resume(s, t, x, r)
      PROVE  FALSE
  BY <1>4 DEF Resume, durable
<1>5. ASSUME NEW s \in Sessions, Persist(s)
      PROVE  /\ session[s].pc \notin {"idle", "resuming"}
             /\ checkpoints' = Stored(s) \/ MayKeepResponse(s)
  BY <1>5 DEF Persist
<1>6. ASSUME NEW s \in Sessions, Crash(s) PROVE FALSE
  BY <1>6 DEF Crash, durable
<1> QED BY <1>1, <1>2, <1>3, <1>4, <1>5, <1>6 DEF Next, Calm, vars

\* With one session at a time, a stored chain is only ever extended, whatever
\* the background writer, crashes, raises and resumes do.
THEOREM GraphEvidenceOnlyGrows ==
  ASSUME OneSession
  PROVE  Spec => EvidenceOnlyGrows
<1>1. ASSUME GInv, AInv, [Next]_vars
      PROVE  \A t \in Threads : checkpoints[t] # NoRow =>
               IsPrefix(checkpoints[t].values.evidence, checkpoints'[t].values.evidence)
  <2> SUFFICES ASSUME NEW t \in Threads, NEW p \in Checkpoint, p = checkpoints[t]
               PROVE  IsPrefix(p.values.evidence, checkpoints'[t].values.evidence)
    BY <1>1 DEF GInv, Points
  <2>1. p.values.evidence \in Seq(EvidenceRecord)
    BY DEF Checkpoint, GraphState
  <2>2. p # NoRow
    BY NoRowIsNone
  <2>3. CASE checkpoints'[t].values = p.values
    BY <2>1, <2>3, SameChain, ExtendsPrefix
  <2>4. ASSUME checkpoints' # checkpoints
        PROVE  IsPrefix(p.values.evidence, checkpoints'[t].values.evidence)
    <3>1. PICK s \in Sessions : /\ session[s].pc \notin {"idle", "resuming"}
                                /\ checkpoints' = Stored(s) \/ MayKeepResponse(s)
      BY <1>1, <2>4, StepStores
    <3>2. PICK u \in Threads, q \in Checkpoint : u = session[s].thread /\ q = Image(s)
      BY <1>1, <3>1, CallFacts
    <3>3. CASE checkpoints' = Stored(s)
      <4>1. checkpoints' = [checkpoints EXCEPT ![u] = q]
        BY <3>2, <3>3 DEF Stored
      <4>2. CASE t = u
        <5>1. checkpoints'[t] = q /\ q.values = session[s].values
          BY <1>1, <3>2, <4>1, <4>2 DEF GInv, Points, Image
        <5>2. Extends(p.values.evidence, q.values.evidence)
          BY <1>1, <2>2, <3>1, <3>2, <4>2, <5>1 DEF AInv, Ahead
        <5>3. q.values.evidence \in Seq(EvidenceRecord)
          BY DEF Checkpoint, GraphState
        <5> QED BY <2>1, <5>1, <5>2, <5>3, ExtendsPrefix
      <4>3. CASE t # u
        BY <1>1, <2>3, <4>1, <4>3 DEF GInv, Points
      <4> QED BY <4>2, <4>3
    <3>4. CASE MayKeepResponse(s)
      <4>1. /\ SameStored(checkpoints, checkpoints', u)
            /\ t # u => checkpoints'[t] = checkpoints[t]
        BY <1>1, <3>1, <3>2, <3>4, KeptStored
      <4>2. checkpoints'[t] # NoRow
        <5>1. Moved(authority_uses, step_executions, checkpoints, checkpoints')
          BY <1>1, <3>1, <3>4, SameTables, KeptMoves
        <5> QED BY <2>2, <5>1 DEF Moved
      <4> QED BY <2>3, <4>1, <4>2 DEF SameStored
    <3> QED BY <3>1, <3>3, <3>4
  <2> QED BY <2>3, <2>4
<1>2. GInv /\ AInv /\ [Next]_vars =>
        [\A t \in Threads : checkpoints[t] # NoRow =>
           IsPrefix(checkpoints[t].values.evidence, checkpoints'[t].values.evidence)]_vars
  BY <1>1
<1> QED BY <1>2, SpecGInv, SpecAInv, PTL DEF Spec, EvidenceOnlyGrows

\* With one session at a time, no handler runs on a thread whose terminal
\* result was returned to a caller.
THEOREM GraphTerminalIsFinal ==
  ASSUME OneSession
  PROVE  Spec => TerminalIsFinal
<1>1. ASSUME GInv, AInv, [Next]_vars, handled' # handled
      PROVE  Last(handled').key[1] \notin closed
  <2>1. PICK s \in Sessions, o \in Outcomes : HandlerNode(s, o)
    <3>1. ASSUME NEW s \in Sessions, Work(s)
          PROVE  \E o \in Outcomes : HandlerNode(s, o)
      <4>1. CASE Enter(s) \/ AuthorizeNode(s) \/ GateRecheck(s) \/ GateStep(s)
        BY <1>1, <4>1 DEF Enter, AuthorizeNode, GateRecheck, GateStep, history
      <4>2. CASE ClaimNode(s) \/ SealNode(s) \/ FinalizeNode(s) \/ Return(s)
        BY <1>1, <4>2 DEF ClaimNode, SealNode, FinalizeNode, Return, history
      <4> QED BY <3>1, <4>1, <4>2 DEF Work
    <3>2. CASE Calm
      BY <1>1, <3>1, <3>2 DEF Calm, Tick, Persist, Start, Resume, history
    <3> QED BY <1>1, <3>2 DEF Next, vars, Crash, history
  <2>2. PICK h : /\ handled' = Append(handled, h)
                 /\ h.key = KeyOf(session[s].thread, session[s].values)
    BY <2>1 DEF HandlerNode
  <2>3. Last(handled') = h
    <3>1. Len(handled) \in Nat
      BY <1>1, LenProperties DEF GInv
    <3> QED BY <1>1, <2>2, <3>1 DEF Last, GInv
  <2>4. h.key[1] = session[s].thread
    BY <2>2 DEF KeyOf
  <2>5. session[s].thread \notin closed
    BY <1>1, <2>1 DEF HandlerNode, AtNode, AInv, Ahead
  <2> QED BY <2>3, <2>4, <2>5
<1>2. GInv /\ AInv /\ [Next]_vars =>
        [handled' # handled => Last(handled').key[1] \notin closed]_vars
  BY <1>1
<1> QED BY <1>2, SpecGInv, SpecAInv, PTL DEF Spec, TerminalIsFinal

\* With one session at a time, the call's own registry is the one that was asked
\* at its gate: the whole policy accepts every handler call, whatever the
\* registries of earlier processes said.
THEOREM GraphOneSessionPolicy ==
  ASSUME OneSession
  PROVE  Spec => []CallsSatisfyPolicy
<1>1. AInv => CallsSatisfyPolicy
  BY DEF AInv
<1> QED BY <1>1, SpecAInv, PTL
=============================================================================
