--------------------------- MODULE ExtractionProofs ---------------------------
(***************************************************************************)
(* Theorems about Extraction, for any number of processes, messages, runs, *)
(* events, children and faults.                                            *)
(***************************************************************************)
EXTENDS Extraction, TLAPS

RunRow == [ver : Ver, finished : BOOLEAN, linked : [Msg -> SUBSET Child]]

StoreTypeOK ==
    /\ state \in [Msg -> {"absent", "pending", "skipped", "done", "failed"}]
    /\ attempts \in [Msg -> 0 .. MaxAttempts]
    /\ ver \in [Msg -> Ver \cup {0}]
    /\ kids \in [Msg -> SUBSET Child]

ResultTypeOK ==
    /\ coverage \subseteq Run \X Msg
    /\ events \subseteq EventRow
    /\ audience \subseteq EventRow \X Child
    /\ audits \subseteq Run \X Msg

LocalTypeOK ==
    /\ pc \in [Process -> Step]
    /\ bin \in [Process -> Ver]
    /\ todo \in [Process -> SUBSET Msg]
    /\ cur \in [Process -> Msg \cup {0}]
    /\ run \in [Process -> Run \cup {0}]
    /\ answer \in [Process -> SUBSET Event]
    /\ readers \in [Process -> SUBSET Child]
    /\ fails \in [Process -> 0 .. AbortAfter]
    /\ stop \in [Process -> BOOLEAN]
    /\ \A p \in Process :
          /\ pc[p] \in Handling => cur[p] \in todo[p]
          /\ fails[p] = AbortAfter => pc[p] = "finish"

\* A process that runs has a run of its own in extraction_runs.
RunOK ==
    /\ runs \in Seq(RunRow)
    /\ Len(runs) <= MaxRuns
    /\ \A p \in Process : pc[p] \in Running => run[p] \in 1 .. Len(runs)

LEMMA TypeParts ==
    TypeOK <=> /\ StoreTypeOK /\ ResultTypeOK /\ LocalTypeOK /\ RunOK
               /\ version \in Ver /\ faults \in 0 .. MaxFaults
BY DEF TypeOK, StoreTypeOK, ResultTypeOK, LocalTypeOK, RunOK, RunRow, Running

\* The end of a pass leaves a process idle, holding nothing.
LEMMA EndPassType ==
    ASSUME LocalTypeOK, NEW p \in Process, EndPass(p)
    PROVE  LocalTypeOK'
BY ExtractionAssumption DEF LocalTypeOK, EndPass, GoTo, Step, Handling

LEMMA LeaveMessageType ==
    ASSUME LocalTypeOK, NEW p \in Process, NEW step \in {"next", "finish"},
           LeaveMessage(p, step), UNCHANGED <<bin, run, stop>>,
           fails' \in [Process -> 0 .. AbortAfter],
           \A q \in Process : fails'[q] = AbortAfter => pc'[q] = "finish"
    PROVE  LocalTypeOK'
BY DEF LocalTypeOK, LeaveMessage, GoTo, Step, Handling

LEMMA FaultType ==
    ASSUME faults \in 0 .. MaxFaults, Fault
    PROVE  faults' \in 0 .. MaxFaults
BY ExtractionAssumption DEF Fault

LEMMA AuditType ==
    ASSUME TypeOK, NEW p \in Process, pc[p] \in Running, pc[p] \in Handling, Audit(p)
    PROVE  audits' \subseteq Run \X Msg /\ faults' \in 0 .. MaxFaults
<1>1. run[p] \in Run /\ cur[p] \in Msg
  BY ExtractionAssumption DEF TypeOK, Running, Run
<1> QED
  BY <1>1, FaultType DEF Audit, TypeOK

LEMMA TypeStep == TypeOK /\ [Next]_vars => TypeOK'
<1> SUFFICES ASSUME TypeOK, [Next]_vars
             PROVE  TypeOK'
  OBVIOUS
<1>t. /\ StoreTypeOK /\ ResultTypeOK /\ LocalTypeOK /\ RunOK
      /\ version \in Ver /\ faults \in 0 .. MaxFaults
  BY TypeParts
<1> SUFFICES /\ StoreTypeOK' /\ ResultTypeOK' /\ LocalTypeOK' /\ RunOK'
             /\ version' \in Ver /\ faults' \in 0 .. MaxFaults
  BY DEF TypeOK, StoreTypeOK, ResultTypeOK, LocalTypeOK, RunOK, RunRow, Running
<1> DEFINE Goal == /\ StoreTypeOK' /\ ResultTypeOK' /\ LocalTypeOK' /\ RunOK'
                   /\ version' \in Ver /\ faults' \in 0 .. MaxFaults
<1>1. ASSUME NEW p \in Process, SelectPending(p)
      PROVE  Goal
  <2>1. Oldest(Limit, PendingMessages) \subseteq Msg
    BY DEF Oldest, PendingMessages
  <2> QED
    BY <1>1, <1>t, <2>1 DEF SelectPending, GoTo, store, results, StoreTypeOK,
       ResultTypeOK, LocalTypeOK, RunOK, Running, Step, Handling
<1>2. ASSUME NEW p \in Process, SelectReextract(p)
      PROVE  Goal
  <2>1. PICK batch \in SUBSET Msg : todo' = [todo EXCEPT ![p] = batch]
    BY <1>2 DEF SelectReextract, Oldest, ReextractMessages
  <2> QED
    BY <1>2, <1>t, <2>1 DEF SelectReextract, GoTo, store, results, StoreTypeOK,
       ResultTypeOK, LocalTypeOK, RunOK, Running, Step, Handling
<1>3. ASSUME NEW p \in Process, StartRun(p)
      PROVE  Goal
  <2>1. StoreTypeOK' /\ ResultTypeOK' /\ version' \in Ver
    BY <1>3, <1>t DEF StartRun, store, StoreTypeOK, ResultTypeOK
  <2>2. CASE Fault /\ EndPass(p) /\ UNCHANGED runs
    <3>1. LocalTypeOK' /\ faults' \in 0 .. MaxFaults
      BY <2>2, <1>t, EndPassType, FaultType
    <3>2. RunOK'
      BY <2>2, <1>t DEF RunOK, EndPass, GoTo, Running, Handling, LocalTypeOK
    <3> QED
      BY <2>1, <3>1, <3>2
  <2>3. CASE /\ Len(runs) < MaxRuns
             /\ runs' = Append(runs, [ver |-> bin[p], finished |-> FALSE, linked |-> kids])
             /\ run' = [run EXCEPT ![p] = Len(runs')]
             /\ GoTo(p, "next")
             /\ UNCHANGED <<bin, todo, cur, answer, readers, fails, stop, faults>>
    <3>1. [ver |-> bin[p], finished |-> FALSE, linked |-> kids] \in RunRow
      BY <1>t DEF RunRow, LocalTypeOK, StoreTypeOK
    <3>2. runs' \in Seq(RunRow) /\ Len(runs') = Len(runs) + 1 /\ Len(runs) \in Nat
      BY <2>3, <3>1, <1>t DEF RunOK
    <3>3. Len(runs') \in Run /\ Len(runs') <= MaxRuns
      BY <2>3, <3>2, ExtractionAssumption DEF Run
    <3>4. LocalTypeOK'
      BY <2>3, <3>3, <1>t, <1>3 DEF LocalTypeOK, GoTo, Step, Handling, StartRun
    <3>5. RunOK'
      BY <2>3, <3>2, <3>3, <1>t DEF RunOK, GoTo, Running, Handling, LocalTypeOK
    <3> QED
      BY <2>1, <2>3, <3>4, <3>5, <1>t
  <2> QED
    BY <1>3, <2>2, <2>3 DEF StartRun
<1>4. ASSUME NEW p \in Process, NextMessage(p)
      PROVE  Goal
  <2>1. StoreTypeOK' /\ ResultTypeOK' /\ version' \in Ver /\ faults' \in 0 .. MaxFaults
    BY <1>4, <1>t DEF NextMessage, store, results, StoreTypeOK, ResultTypeOK
  <2>2. RunOK'
    BY <1>4, <1>t DEF NextMessage, GoTo, results, RunOK, LocalTypeOK, Running, Handling
  <2>3. ASSUME GoTo(p, "finish"), UNCHANGED cur
        PROVE  LocalTypeOK'
    BY <1>4, <2>3, <1>t DEF NextMessage, GoTo, LocalTypeOK, Step, Handling
  <2>4. ASSUME NEW m \in todo[p], cur' = [cur EXCEPT ![p] = m], GoTo(p, "call")
        PROVE  LocalTypeOK'
    BY <1>4, <2>4, <1>t DEF NextMessage, GoTo, LocalTypeOK, Step, Handling
  <2> QED
    BY <1>4, <2>1, <2>2, <2>3, <2>4 DEF NextMessage
<1>5. ASSUME NEW p \in Process, Answered(p)
      PROVE  Goal
  <2>1. audits' \subseteq Run \X Msg /\ faults' \in 0 .. MaxFaults
    BY <1>5, AuditType DEF Answered, Running, Handling
  <2> QED
    BY <1>5, <1>t, <2>1, ExtractionAssumption DEF Answered, GoTo, store, StoreTypeOK,
       ResultTypeOK, LocalTypeOK, RunOK, Running, Step, Handling
<1>6. ASSUME NEW p \in Process, CallFailed(p)
      PROVE  Goal
  <2>1. audits' \subseteq Run \X Msg /\ faults' \in 0 .. MaxFaults
    BY <1>6, AuditType DEF CallFailed, Running, Handling
  <2> QED
    BY <1>6, <1>t, <2>1 DEF CallFailed, GoTo, store, locals, StoreTypeOK,
       ResultTypeOK, LocalTypeOK, RunOK, Running, Step, Handling
<1>7. ASSUME NEW p \in Process, Panic(p)
      PROVE  Goal
  BY <1>7, <1>t, EndPassType DEF Panic, EndPass, GoTo, store, results, StoreTypeOK,
     ResultTypeOK, LocalTypeOK, RunOK, Running, Handling
<1>8. ASSUME NEW p \in Process, Cancelled(p)
      PROVE  Goal
  BY <1>8, <1>t DEF Cancelled, GoTo, store, results, locals, StoreTypeOK,
     ResultTypeOK, LocalTypeOK, RunOK, Running, Step, Handling
<1>9. ASSUME NEW p \in Process, MarkFailed(p)
      PROVE  Goal
  <2>1. cur[p] \in Msg /\ fails[p] < AbortAfter /\ fails[p] + 1 \in 0 .. AbortAfter
    BY <1>9, <1>t, ExtractionAssumption DEF MarkFailed, LocalTypeOK, Handling
  <2>2. StoreTypeOK' /\ faults' \in 0 .. MaxFaults
    BY <1>9, <2>1, <1>t, FaultType, ExtractionAssumption
       DEF MarkFailed, ChargeAttempt, StoreTypeOK, store
  <2>3. LocalTypeOK'
    <3>1. PICK step \in {"next", "finish"} :
             /\ LeaveMessage(p, step)
             /\ step = IF fails'[p] >= AbortAfter THEN "finish" ELSE "next"
      BY <1>9 DEF MarkFailed
    <3>2. /\ fails' \in [Process -> 0 .. AbortAfter]
          /\ UNCHANGED <<bin, run, stop>>
          /\ \A q \in Process : fails'[q] = AbortAfter => pc'[q] = "finish"
      BY <1>9, <1>t, <2>1, <3>1, ExtractionAssumption
         DEF MarkFailed, LocalTypeOK, LeaveMessage, GoTo
    <3> QED
      BY <3>1, <3>2, <1>t, LeaveMessageType
  <2>4. RunOK'
    BY <1>9, <1>t DEF MarkFailed, LeaveMessage, GoTo, results, RunOK, Running,
       Handling, LocalTypeOK
  <2> QED
    BY <1>9, <1>t, <2>2, <2>3, <2>4 DEF MarkFailed, results, ResultTypeOK
<1>10. ASSUME NEW p \in Process, ReadChildren(p)
       PROVE  Goal
  <2>1. CASE /\ readers' = [readers EXCEPT ![p] = kids[cur[p]]]
             /\ GoTo(p, "save")
             /\ UNCHANGED <<todo, cur, answer, faults>>
    <3>1. cur[p] \in Msg /\ kids[cur[p]] \subseteq Child
      BY <1>10, <1>t DEF ReadChildren, LocalTypeOK, Handling, StoreTypeOK
    <3> QED
      BY <1>10, <2>1, <3>1, <1>t DEF ReadChildren, GoTo, store, results, StoreTypeOK,
         ResultTypeOK, LocalTypeOK, RunOK, Running, Step, Handling
  <2>2. CASE Fault /\ LeaveMessage(p, "next")
    <3>1. faults' \in 0 .. MaxFaults
      BY <2>2, <1>t, FaultType
    <3>2. LocalTypeOK'
      BY <1>10, <2>2, <1>t, LeaveMessageType DEF ReadChildren, LocalTypeOK, LeaveMessage, GoTo
    <3> QED
      BY <1>10, <2>2, <3>1, <3>2, <1>t DEF ReadChildren, LeaveMessage, GoTo, store, results,
         StoreTypeOK, ResultTypeOK, RunOK, Running, Handling, LocalTypeOK
  <2> QED
    BY <1>10, <2>1, <2>2 DEF ReadChildren
<1>11. ASSUME NEW p \in Process, SaveEvents(p)
       PROVE  Goal
  <2>1. CASE /\ Publish(run[p], cur[p], answer[p], readers[p])
             /\ GoTo(p, "done")
             /\ UNCHANGED <<todo, cur, answer, readers, faults>>
    <3>1. /\ run[p] \in Run /\ cur[p] \in Msg
          /\ answer[p] \subseteq Event /\ readers[p] \subseteq Child
      BY <1>11, <1>t, ExtractionAssumption
         DEF SaveEvents, LocalTypeOK, RunOK, Running, Handling, Run
    <3>2. {[run |-> run[p], msg |-> cur[p], event |-> e] : e \in answer[p]} \subseteq EventRow
      BY <3>1 DEF EventRow
    <3>3. ResultTypeOK'
      BY <1>11, <2>1, <3>1, <3>2, <1>t DEF SaveEvents, Publish, ResultTypeOK
    <3> QED
      BY <1>11, <2>1, <3>3, <1>t DEF SaveEvents, GoTo, store, StoreTypeOK, LocalTypeOK,
         RunOK, Running, Step, Handling
  <2>2. CASE Fault /\ LeaveMessage(p, "next") /\ UNCHANGED <<coverage, events, audience>>
    <3>1. faults' \in 0 .. MaxFaults
      BY <2>2, <1>t, FaultType
    <3>2. LocalTypeOK'
      BY <1>11, <2>2, <1>t, LeaveMessageType DEF SaveEvents, LocalTypeOK, LeaveMessage, GoTo
    <3> QED
      BY <1>11, <2>2, <3>1, <3>2, <1>t DEF SaveEvents, LeaveMessage, GoTo, store,
         StoreTypeOK, ResultTypeOK, RunOK, Running, Handling, LocalTypeOK
  <2> QED
    BY <1>11, <2>1, <2>2 DEF SaveEvents
<1>12. ASSUME NEW p \in Process, MarkDone(p)
       PROVE  Goal
  <2>1. cur[p] \in Msg /\ bin[p] \in Ver
    BY <1>12, <1>t DEF MarkDone, LocalTypeOK, Handling
  <2>2. StoreTypeOK'
    BY <1>12, <2>1, <1>t, ExtractionAssumption DEF MarkDone, StoreTypeOK
  <2>3. faults' \in 0 .. MaxFaults
    BY <1>12, <1>t, FaultType DEF MarkDone
  <2>4. PICK step \in {"next", "finish"} : LeaveMessage(p, step)
    BY <1>12 DEF MarkDone
  <2>5. LocalTypeOK'
    BY <1>12, <2>4, <1>t, LeaveMessageType DEF MarkDone, LocalTypeOK, LeaveMessage, GoTo
  <2> QED
    BY <1>12, <2>2, <2>3, <2>4, <2>5, <1>t DEF MarkDone, LeaveMessage, GoTo, results,
       ResultTypeOK, RunOK, Running, Handling, LocalTypeOK
<1>13. ASSUME NEW p \in Process, FinishRun(p)
       PROVE  Goal
  <2>1. LocalTypeOK'
    BY <1>13, <1>t, EndPassType DEF FinishRun
  <2>2. faults' \in 0 .. MaxFaults
    BY <1>13, <1>t, FaultType DEF FinishRun
  <2>3. runs' \in Seq(RunRow) /\ Len(runs') = Len(runs)
    <3>1. run[p] \in 1 .. Len(runs)
      BY <1>13, <1>t DEF FinishRun, RunOK, Running
    <3>2. runs[run[p]] \in RunRow
      BY <3>1, <1>t DEF RunOK
    <3>3. [runs[run[p]] EXCEPT !.finished = TRUE] \in RunRow
      BY <3>2 DEF RunRow
    <3> QED
      BY <1>13, <3>1, <3>3, <1>t DEF FinishRun, RunOK
  <2> QED
    BY <1>13, <2>1, <2>2, <2>3, <1>t DEF FinishRun, EndPass, GoTo, store, StoreTypeOK,
       ResultTypeOK, RunOK, Running, Handling, LocalTypeOK
<1>14. ASSUME NEW p \in Process, Signal(p)
       PROVE  Goal
  BY <1>14, <1>t, FaultType DEF Signal, store, results, StoreTypeOK, ResultTypeOK,
     LocalTypeOK, RunOK, Running
<1>15. ASSUME NEW p \in Process, Crash(p)
       PROVE  Goal
  BY <1>15, <1>t, FaultType, EndPassType DEF Crash, EndPass, GoTo, store, results,
     StoreTypeOK, ResultTypeOK, LocalTypeOK, RunOK, Running, Handling
<1>16. ASSUME NEW m \in Msg, StoreMessage(m)
       PROVE  Goal
  BY <1>16, <1>t DEF StoreMessage, results, locals, StoreTypeOK, ResultTypeOK,
     LocalTypeOK, RunOK, Running
<1>17. ASSUME NEW m \in Msg, NEW c \in Child, LinkChild(m, c)
       PROVE  Goal
  BY <1>17, <1>t DEF LinkChild, results, locals, StoreTypeOK, ResultTypeOK,
     LocalTypeOK, RunOK, Running
<1>18. CASE Upgrade
  BY <1>18, <1>t, ExtractionAssumption DEF Upgrade, store, results, locals, StoreTypeOK,
     ResultTypeOK, LocalTypeOK, RunOK, Running, Ver
<1>19. CASE UNCHANGED vars
  BY <1>19, <1>t DEF vars, store, results, locals, StoreTypeOK, ResultTypeOK,
     LocalTypeOK, RunOK, Running
<1> QED
  BY <1>1, <1>2, <1>3, <1>4, <1>5, <1>6, <1>7, <1>8, <1>9, <1>10, <1>11, <1>12, <1>13,
     <1>14, <1>15, <1>16, <1>17, <1>18, <1>19 DEF Next, PassStep, Environment

LEMMA TypeInit == Init => TypeOK
BY ExtractionAssumption DEF Init, TypeOK, Step, Handling, Running, Ver, Process

\* Every reachable state is type correct: among the rest, a process that has a
\* message in hand has it in its batch, and a pass that failed AbortAfter times
\* in a row is at its end.
THEOREM TypeCorrect == Spec => []TypeOK
BY TypeInit, TypeStep, PTL DEF Spec

-----------------------------------------------------------------------------
(* The retry budget.                                                        *)

\* What a step does to the queue: nothing, or one of three changes to a message.
LEMMA StateSteps ==
    ASSUME TypeOK, [Next]_vars
    PROVE  \/ UNCHANGED <<state, attempts>>
           \/ \E m \in Msg : /\ state[m] = "absent"
                              /\ \E s \in {"pending", "skipped"} :
                                    state' = [state EXCEPT ![m] = s]
                              /\ UNCHANGED attempts
           \/ \E m \in Msg : ChargeAttempt(m)
           \/ \E m \in Msg : /\ state' = [state EXCEPT ![m] = "done"]
                              /\ attempts' = [attempts EXCEPT ![m] = 0]
<1> USE DEF store
<1>1. ASSUME NEW p \in Process, MarkFailed(p)
      PROVE  UNCHANGED <<state, attempts>> \/ \E m \in Msg : ChargeAttempt(m)
  <2>1. cur[p] \in Msg
    BY <1>1 DEF MarkFailed, TypeOK, Handling
  <2> QED
    BY <1>1, <2>1 DEF MarkFailed
<1>2. ASSUME NEW p \in Process, MarkDone(p)
      PROVE  \/ UNCHANGED <<state, attempts>>
             \/ \E m \in Msg : /\ state' = [state EXCEPT ![m] = "done"]
                                /\ attempts' = [attempts EXCEPT ![m] = 0]
  <2>1. cur[p] \in Msg
    BY <1>2 DEF MarkDone, TypeOK, Handling
  <2> QED
    BY <1>2, <2>1 DEF MarkDone
<1>3. ASSUME NEW m \in Msg, StoreMessage(m)
      PROVE  \E n \in Msg : /\ state[n] = "absent"
                            /\ \E s \in {"pending", "skipped"} :
                                  state' = [state EXCEPT ![n] = s]
                            /\ UNCHANGED attempts
  BY <1>3 DEF StoreMessage
<1>4. ASSUME NEW p \in Process, PassStep(p) \/ Signal(p) \/ Crash(p),
             ~MarkFailed(p), ~MarkDone(p)
      PROVE  UNCHANGED <<state, attempts>>
  BY <1>4 DEF PassStep, SelectPending, SelectReextract, StartRun, NextMessage, Answered,
     CallFailed, Panic, Cancelled, ReadChildren, SaveEvents, FinishRun, Signal, Crash
<1>5. ASSUME Environment \/ UNCHANGED vars, \A m \in Msg : ~StoreMessage(m)
      PROVE  UNCHANGED <<state, attempts>>
  BY <1>5 DEF Environment, LinkChild, Upgrade, vars
<1> QED
  BY <1>1, <1>2, <1>3, <1>4, <1>5 DEF Next

LEMMA BudgetStep == TypeOK /\ RetryBudget /\ [Next]_vars => RetryBudget'
<1> SUFFICES ASSUME TypeOK, RetryBudget, [Next]_vars
             PROVE  RetryBudget'
  OBVIOUS
<1>t. /\ state \in [Msg -> {"absent", "pending", "skipped", "done", "failed"}]
      /\ attempts \in [Msg -> 0 .. MaxAttempts]
      /\ MaxAttempts \in Nat \ {0}
  BY ExtractionAssumption DEF TypeOK
<1>1. CASE UNCHANGED <<state, attempts>>
  BY <1>1 DEF RetryBudget
<1>2. ASSUME NEW m \in Msg, NEW s \in {"pending", "skipped"}, state[m] = "absent",
             state' = [state EXCEPT ![m] = s], UNCHANGED attempts
      PROVE  RetryBudget'
  BY <1>2, <1>t DEF RetryBudget
<1>3. ASSUME NEW m \in Msg, ChargeAttempt(m)
      PROVE  RetryBudget'
  <2>1. \A n \in Msg : n # m => state'[n] = state[n] /\ attempts'[n] = attempts[n]
    BY <1>3, <1>t DEF ChargeAttempt
  <2>2. /\ attempts'[m] = IF attempts[m] < MaxAttempts THEN attempts[m] + 1 ELSE attempts[m]
        /\ state'[m] = IF attempts[m] + 1 >= MaxAttempts THEN "failed" ELSE "pending"
    BY <1>3, <1>t DEF ChargeAttempt
  <2>3. /\ state'[m] = "pending" => attempts'[m] < MaxAttempts
        /\ state'[m] = "failed" => attempts'[m] = MaxAttempts
        /\ state'[m] \notin {"done", "absent", "skipped"}
    BY <2>2, <1>t
  <2> QED
    BY <2>1, <2>3 DEF RetryBudget
<1>4. ASSUME NEW m \in Msg, state' = [state EXCEPT ![m] = "done"],
             attempts' = [attempts EXCEPT ![m] = 0]
      PROVE  RetryBudget'
  BY <1>4, <1>t DEF RetryBudget
<1> QED
  BY <1>1, <1>2, <1>3, <1>4, StateSteps

\* A message waits in the queue only while it has attempts left, is given up
\* only when it has none, and an answer gives it all of them back.
THEOREM BudgetKept == Spec => []RetryBudget
<1>1. Init => RetryBudget
  BY ExtractionAssumption DEF Init, RetryBudget
<1> QED
  BY <1>1, TypeCorrect, BudgetStep, PTL DEF Spec

-----------------------------------------------------------------------------
(* One extract beside one reextract never hold the same message.            *)

\* The batch of p shrinks, and no message changes its state.
LetsGo(p) == state' = state /\ todo' \in {[todo EXCEPT ![p] = S] : S \in SUBSET todo[p]}

\* p takes a new batch of messages in the given states.
Takes(p, states) ==
    /\ state' = state
    /\ todo' \in {[todo EXCEPT ![p] = S] : S \in SUBSET {m \in Msg : state[m] \in states}}

\* p works off a message: it leaves the batch, and no other changes its state.
WorksOff(p) ==
    \E m \in todo[p] : /\ todo' = [todo EXCEPT ![p] = @ \ {m}]
                       /\ \A n \in Msg : n # m => state'[n] = state[n]

\* A step of p either takes a new batch while idle, or only lets messages go,
\* and lets go of the message whose state it changes.
LEMMA HoldSteps ==
    ASSUME TypeOK, NEW p \in Process, PassStep(p) \/ Signal(p) \/ Crash(p)
    PROVE  \/ LetsGo(p) \/ WorksOff(p)
           \/ p \in Extractor /\ Takes(p, {"pending"})
           \/ p \in Reextractor /\ Takes(p, {"done", "failed"})
<1>t. /\ todo \in [Process -> SUBSET Msg]
      /\ pc[p] \in Handling => cur[p] \in todo[p]
      /\ state \in [Msg -> {"absent", "pending", "skipped", "done", "failed"}]
  BY DEF TypeOK
<1>s. state' = state /\ UNCHANGED todo => LetsGo(p)
  <2>1. todo = [todo EXCEPT ![p] = todo[p]]
    BY <1>t
  <2> QED
    BY <2>1 DEF LetsGo
<1> USE DEF store
<1>1. CASE SelectPending(p)
  BY <1>1 DEF SelectPending, Oldest, Takes, PendingMessages
<1>2. CASE SelectReextract(p)
  <2>1. PICK wanted \in SUBSET Msg, force \in BOOLEAN :
           todo' = [todo EXCEPT ![p] = Oldest(Limit, ReextractMessages(wanted, force, version))]
    BY <1>2 DEF SelectReextract
  <2>2. Oldest(Limit, ReextractMessages(wanted, force, version))
           \subseteq {m \in Msg : state[m] \in {"done", "failed"}}
    BY DEF Oldest, ReextractMessages
  <2> QED
    BY <1>2, <2>1, <2>2 DEF SelectReextract, Takes
<1>3. CASE MarkFailed(p)
  <2>1. cur[p] \in todo[p] /\ \A n \in Msg : n # cur[p] => state'[n] = state[n]
    BY <1>3, <1>t DEF MarkFailed, ChargeAttempt, Handling
  <2> QED
    BY <1>3, <2>1 DEF MarkFailed, LeaveMessage, WorksOff
<1>4. CASE MarkDone(p)
  <2>1. cur[p] \in todo[p] /\ \A n \in Msg : n # cur[p] => state'[n] = state[n]
    BY <1>4, <1>t DEF MarkDone, Handling
  <2> QED
    BY <1>4, <2>1 DEF MarkDone, LeaveMessage, WorksOff
<1>5. CASE ReadChildren(p) \/ SaveEvents(p)
  BY <1>5, <1>s, <1>t DEF ReadChildren, SaveEvents, LeaveMessage, LetsGo
<1>6. CASE StartRun(p) \/ Panic(p) \/ FinishRun(p) \/ Crash(p)
  <2>1. state' = state /\ (UNCHANGED todo \/ todo' = [todo EXCEPT ![p] = {}])
    BY <1>6 DEF StartRun, Panic, FinishRun, Crash, EndPass
  <2> QED
    BY <2>1, <1>s DEF LetsGo
<1>7. CASE NextMessage(p) \/ Answered(p) \/ CallFailed(p) \/ Cancelled(p) \/ Signal(p)
  BY <1>7, <1>s DEF NextMessage, Answered, CallFailed, Cancelled, Signal, locals
<1> QED
  BY <1>1, <1>2, <1>3, <1>4, <1>5, <1>6, <1>7 DEF PassStep

\* There is one process of a kind.
Single(S) == \A p, q \in S : p = q

LEMMA HoldDisjoint == HoldInv => NoDoubleExtraction
BY DEF HoldInv, NoDoubleExtraction

LEMMA HoldStep ==
    ASSUME Single(Extractor), Single(Reextractor), TypeOK, HoldInv, [Next]_vars
    PROVE  HoldInv'
<1>1. ASSUME NEW p \in Process, PassStep(p) \/ Signal(p) \/ Crash(p)
      PROVE  HoldInv'
  <2>t. todo \in [Process -> SUBSET Msg]
    BY DEF TypeOK
  <2>1. CASE LetsGo(p)
    BY <2>1, <2>t DEF HoldInv, Process, LetsGo
  <2>2. CASE p \in Extractor /\ Takes(p, {"pending"})
    BY <2>2, <2>t, ExtractionAssumption DEF HoldInv, Process, Takes
  <2>3. CASE p \in Reextractor /\ Takes(p, {"done", "failed"})
    BY <2>3, <2>t, ExtractionAssumption DEF HoldInv, Process, Takes
  <2>4. CASE WorksOff(p)
    <3>1. PICK m \in todo[p] : /\ todo' = [todo EXCEPT ![p] = @ \ {m}]
                              /\ \A n \in Msg : n # m => state'[n] = state[n]
      BY <2>4 DEF WorksOff
    <3>2. \A q \in Process : m \notin todo'[q]
      <4> SUFFICES ASSUME NEW q \in Process, q # p
                   PROVE  m \notin todo[q]
        BY <3>1, <2>t
      <4> QED
        BY <3>1 DEF HoldInv, Process, Single
    <3>3. \A q \in Process : todo'[q] \subseteq todo[q]
      BY <3>1, <2>t
    <3>4. \A q \in Process : \A n \in todo'[q] : state'[n] = state[n]
      BY <3>1, <3>2, <3>3, <2>t
    <3> QED
      BY <3>3, <3>4 DEF HoldInv, Process
  <2> QED
    BY <1>1, <2>1, <2>2, <2>3, <2>4, HoldSteps
<1>2. ASSUME NEW m \in Msg, StoreMessage(m)
      PROVE  HoldInv'
  <2>1. /\ state[m] = "absent" /\ UNCHANGED todo
        /\ \A n \in Msg : n # m => state'[n] = state[n]
    BY <1>2 DEF StoreMessage, locals, TypeOK
  <2>2. \A q \in Process : m \notin todo[q] /\ todo[q] \subseteq Msg
    BY <2>1 DEF HoldInv, Process, TypeOK
  <2> QED
    BY <2>1, <2>2 DEF HoldInv, Process
<1>3. CASE Upgrade \/ UNCHANGED vars \/ \E m \in Msg, c \in Child : LinkChild(m, c)
  BY <1>3 DEF Upgrade, LinkChild, vars, store, locals, HoldInv
<1> QED
  BY <1>1, <1>2, <1>3 DEF Next, Environment

\* With one extract and one reextract, no message is in both batches, so no
\* call is paid for twice, whatever is killed and restarted.
THEOREM NeverBoth ==
    ASSUME Single(Extractor), Single(Reextractor)
    PROVE  Spec => []NoDoubleExtraction
<1>1. Init => HoldInv
  BY DEF Init, HoldInv, Process
<1>2. TypeOK /\ HoldInv /\ [Next]_vars => HoldInv'
  BY HoldStep
<1> QED
  BY <1>1, <1>2, TypeCorrect, HoldDisjoint, PTL DEF Spec

-----------------------------------------------------------------------------
(* Runs, and what they cover.                                               *)

\* p opens a run.
Opens(p) ==
    /\ Len(runs') = Len(runs) + 1
    /\ pc'[p] = "next" /\ run'[p] = Len(runs')
    /\ UNCHANGED <<coverage, events>>

\* p goes on in its run without saving; a message it has saved it lets go.
GoesOn(p) ==
    /\ pc[p] \in Running /\ pc'[p] \in Running \ {"done"}
    /\ run'[p] = run[p] /\ todo'[p] \subseteq todo[p]
    /\ pc[p] = "done" => cur[p] \notin todo'[p]
    /\ UNCHANGED <<runs, coverage, events>>

\* p is outside a run.
Outside(p) ==
    /\ pc'[p] \notin Running
    /\ Len(runs') = Len(runs)
    /\ UNCHANGED <<coverage, events>>

\* p saves its answer.
Saves(p) ==
    /\ pc[p] = "save" /\ pc' = [pc EXCEPT ![p] = "done"]
    /\ Publish(run[p], cur[p], answer[p], readers[p])
    /\ UNCHANGED <<runs, run, todo, cur, answer>>

\* Nothing that matters here changes.
Rests == UNCHANGED <<pc, runs, run, todo, cur, answer, coverage, events>>

LEMMA RunSteps ==
    ASSUME TypeOK, NEW p \in Process, PassStep(p) \/ Signal(p) \/ Crash(p)
    PROVE  /\ \A q \in Process : q # p => /\ pc'[q] = pc[q] /\ run'[q] = run[q]
                                          /\ todo'[q] = todo[q] /\ cur'[q] = cur[q]
                                          /\ answer'[q] = answer[q]
           /\ Opens(p) \/ GoesOn(p) \/ Outside(p) \/ Saves(p) \/ Rests
<1> DEFINE Others == \A q \in Process :
              q # p => /\ pc'[q] = pc[q] /\ run'[q] = run[q]
                       /\ todo'[q] = todo[q] /\ cur'[q] = cur[q] /\ answer'[q] = answer[q]
<1>t. /\ pc \in [Process -> Step] /\ run \in [Process -> Run \cup {0}]
      /\ todo \in [Process -> SUBSET Msg] /\ cur \in [Process -> Msg \cup {0}]
      /\ answer \in [Process -> SUBSET Event]
      /\ runs \in Seq(RunRow)
      /\ pc[p] \in Running => run[p] \in 1 .. Len(runs)
  BY DEF TypeOK, RunRow
<1> USE DEF results
<1>1. ASSUME EndPass(p), UNCHANGED <<coverage, events>>, Len(runs') = Len(runs)
      PROVE  Others /\ Outside(p)
  BY <1>1, <1>t DEF EndPass, GoTo, Outside, Running, Handling
<1>2. ASSUME NEW step \in {"next", "finish"}, LeaveMessage(p, step),
             pc[p] \in Handling, UNCHANGED <<runs, run, coverage, events>>
      PROVE  Others /\ GoesOn(p)
  BY <1>2, <1>t DEF LeaveMessage, GoTo, GoesOn, Running
<1>3. CASE SelectPending(p) \/ SelectReextract(p)
  <2>1. PICK batch : /\ todo' = [todo EXCEPT ![p] = batch]
                     /\ pc' = [pc EXCEPT ![p] = "start"]
                     /\ UNCHANGED <<runs, run, cur, answer, coverage, events>>
    BY <1>3 DEF SelectPending, SelectReextract, GoTo
  <2> QED
    BY <2>1, <1>t DEF Outside, Running, Handling
<1>4. CASE StartRun(p)
  <2>1. CASE Fault /\ EndPass(p) /\ UNCHANGED runs
    BY <1>4, <2>1, <1>1 DEF StartRun
  <2>2. CASE /\ runs' = Append(runs, [ver |-> bin[p], finished |-> FALSE, linked |-> kids])
             /\ run' = [run EXCEPT ![p] = Len(runs')]
             /\ GoTo(p, "next")
             /\ UNCHANGED <<todo, cur, answer>>
    <3>1. Len(runs') = Len(runs) + 1
      BY <2>2, <1>t
    <3> QED
      BY <1>4, <2>2, <3>1, <1>t DEF StartRun, GoTo, Opens
  <2> QED
    BY <1>4, <2>1, <2>2 DEF StartRun
<1>5. CASE NextMessage(p)
  <2>1. PICK step \in {"finish", "call"} : pc' = [pc EXCEPT ![p] = step]
    BY <1>5 DEF NextMessage, GoTo
  <2>2. /\ pc[p] = "next" /\ UNCHANGED <<runs, run, todo, answer, coverage, events>>
        /\ \A q \in Process : q # p => cur'[q] = cur[q]
    BY <1>5, <1>t DEF NextMessage
  <2> QED
    BY <2>1, <2>2, <1>t DEF GoesOn, Running, Handling
<1>6. CASE Answered(p)
  <2>1. PICK a : answer' = [answer EXCEPT ![p] = a]
    BY <1>6 DEF Answered
  <2> QED
    BY <1>6, <2>1, <1>t DEF Answered, GoTo, GoesOn, Running, Handling
<1>7. CASE CallFailed(p) \/ Cancelled(p)
  <2>1. PICK step \in {"failed", "finish"} : pc' = [pc EXCEPT ![p] = step]
    BY <1>7 DEF CallFailed, Cancelled, GoTo
  <2>2. pc[p] \in {"call", "failed"} /\ UNCHANGED <<runs, run, todo, cur, answer, coverage, events>>
    BY <1>7 DEF CallFailed, Cancelled, locals
  <2> QED
    BY <2>1, <2>2, <1>t DEF GoesOn, Running, Handling
<1>8. CASE Panic(p) \/ Crash(p)
  BY <1>8, <1>1 DEF Panic, Crash
<1>9. CASE FinishRun(p)
  <2>1. Len(runs') = Len(runs)
    BY <1>9, <1>t DEF FinishRun, Running
  <2> QED
    BY <1>9, <2>1, <1>1 DEF FinishRun
<1>10. CASE MarkFailed(p)
  BY <1>10, <1>2 DEF MarkFailed, Handling
<1>11. CASE MarkDone(p)
  BY <1>11, <1>2 DEF MarkDone, Handling
<1>12. CASE ReadChildren(p)
  <2>1. CASE LeaveMessage(p, "next")
    BY <1>12, <2>1, <1>2 DEF ReadChildren, Handling
  <2>2. CASE GoTo(p, "save") /\ UNCHANGED <<todo, cur, answer>>
    BY <1>12, <2>2, <1>t DEF ReadChildren, GoTo, GoesOn, Running, Handling
  <2> QED
    BY <1>12, <2>1, <2>2 DEF ReadChildren
<1>13. CASE SaveEvents(p)
  <2>1. CASE LeaveMessage(p, "next") /\ UNCHANGED <<coverage, events>>
    BY <1>13, <2>1, <1>2 DEF SaveEvents, Handling
  <2>2. CASE /\ Publish(run[p], cur[p], answer[p], readers[p])
             /\ GoTo(p, "done") /\ UNCHANGED <<todo, cur, answer>>
    BY <1>13, <2>2, <1>t DEF SaveEvents, GoTo, Saves
  <2> QED
    BY <1>13, <2>1, <2>2 DEF SaveEvents
<1>14. CASE Signal(p)
  BY <1>14 DEF Signal, Rests
<1> QED
  BY <1>3, <1>4, <1>5, <1>6, <1>7, <1>8, <1>9, <1>10, <1>11, <1>12, <1>13, <1>14 DEF PassStep

LEMMA RunStep == TypeOK /\ RunInv /\ [Next]_vars => RunInv'
<1> SUFFICES ASSUME TypeOK, RunInv, [Next]_vars
             PROVE  RunInv'
  OBVIOUS
<1>1. ASSUME NEW p \in Process, PassStep(p) \/ Signal(p) \/ Crash(p)
      PROVE  RunInv'
  <2>1. \A q \in Process : q # p => pc'[q] = pc[q] /\ run'[q] = run[q]
    BY <1>1, RunSteps
  <2>2. \A q \in Process : pc[q] \in Running => run[q] <= Len(runs) /\ run[q] \in Nat
    BY DEF TypeOK
  <2>3. CASE Opens(p)
    <3>1. Len(runs) \in Nat
      BY DEF TypeOK
    <3>2. \A q \in Process : q # p /\ pc'[q] \in Running => run'[q] # run'[p]
      BY <2>1, <2>2, <2>3, <3>1 DEF Opens
    <3> QED
      BY <2>1, <3>2 DEF RunInv
  <2>4. CASE GoesOn(p)
    BY <2>1, <2>4 DEF GoesOn, RunInv
  <2>5. CASE Outside(p)
    BY <2>1, <2>5 DEF Outside, RunInv
  <2>6. CASE Saves(p)
    <3>1. pc[p] \in Running
      BY <2>6 DEF Saves, Running, Handling
    <3> QED
      BY <2>1, <2>6, <3>1 DEF Saves, RunInv
  <2>7. CASE Rests
    BY <2>7 DEF Rests, RunInv
  <2> QED
    BY <1>1, <2>3, <2>4, <2>5, <2>6, <2>7, RunSteps
<1>2. CASE Environment \/ UNCHANGED vars
  BY <1>2 DEF Environment, StoreMessage, LinkChild, Upgrade, vars, locals, RunInv
<1> QED
  BY <1>1, <1>2 DEF Next

LEMMA CoverStep == TypeOK /\ RunInv /\ CoverInv /\ [Next]_vars => CoverInv'
<1> SUFFICES ASSUME TypeOK, RunInv, CoverInv, [Next]_vars
             PROVE  CoverInv'
  OBVIOUS
<1> DEFINE Covers(p) == pc[p] \in Running =>
              \A m \in todo[p] : <<run[p], m>> \in coverage <=> pc[p] = "done" /\ m = cur[p]
           Saved(p) == pc[p] = "done" =>
              {x \in events : x.run = run[p] /\ x.msg = cur[p]} =
                 {[run |-> run[p], msg |-> cur[p], event |-> e] : e \in answer[p]}
<1>c. \A q \in Process : Covers(q) /\ Saved(q)
  BY DEF CoverInv
<1>n. Len(runs) \in Nat /\ \A k \in coverage : k[1] \in Nat /\ k[1] <= Len(runs)
  BY DEF TypeOK, CoverInv, Run
<1>1. ASSUME NEW p \in Process, PassStep(p) \/ Signal(p) \/ Crash(p)
      PROVE  CoverInv'
  <2>1. \A q \in Process : q # p => /\ pc'[q] = pc[q] /\ run'[q] = run[q]
                                   /\ todo'[q] = todo[q] /\ cur'[q] = cur[q]
                                   /\ answer'[q] = answer[q]
    BY <1>1, RunSteps
  <2>2. ASSUME UNCHANGED <<coverage, events>>, Len(runs') >= Len(runs), Len(runs') \in Nat,
               Covers(p)', Saved(p)'
        PROVE  CoverInv'
    <3>1. \A q \in Process : Covers(q)' /\ Saved(q)'
      BY <1>c, <2>1, <2>2
    <3>2. /\ \A x \in events' : <<x.run, x.msg>> \in coverage'
          /\ \A k \in coverage' : k[1] <= Len(runs')
      BY <1>n, <2>2 DEF CoverInv
    <3> QED
      BY <3>1, <3>2 DEF CoverInv
  <2>3. CASE Opens(p)
    <3>1. \A m : <<run'[p], m>> \notin coverage'
      BY <1>n, <2>3 DEF Opens
    <3> QED
      BY <1>n, <2>2, <2>3, <3>1 DEF Opens
  <2>4. CASE GoesOn(p)
    <3>1. Covers(p)' /\ Saved(p)'
      BY <1>c, <2>4 DEF GoesOn
    <3> QED
      BY <1>n, <2>2, <2>4, <3>1 DEF GoesOn
  <2>5. CASE Outside(p)
    <3>1. Covers(p)' /\ Saved(p)'
      BY <2>5 DEF Outside, Running, Handling
    <3> QED
      BY <1>n, <2>2, <2>5, <3>1 DEF Outside
  <2>6. CASE Rests
    <3>1. Covers(p)' /\ Saved(p)'
      BY <1>c, <2>6 DEF Rests
    <3> QED
      BY <1>n, <2>2, <2>6, <3>1 DEF Rests
  <2>7. CASE Saves(p)
    <3> DEFINE r == run[p]
               c == cur[p]
               new == {[run |-> r, msg |-> c, event |-> e] : e \in answer[p]}
    <3>1. /\ pc'[p] = "done" /\ pc[p] = "save" /\ pc[p] \in Running
          /\ c \in todo[p] /\ r \in 1 .. Len(runs)
          /\ UNCHANGED <<runs, run, todo, cur, answer>>
      BY <2>7 DEF Saves, TypeOK, Running, Handling
    <3>2. coverage' = coverage \cup {<<r, c>>} /\ events' = events \cup new
      BY <2>7 DEF Saves, Publish
    <3>3. \A m \in todo[p] : <<r, m>> \notin coverage
      BY <1>c, <3>1
    <3>4. Covers(p)'
      BY <3>1, <3>2, <3>3
    <3>5. Saved(p)'
      <4>1. \A x \in events : ~(x.run = r /\ x.msg = c)
        BY <3>1, <3>3 DEF CoverInv
      <4>2. \A x \in new : x.run = r /\ x.msg = c
        OBVIOUS
      <4>3. {x \in events' : x.run = r /\ x.msg = c} = new
        BY <3>2, <4>1, <4>2
      <4> QED
        BY <3>1, <4>3
    <3>6. ASSUME NEW q \in Process, q # p
          PROVE  Covers(q)' /\ Saved(q)'
      <4>1. /\ pc'[q] = pc[q] /\ run'[q] = run[q] /\ todo'[q] = todo[q]
            /\ cur'[q] = cur[q] /\ answer'[q] = answer[q]
        BY <2>1, <3>6
      <4>2. pc[q] \in Running => run[q] # r
        BY <3>1, <3>6 DEF RunInv
      <4>3. Covers(q)'
        BY <1>c, <3>2, <4>1, <4>2
      <4>4. Saved(q)'
        <5> SUFFICES ASSUME pc[q] = "done"
                     PROVE  Saved(q)'
          BY <4>1
        <5>1. run[q] # r
          BY <4>2 DEF Running, Handling
        <5>2. \A x \in new : x.run # run[q]
          BY <5>1
        <5>3. {x \in events' : x.run = run[q] /\ x.msg = cur[q]} =
              {x \in events : x.run = run[q] /\ x.msg = cur[q]}
          BY <3>2, <5>2
        <5> QED
          BY <1>c, <4>1, <5>3
      <4> QED
        BY <4>3, <4>4
    <3>7. ASSUME NEW x \in events'
          PROVE  <<x.run, x.msg>> \in coverage'
      <4>1. CASE x \in events
        BY <3>2, <4>1 DEF CoverInv
      <4>2. CASE x \in new
        <5>1. x.run = r /\ x.msg = c
          BY <4>2
        <5> QED
          BY <3>2, <5>1
      <4> QED
        BY <3>2, <4>1, <4>2
    <3>8. \A k \in coverage' : k[1] <= Len(runs')
      BY <1>n, <3>1, <3>2
    <3> QED
      BY <3>4, <3>5, <3>6, <3>7, <3>8 DEF CoverInv
  <2> QED
    BY <1>1, <2>3, <2>4, <2>5, <2>6, <2>7, RunSteps
<1>2. CASE Environment \/ UNCHANGED vars
  BY <1>2 DEF Environment, StoreMessage, LinkChild, Upgrade, vars, results, locals, CoverInv
<1> QED
  BY <1>1, <1>2 DEF Next

LEMMA CoverHolds == Spec => [](RunInv /\ CoverInv)
<1>1. Init => RunInv /\ CoverInv
  BY DEF Init, RunInv, CoverInv, Running, Handling
<1> QED
  BY <1>1, TypeCorrect, RunStep, CoverStep, PTL DEF Spec

\* There is one newest run at most.
LEMMA NewestUnique ==
    ASSUME TypeOK, NEW m, NEW r, NEW s, Newest(r, m), Newest(s, m)
    PROVE  r = s
<1>1. r \in Run /\ s \in Run
  BY DEF Newest, TypeOK
<1>2. r <= s /\ s <= r
  BY DEF Newest
<1> QED
  BY <1>1, <1>2 DEF Run

LEMMA CurrentAnswer == TypeOK /\ CoverInv => AnswerIsCurrent
<1> SUFFICES ASSUME TypeOK, CoverInv, NEW p \in Process, pc[p] = "done",
                    \A k \in coverage : k[2] = cur[p] => ~(k[1] > run[p])
             PROVE  CurrentEvents(cur[p]) =
                       {[run |-> run[p], msg |-> cur[p], event |-> e] : e \in answer[p]}
  BY DEF AnswerIsCurrent
<1>1. <<run[p], cur[p]>> \in coverage /\ run[p] \in Run
  BY DEF CoverInv, TypeOK, Running, Handling
<1>2. Newest(run[p], cur[p])
  <2>1. \A k \in coverage : k[1] \in Run
    BY DEF TypeOK
  <2> QED
    BY <1>1, <2>1 DEF Newest, Run
<1>3. \A x \in events : x.msg = cur[p] => (Newest(x.run, cur[p]) <=> x.run = run[p])
  BY <1>2, NewestUnique
<1>4. CurrentEvents(cur[p]) = {x \in events : x.run = run[p] /\ x.msg = cur[p]}
  BY <1>3 DEF CurrentEvents
<1> QED
  BY <1>4 DEF CoverInv

\* An answer that was saved, an empty one too, is what readers see unless a
\* later run has answered since: no older generation comes back.
THEOREM AnswersShown == Spec => []AnswerIsCurrent
BY TypeCorrect, CoverHolds, CurrentAnswer, PTL

-----------------------------------------------------------------------------
(* Refinement of Generations.                                               *)

\* What the transaction of SaveEvents does to coverage and events.
LEMMA SaveFacts ==
    ASSUME TypeOK, CoverInv, NEW p \in Process, Saves(p)
    PROVE  \E r \in Run, c \in Msg, a \in SUBSET Event :
              /\ <<r, c>> \notin coverage
              /\ coverage' = coverage \cup {<<r, c>>}
              /\ events' = events \cup {[run |-> r, msg |-> c, event |-> e] : e \in a}
              /\ \A x \in events : ~(x.run = r /\ x.msg = c)
<1>1. pc[p] = "save" /\ pc[p] \in Running /\ cur[p] \in todo[p]
  BY DEF Saves, TypeOK, Running, Handling
<1>2. <<run[p], cur[p]>> \notin coverage
  BY <1>1 DEF CoverInv
<1>3. run[p] \in Run /\ cur[p] \in Msg /\ answer[p] \in SUBSET Event
  <2>1. run[p] \in 1 .. Len(runs) /\ Len(runs) <= MaxRuns /\ Len(runs) \in Nat
    BY <1>1 DEF TypeOK
  <2>2. run[p] \in Run
    BY <2>1, ExtractionAssumption DEF Run
  <2> QED
    BY <1>1, <2>2 DEF TypeOK
<1>4. /\ coverage' = coverage \cup {<<run[p], cur[p]>>}
      /\ events' = events \cup
            {[run |-> run[p], msg |-> cur[p], event |-> e] : e \in answer[p]}
  BY DEF Saves, Publish
<1>5. \A x \in events : ~(x.run = run[p] /\ x.msg = cur[p])
  BY <1>2 DEF CoverInv
<1> QED
  BY <1>2, <1>3, <1>4, <1>5

\* A save leaves the other messages' newest runs alone.
LEMMA NewestElsewhere ==
    ASSUME NEW r, NEW c, coverage' = coverage \cup {<<r, c>>}, NEW s, NEW m, m # c
    PROVE  Newest(s, m)' <=> Newest(s, m)
<1>1. \A k \in coverage' : k[2] = m => k \in coverage
  BY DEF Newest
<1>2. <<s, m>> \in coverage' <=> <<s, m>> \in coverage
  BY <1>1
<1> QED
  BY <1>1, <1>2 DEF Newest

\* The message that is saved has the higher of two newest runs.
LEMMA NewestAfterSave ==
    ASSUME TypeOK, NEW r \in Run, NEW c, <<r, c>> \notin coverage,
           coverage' = coverage \cup {<<r, c>>}
    PROVE  /\ \A s : Newest(s, c) /\ s > r => \A t : Newest(t, c)' <=> Newest(t, c)
           /\ (\A s : Newest(s, c) => ~(s > r)) /\ (\A k \in coverage : k[2] = c =>
                  \E s \in Run : Newest(s, c)) => Newest(r, c)'
<1>1. \A k \in coverage : k[1] \in Run /\ k = <<k[1], k[2]>>
  BY DEF TypeOK
<1>2. \A k \in Run : k \in Nat
  BY DEF Run
<1>3. ASSUME NEW s, Newest(s, c), s > r, NEW t
      PROVE  Newest(t, c)' <=> Newest(t, c)
  <2>1. s \in Run
    BY <1>1, <1>3 DEF Newest
  <2>2. CASE Newest(t, c)
    <3>1. t = s
      BY <1>3, <2>2, NewestUnique
    <3> QED
      BY <1>2, <1>3, <2>1, <2>2, <3>1 DEF Newest
  <2>3. CASE Newest(t, c)'
    <3>1. <<s, c>> \in coverage' /\ s <= t
      BY <1>3, <2>3 DEF Newest
    <3>2. t # r
      BY <1>2, <1>3, <2>1, <3>1
    <3>3. <<t, c>> \in coverage
      BY <2>3, <3>2 DEF Newest
    <3> QED
      BY <2>3, <3>3 DEF Newest
  <2> QED
    BY <2>2, <2>3
<1>4. ASSUME \A s : Newest(s, c) => ~(s > r),
             \A k \in coverage : k[2] = c => \E s \in Run : Newest(s, c)
      PROVE  Newest(r, c)'
  <2>1. ASSUME NEW k \in coverage, k[2] = c
        PROVE  k[1] <= r
    <3>1. PICK s \in Run : Newest(s, c)
      BY <1>4, <2>1
    <3>2. k[1] <= s /\ ~(s > r) /\ k[1] \in Run
      BY <1>1, <1>4, <2>1, <3>1 DEF Newest
    <3> QED
      BY <1>2, <3>2
  <2> QED
    BY <1>2, <2>1 DEF Newest
<1> QED
  BY <1>3, <1>4

LEMMA NewestStep == TypeOK /\ CoverInv /\ NewestInv /\ [Next]_vars => NewestInv'
<1> SUFFICES ASSUME TypeOK, CoverInv, NewestInv, [Next]_vars
             PROVE  NewestInv'
  OBVIOUS
<1>1. CASE UNCHANGED coverage
  BY <1>1 DEF NewestInv, Newest
<1>2. ASSUME NEW p \in Process, Saves(p)
      PROVE  NewestInv'
  <2>1. PICK r \in Run, c \in Msg :
           <<r, c>> \notin coverage /\ coverage' = coverage \cup {<<r, c>>}
    BY <1>2, SaveFacts
  <2>2. ASSUME NEW k \in coverage', k[2] # c
        PROVE  \E s \in Run : Newest(s, k[2])'
    <3>1. k \in coverage
      BY <2>1, <2>2
    <3>2. PICK s \in Run : Newest(s, k[2])
      BY <3>1 DEF NewestInv
    <3> QED
      BY <2>1, <2>2, <3>2, NewestElsewhere
  <2>3. \E s \in Run : Newest(s, c)'
    <3>1. CASE \E s : Newest(s, c) /\ s > r
      <4>1. PICK s : Newest(s, c) /\ s > r
        BY <3>1
      <4>2. s \in Run
        BY <4>1 DEF Newest, TypeOK
      <4>3. Newest(s, c)'
        BY <2>1, <4>1, NewestAfterSave
      <4> QED
        BY <4>2, <4>3
    <3>2. CASE \A s : Newest(s, c) => ~(s > r)
      <4>1. \A k \in coverage : k[2] = c => \E s \in Run : Newest(s, c)
        BY DEF NewestInv
      <4>2. Newest(r, c)'
        BY <2>1, <3>2, <4>1, NewestAfterSave
      <4> QED
        BY <2>1, <4>2
    <3> QED
      BY <3>1, <3>2
  <2> QED
    BY <2>2, <2>3 DEF NewestInv
<1>3. ASSUME NEW p \in Process, PassStep(p) \/ Signal(p) \/ Crash(p)
      PROVE  Saves(p) \/ UNCHANGED coverage
  BY <1>3, RunSteps DEF Opens, GoesOn, Outside, Rests
<1>4. CASE Environment \/ UNCHANGED vars
  BY <1>1, <1>4 DEF Environment, StoreMessage, LinkChild, Upgrade, vars, results
<1> QED
  BY <1>1, <1>2, <1>3, <1>4 DEF Next

\* The generation of Generations, as the refinement mapping gives it.
Shown(m) == [run |-> NewestRun(m), events |-> {x.event : x \in CurrentEvents(m)}]
ShownGenerations == [m \in Msg |-> Shown(m)]

LEMMA NewestRunIs ==
    ASSUME TypeOK, NEW m, NEW r, Newest(r, m)
    PROVE  NewestRun(m) = r
<1>1. r \in Run
  BY DEF Newest, TypeOK
<1>2. \A s \in Run : Newest(s, m) => s = r
  BY NewestUnique
<1> QED
  BY <1>1, <1>2 DEF NewestRun

\* Every step is a step of Generations, or invisible to it.
LEMMA GenerationStep ==
    ASSUME TypeOK, CoverInv, NewestInv, [Next]_vars
    PROVE  [Latest!GenNext]_(ShownGenerations)
<1>1. CASE UNCHANGED <<coverage, events>>
  BY <1>1 DEF ShownGenerations, Shown, NewestRun, CurrentEvents, Newest
<1>2. ASSUME NEW p \in Process, Saves(p)
      PROVE  [Latest!GenNext]_(ShownGenerations)
  <2>0. PICK r \in Run, c \in Msg, a \in SUBSET Event :
           /\ <<r, c>> \notin coverage
           /\ coverage' = coverage \cup {<<r, c>>}
           /\ events' = events \cup {[run |-> r, msg |-> c, event |-> e] : e \in a}
           /\ \A x \in events : ~(x.run = r /\ x.msg = c)
    BY <1>2, SaveFacts
  <2> DEFINE row(e) == [run |-> r, msg |-> c, event |-> e]
             new == {row(e) : e \in a}
  <2>1. /\ <<r, c>> \notin coverage /\ coverage' = coverage \cup {<<r, c>>}
        /\ events' = events \cup new
        /\ \A x \in events : ~(x.run = r /\ x.msg = c)
    BY <2>0
  <2>2. \A x \in new : x.run = r /\ x.msg = c
    OBVIOUS
  <2>3. {x.event : x \in new} = a
    <3>1. \A e : row(e).event = e
      OBVIOUS
    <3> HIDE DEF row
    <3> QED
      BY <3>1
  <2>t. TypeOK'
    BY TypeStep
  <2> HIDE DEF new
  <2>4. ASSUME NEW m \in Msg, m # c
        PROVE  Shown(m)' = Shown(m)
    <3>1. \A s : Newest(s, m)' <=> Newest(s, m)
      BY <2>1, <2>4, NewestElsewhere
    <3>2. CurrentEvents(m)' = CurrentEvents(m)
      BY <2>1, <2>2, <2>4, <3>1 DEF CurrentEvents
    <3>3. NewestRun(m)' = NewestRun(m)
      BY <3>1 DEF NewestRun
    <3> QED
      BY <3>2, <3>3 DEF Shown
  <2>5. CASE \E s : Newest(s, c) /\ s > r
    <3>1. PICK s : Newest(s, c) /\ s > r
      BY <2>5
    <3>2. \A t : Newest(t, c)' <=> Newest(t, c)
      BY <2>1, <3>1, NewestAfterSave
    <3>3. ~Newest(r, c)
      BY <2>1 DEF Newest
    <3>4. CurrentEvents(c)' = CurrentEvents(c)
      BY <2>1, <2>2, <3>2, <3>3 DEF CurrentEvents
    <3>5. NewestRun(c)' = NewestRun(c)
      BY <3>2 DEF NewestRun
    <3>6. Shown(c)' = Shown(c)
      BY <3>4, <3>5 DEF Shown
    <3> QED
      BY <2>4, <3>6 DEF ShownGenerations
  <2>6. CASE \A s : Newest(s, c) => ~(s > r)
    <3>1. Newest(r, c)'
      <4>1. \A k \in coverage : k[2] = c => \E s \in Run : Newest(s, c)
        BY DEF NewestInv
      <4> QED
        BY <2>1, <2>6, <4>1, NewestAfterSave
    <3>3. ASSUME NEW s, Newest(s, c)'
          PROVE  s = r
      <4>1. s \in Run /\ s <= r /\ r <= s
        BY <2>t, <3>1, <3>3 DEF Newest, TypeOK
      <4> QED
        BY <4>1 DEF Run
    <3>2. NewestRun(c)' = r
      BY <3>1, <3>3, <2>t DEF NewestRun, Newest, TypeOK
    <3>4. CurrentEvents(c)' = new
      <4>1. \A x \in events : x.msg = c => ~Newest(x.run, c)'
        BY <2>1, <3>3
      <4> QED
        BY <2>1, <2>2, <3>1, <4>1 DEF CurrentEvents
    <3>5. Shown(c)' = [run |-> r, events |-> a]
      BY <2>3, <3>2, <3>4 DEF Shown
    <3>6. r > NewestRun(c)
      <4>1. CASE \E s \in Run : Newest(s, c)
        <5>1. PICK s \in Run : Newest(s, c)
          BY <4>1
        <5>2. NewestRun(c) = s /\ ~(s > r) /\ s # r
          BY <2>1, <2>6, <5>1, NewestRunIs DEF Newest
        <5> QED
          BY <2>1, <5>2 DEF Run
      <4>2. CASE ~\E s \in Run : Newest(s, c)
        BY <2>1, <4>2 DEF NewestRun, Run
      <4> QED
        BY <4>1, <4>2
    <3>7. ShownGenerations' = [ShownGenerations EXCEPT ![c] = [run |-> r, events |-> a]]
      BY <2>1, <2>4, <3>5 DEF ShownGenerations
    <3>8. ShownGenerations[c].run = NewestRun(c)
      BY <2>1 DEF ShownGenerations, Shown
    <3>9. Latest!Publish(c, r, a)
      BY <3>6, <3>7, <3>8 DEF Latest!Publish, ShownGenerations, Shown
    <3> QED
      BY <2>1, <3>9 DEF Latest!GenNext
  <2> QED
    BY <2>5, <2>6
<1>3. ASSUME NEW p \in Process, PassStep(p) \/ Signal(p) \/ Crash(p)
      PROVE  Saves(p) \/ UNCHANGED <<coverage, events>>
  BY <1>3, RunSteps DEF Opens, GoesOn, Outside, Rests
<1>4. CASE Environment \/ UNCHANGED vars
  BY <1>1, <1>4 DEF Environment, StoreMessage, LinkChild, Upgrade, vars, results
<1> QED
  BY <1>1, <1>2, <1>3, <1>4 DEF Next

\* "Latest run wins": whatever order runs save in, fail and are killed in, what
\* readers see of a message only ever moves to the whole answer of a newer run.
THEOREM ExtractionImplementsGenerations == Spec => ImplementsGenerations
<1>1. Init => Latest!GenInit
  <2> SUFFICES ASSUME Init, NEW m \in Msg
               PROVE  NewestRun(m) = 0 /\ {x.event : x \in CurrentEvents(m)} = {}
    BY DEF Latest!GenInit, Latest!NoGeneration
  <2>1. coverage = {} /\ events = {}
    BY DEF Init
  <2>2. CurrentEvents(m) = {}
    BY <2>1 DEF CurrentEvents
  <2> QED
    BY <2>1, <2>2 DEF NewestRun, Newest
<1>2. Init => NewestInv
  BY DEF Init, NewestInv
<1>3. TypeOK /\ CoverInv /\ NewestInv /\ [Next]_vars
         => [Latest!GenNext]_([m \in Msg |-> [run |-> NewestRun(m),
               events |-> {x.event : x \in CurrentEvents(m)}]])
  BY GenerationStep DEF ShownGenerations, Shown
<1> QED
  BY <1>1, <1>2, <1>3, TypeCorrect, CoverHolds, NewestStep, PTL
     DEF Spec, ImplementsGenerations, Latest!GenSpec

-----------------------------------------------------------------------------
(* The audience of events.                                                  *)

\* Rows of extraction_runs are only added; of a row, only `finished` changes.
LEMMA RunRows ==
    ASSUME TypeOK, [Next]_vars
    PROVE  \A r \in 1 .. Len(runs) :
              /\ r \in 1 .. Len(runs')
              /\ runs'[r].ver = runs[r].ver /\ runs'[r].linked = runs[r].linked
<1>t. runs \in Seq(RunRow) /\ Len(runs) \in Nat
  BY DEF TypeOK, RunRow
<1>1. CASE UNCHANGED runs
  BY <1>1
<1>2. ASSUME NEW p \in Process, runs' = Append(runs, [ver |-> bin[p], finished |-> FALSE, linked |-> kids])
      PROVE  \A r \in 1 .. Len(runs) : r \in 1 .. Len(runs') /\ runs'[r] = runs[r]
  <2> DEFINE new == [ver |-> bin[p], finished |-> FALSE, linked |-> kids]
  <2> HIDE DEF new
  <2>1. runs' = Append(runs, new)
    BY <1>2 DEF new
  <2>2. new \in RunRow
    BY DEF new, RunRow, TypeOK
  <2> QED
    BY <1>t, <2>1, <2>2
<1>3. ASSUME NEW p \in Process, FinishRun(p), runs' = [runs EXCEPT ![run[p]].finished = TRUE]
      PROVE  \A r \in 1 .. Len(runs) :
                /\ r \in 1 .. Len(runs')
                /\ runs'[r].ver = runs[r].ver /\ runs'[r].linked = runs[r].linked
  <2>1. run[p] \in 1 .. Len(runs) /\ runs[run[p]] \in RunRow
    BY <1>3, <1>t DEF FinishRun, TypeOK, Running
  <2>2. PICK new : /\ runs' = [runs EXCEPT ![run[p]] = new]
                   /\ new.ver = runs[run[p]].ver /\ new.linked = runs[run[p]].linked
    <3> DEFINE old == runs[run[p]]
    <3>1. runs' = [runs EXCEPT ![run[p]] = [old EXCEPT !.finished = TRUE]]
      BY <1>3
    <3>2. old \in RunRow
      BY <2>1
    <3> HIDE DEF old
    <3>3. /\ [old EXCEPT !.finished = TRUE].ver = old.ver
          /\ [old EXCEPT !.finished = TRUE].linked = old.linked
      BY <3>2 DEF RunRow
    <3> QED
      BY <3>1, <3>3 DEF old
  <2> QED
    BY <1>t, <2>1, <2>2
<1>4. ASSUME NEW p \in Process, PassStep(p) \/ Signal(p) \/ Crash(p)
      PROVE  \/ UNCHANGED runs
             \/ runs' = Append(runs, [ver |-> bin[p], finished |-> FALSE, linked |-> kids])
             \/ FinishRun(p) /\ runs' = [runs EXCEPT ![run[p]].finished = TRUE]
  BY <1>4 DEF PassStep, SelectPending, SelectReextract, StartRun, NextMessage, Answered,
     CallFailed, Panic, Cancelled, MarkFailed, ReadChildren, SaveEvents, MarkDone,
     FinishRun, Signal, Crash, results
<1>5. CASE Environment \/ UNCHANGED vars
  BY <1>1, <1>5 DEF Environment, StoreMessage, LinkChild, Upgrade, vars, results
<1> QED
  BY <1>1, <1>2, <1>3, <1>4, <1>5 DEF Next

\* A new row records the links and the binary of the moment.
LEMMA NewRow ==
    ASSUME TypeOK, NEW p \in Process, PassStep(p) \/ Signal(p) \/ Crash(p),
           NEW r \in 1 .. Len(runs'), r \notin 1 .. Len(runs)
    PROVE  /\ StartRun(p) /\ r = Len(runs') /\ runs'[r].linked = kids
           /\ runs'[r].ver = bin[p] /\ UNCHANGED <<coverage, events, audience, bin>>
<1>t. runs \in Seq(RunRow) /\ Len(runs) \in Nat
  BY DEF TypeOK, RunRow
<1>1. ~(Len(runs') = Len(runs))
  OBVIOUS
<1>2. CASE FinishRun(p)
  <2>1. Len(runs') = Len(runs)
    BY <1>2, <1>t DEF FinishRun
  <2> QED
    BY <1>1, <2>1
<1>3. CASE StartRun(p)
  <2>1. /\ runs' = Append(runs, [ver |-> bin[p], finished |-> FALSE, linked |-> kids])
        /\ UNCHANGED <<coverage, events, audience, bin>>
    BY <1>1, <1>3 DEF StartRun
  <2> DEFINE new == [ver |-> bin[p], finished |-> FALSE, linked |-> kids]
  <2>2. new \in RunRow /\ new.linked = kids /\ new.ver = bin[p]
    BY DEF RunRow, TypeOK
  <2> HIDE DEF new
  <2>3. runs' = Append(runs, new)
    BY <2>1 DEF new
  <2>4. r = Len(runs) + 1 /\ Len(runs') = Len(runs) + 1 /\ runs'[r] = new
    BY <1>t, <2>2, <2>3
  <2> QED
    BY <1>3, <2>1, <2>2, <2>4
<1> QED
  BY <1>1, <1>2, <1>3 DEF PassStep, SelectPending, SelectReextract, NextMessage, Answered,
     CallFailed, Panic, Cancelled, MarkFailed, ReadChildren, SaveEvents, MarkDone,
     Signal, Crash, results

\* p reads the children of its message, or keeps what it has read.
LEMMA ReaderSteps ==
    ASSUME TypeOK, NEW p \in Process, PassStep(p) \/ Signal(p) \/ Crash(p)
    PROVE  /\ kids' = kids
           /\ \A q \in Process : q # p => readers'[q] = readers[q]
           /\ pc'[p] = "save" =>
                 /\ run'[p] = run[p] /\ cur'[p] = cur[p] /\ UNCHANGED runs
                 /\ readers'[p] = kids[cur[p]] \/ (pc[p] = "save" /\ readers'[p] = readers[p])
           /\ Saves(p) \/ UNCHANGED <<audience, events>>
<1>t. /\ pc \in [Process -> Step] /\ readers \in [Process -> SUBSET Child]
  BY DEF TypeOK
<1> DEFINE Goal == /\ kids' = kids
                   /\ \A q \in Process : q # p => readers'[q] = readers[q]
                   /\ pc'[p] = "save" =>
                         /\ run'[p] = run[p] /\ cur'[p] = cur[p] /\ UNCHANGED runs
                         /\ readers'[p] = kids[cur[p]] \/ (pc[p] = "save" /\ readers'[p] = readers[p])
                   /\ Saves(p) \/ UNCHANGED <<audience, events>>
<1>1. ASSUME UNCHANGED <<kids, audience, events>>, pc'[p] # "save",
             \A q \in Process : q # p => readers'[q] = readers[q]
      PROVE  Goal
  BY <1>1
<1> USE DEF store, results
<1>2. CASE SelectPending(p) \/ SelectReextract(p)
  BY <1>1, <1>2, <1>t DEF SelectPending, SelectReextract, GoTo
<1>3. CASE StartRun(p)
  BY <1>1, <1>3, <1>t DEF StartRun, GoTo, EndPass
<1>4. CASE NextMessage(p)
  <2>1. pc'[p] # "save"
    BY <1>4, <1>t DEF NextMessage, GoTo
  <2> QED
    BY <1>1, <1>4, <2>1 DEF NextMessage
<1>5. CASE Answered(p) \/ CallFailed(p) \/ Cancelled(p)
  <2>1. pc'[p] # "save"
    BY <1>5, <1>t DEF Answered, CallFailed, Cancelled, GoTo
  <2>2. UNCHANGED <<kids, audience, events, readers>>
    BY <1>5 DEF Answered, CallFailed, Cancelled, locals
  <2> QED
    BY <1>1, <2>1, <2>2
<1>6. CASE Panic(p) \/ Crash(p)
  BY <1>1, <1>6, <1>t DEF Panic, Crash, EndPass, GoTo
<1>7. CASE FinishRun(p)
  BY <1>1, <1>7, <1>t DEF FinishRun, EndPass, GoTo
<1>8. CASE MarkFailed(p) \/ MarkDone(p)
  <2>1. \E step \in {"next", "finish"} : LeaveMessage(p, step)
    BY <1>8 DEF MarkFailed, MarkDone
  <2>2. UNCHANGED <<kids, audience, events>>
    BY <1>8 DEF MarkFailed, MarkDone, ChargeAttempt
  <2> QED
    BY <1>1, <2>1, <2>2, <1>t DEF LeaveMessage, GoTo
<1>9. CASE ReadChildren(p)
  <2>1. CASE LeaveMessage(p, "next")
    BY <1>1, <1>9, <2>1, <1>t DEF ReadChildren, LeaveMessage, GoTo
  <2>2. CASE readers' = [readers EXCEPT ![p] = kids[cur[p]]] /\ UNCHANGED cur
    <3>1. readers'[p] = kids[cur[p]] /\ \A q \in Process : q # p => readers'[q] = readers[q]
      BY <2>2, <1>t
    <3>2. UNCHANGED <<kids, audience, events, runs, run, cur>>
      BY <1>9, <2>2 DEF ReadChildren
    <3> QED
      BY <3>1, <3>2
  <2> QED
    BY <1>9, <2>1, <2>2 DEF ReadChildren
<1>10. CASE SaveEvents(p)
  <2>1. CASE LeaveMessage(p, "next") /\ UNCHANGED <<coverage, events, audience>>
    BY <1>1, <1>10, <2>1, <1>t DEF SaveEvents, LeaveMessage, GoTo
  <2>2. CASE /\ Publish(run[p], cur[p], answer[p], readers[p])
             /\ GoTo(p, "done") /\ UNCHANGED <<todo, cur, answer, readers>>
    BY <1>10, <2>2, <1>t DEF SaveEvents, GoTo, Saves
  <2> QED
    BY <1>10, <2>1, <2>2 DEF SaveEvents
<1>11. CASE Signal(p)
  BY <1>11 DEF Signal
<1> QED
  BY <1>2, <1>3, <1>4, <1>5, <1>6, <1>7, <1>8, <1>9, <1>10, <1>11 DEF PassStep

ReaderInv == LinkInv /\ ReachesLinkedChildren

LEMMA ReaderStep ==
    TypeOK /\ CoverInv /\ ReaderInv /\ [Next]_vars => ReaderInv'
<1> SUFFICES ASSUME TypeOK, CoverInv, ReaderInv, [Next]_vars
             PROVE  ReaderInv'
  OBVIOUS
<1> DEFINE Rows == \A r \in 1 .. Len(runs), m \in Msg : runs[r].linked[m] \subseteq kids[m]
           Holds(q) == pc[q] = "save" => runs[run[q]].linked[cur[q]] \subseteq readers[q]
           Reaches(x) == IF x.event \in Guardian THEN \A c \in Child : <<x, c>> \notin audience
                         ELSE \A c \in runs[x.run].linked[x.msg] : <<x, c>> \in audience
<1>t. /\ \A q \in Process : pc[q] \in Running => run[q] \in 1 .. Len(runs)
      /\ \A q \in Process : pc[q] = "save" => pc[q] \in Running
      /\ Len(runs) \in Nat
  BY DEF TypeOK, Running, Handling
<1>e. \A x \in events : x.run \in 1 .. Len(runs) /\ x.msg \in Msg
  <2> SUFFICES ASSUME NEW x \in events
               PROVE  x.run \in 1 .. Len(runs) /\ x.msg \in Msg
    OBVIOUS
  <2>1. x.run \in Run /\ x.msg \in Msg
    BY DEF TypeOK, EventRow
  <2>2. <<x.run, x.msg>> \in coverage
    BY DEF CoverInv
  <2>3. \A k \in coverage : k[1] <= Len(runs)
    BY DEF CoverInv
  <2>4. x.run <= Len(runs)
    BY <2>2, <2>3
  <2> QED
    BY <2>1, <2>4, <1>t DEF Run
<1>r. \A r \in 1 .. Len(runs) : /\ r \in 1 .. Len(runs')
                                /\ runs'[r].linked = runs[r].linked
  BY RunRows
<1>i. /\ Rows /\ \A q \in Process : Holds(q)
      /\ \A k \in audience : k[1].event \notin Guardian
      /\ \A x \in events : Reaches(x)
  BY DEF ReaderInv, LinkInv, ReachesLinkedChildren
<1>x. ASSUME UNCHANGED <<audience, events>>
      PROVE  /\ \A k \in audience' : k[1].event \notin Guardian
             /\ \A x \in events' : Reaches(x)'
  BY <1>x, <1>i, <1>e, <1>r
<1>1. ASSUME NEW p \in Process, PassStep(p) \/ Signal(p) \/ Crash(p)
      PROVE  ReaderInv'
  <2>1. Rows'
    <3> SUFFICES ASSUME NEW r \in 1 .. Len(runs'), NEW m \in Msg
                 PROVE  runs'[r].linked[m] \subseteq kids'[m]
      OBVIOUS
    <3>1. kids' = kids
      BY <1>1, ReaderSteps
    <3>2. CASE r \in 1 .. Len(runs)
      BY <1>i, <1>r, <3>1, <3>2
    <3>3. CASE r \notin 1 .. Len(runs)
      <4>1. runs'[r].linked = kids
        BY <1>1, <3>3, NewRow
      <4> QED
        BY <3>1, <4>1
    <3> QED
      BY <3>2, <3>3
  <2>2. ASSUME NEW q \in Process
        PROVE  Holds(q)'
    <3>1. CASE q # p
      <4>1. /\ pc'[q] = pc[q] /\ run'[q] = run[q] /\ cur'[q] = cur[q]
            /\ readers'[q] = readers[q]
        BY <1>1, <2>2, <3>1, RunSteps, ReaderSteps
      <4> QED
        BY <1>t, <1>i, <1>r, <4>1
    <3>2. CASE q = p
      <4> SUFFICES ASSUME pc'[p] = "save"
                   PROVE  runs'[run'[p]].linked[cur'[p]] \subseteq readers'[p]
        BY <3>2
      <4>1. /\ run'[p] = run[p] /\ cur'[p] = cur[p] /\ UNCHANGED runs
            /\ readers'[p] = kids[cur[p]] \/ (pc[p] = "save" /\ readers'[p] = readers[p])
        BY <1>1, ReaderSteps
      <4>2. CASE pc[p] = "save" /\ readers'[p] = readers[p]
        BY <1>i, <4>1, <4>2
      <4>3. CASE readers'[p] = kids[cur[p]]
        <5>1. pc'[p] \in Handling /\ TypeOK'
          BY TypeStep DEF Handling
        <5>2. cur'[p] \in Msg /\ run'[p] \in 1 .. Len(runs')
          BY <5>1 DEF TypeOK, Running
        <5> QED
          BY <1>i, <4>1, <4>3, <5>2
      <4> QED
        BY <4>1, <4>2, <4>3
    <3> QED
      BY <3>1, <3>2
  <2>3. CASE UNCHANGED <<audience, events>>
    BY <1>x, <2>1, <2>2, <2>3 DEF ReaderInv, LinkInv, ReachesLinkedChildren
  <2>4. CASE Saves(p)
    <3> DEFINE r == run[p]
               c == cur[p]
               cs == readers[p]
               new == {[run |-> r, msg |-> c, event |-> e] : e \in answer[p]}
               fan == {x \in new : x.event \notin Guardian} \X cs
    <3>1. events' = events \cup new /\ audience' = audience \cup fan /\ UNCHANGED runs
      BY <2>4 DEF Saves, Publish
    <3>2. \A x \in new : x.run = r /\ x.msg = c
      OBVIOUS
    <3>3. runs[r].linked[c] \subseteq cs
      BY <2>4, <1>i DEF Saves
    <3>4. \A x \in events : ~(x.run = r /\ x.msg = c)
      <4>1. pc[p] = "save" /\ c \in todo[p] /\ pc[p] \in Running
        BY <2>4 DEF Saves, TypeOK, Running, Handling
      <4> QED
        BY <4>1 DEF CoverInv
    <3> HIDE DEF r, c, cs, new
    <3>5. \A k \in audience' : k[1].event \notin Guardian
      BY <1>i, <3>1
    <3>6. ASSUME NEW x \in events'
          PROVE  Reaches(x)'
      <4>1. CASE x \in events
        <5>1. CASE x.event \in Guardian
          <6>1. \A d \in Child : <<x, d>> \notin fan
            BY <5>1
          <6> QED
            BY <1>i, <3>1, <4>1, <5>1, <6>1
        <5>2. CASE x.event \notin Guardian
          BY <1>i, <3>1, <4>1, <5>2
        <5> QED
          BY <5>1, <5>2
      <4>2. CASE x \in new
        <5>1. CASE x.event \in Guardian
          BY <3>5, <5>1
        <5>2. CASE x.event \notin Guardian
          <6>1. \A d \in cs : <<x, d>> \in fan
            BY <4>2, <5>2
          <6> QED
            BY <3>1, <3>2, <3>3, <4>2, <5>2, <6>1
        <5> QED
          BY <5>1, <5>2
      <4> QED
        BY <3>1, <4>1, <4>2
    <3> QED
      BY <2>1, <2>2, <3>5, <3>6 DEF ReaderInv, LinkInv, ReachesLinkedChildren
  <2> QED
    BY <1>1, <2>3, <2>4, ReaderSteps
<1>2. CASE Environment \/ UNCHANGED vars
  <2>1. UNCHANGED <<runs, pc, run, cur, readers, audience, events>>
    BY <1>2 DEF Environment, StoreMessage, LinkChild, Upgrade, vars, results, locals
  <2>2. \A m \in Msg : kids[m] \subseteq kids'[m]
    BY <1>2 DEF Environment, StoreMessage, LinkChild, Upgrade, vars, store, TypeOK
  <2> QED
    BY <1>i, <1>x, <2>1, <2>2 DEF ReaderInv, LinkInv, ReachesLinkedChildren
<1> QED
  BY <1>1, <1>2 DEF Next

\* Events for the children reach every child linked when their run began, and
\* events for the guardians reach none, however long runs and links interleave.
THEOREM ReadersReached == Spec => []ReachesLinkedChildren
<1>1. Init => ReaderInv
  BY DEF Init, ReaderInv, LinkInv, ReachesLinkedChildren
<1>2. ReaderInv => ReachesLinkedChildren
  BY DEF ReaderInv
<1> QED
  BY <1>1, <1>2, TypeCorrect, CoverHolds, ReaderStep, PTL DEF Spec

-----------------------------------------------------------------------------
(* The recorded extract_ver is never newer than the answer shown.           *)

\* p marks its message as answered by its version.
Marks(p) ==
    /\ pc[p] = "done"
    /\ ver' = [ver EXCEPT ![cur[p]] = bin[p]]
    /\ \A m \in Msg : m # cur[p] => state'[m] = state[m]
    /\ todo' = [todo EXCEPT ![p] = @ \ {cur[p]}]
    /\ UNCHANGED <<coverage, events, bin>>

LEMMA VersionSteps ==
    ASSUME TypeOK, NEW p \in Process, PassStep(p) \/ Signal(p) \/ Crash(p)
    PROVE  /\ version' = version
           /\ \A q \in Process : q # p => bin'[q] = bin[q]
           /\ pc[p] # "idle" => bin' = bin /\ todo'[p] \subseteq todo[p]
           /\ pc[p] = "idle" /\ p \in Reextractor => bin'[p] = version
           /\ bin'[p] \in {bin[p], version}
           /\ \/ UNCHANGED ver /\ \A m \in Msg : state'[m] = "done" => state[m] = "done"
              \/ Marks(p)
<1>t. /\ bin \in [Process -> Ver] /\ todo \in [Process -> SUBSET Msg]
      /\ pc[p] \in Handling => cur[p] \in Msg
      /\ state \in [Msg -> {"absent", "pending", "skipped", "done", "failed"}]
  BY DEF TypeOK
<1> DEFINE Kept == UNCHANGED ver /\ \A m \in Msg : state'[m] = "done" => state[m] = "done"
           Goal == /\ version' = version
                   /\ \A q \in Process : q # p => bin'[q] = bin[q]
                   /\ pc[p] # "idle" => bin' = bin /\ todo'[p] \subseteq todo[p]
                   /\ pc[p] = "idle" /\ p \in Reextractor => bin'[p] = version
                   /\ bin'[p] \in {bin[p], version}
                   /\ Kept \/ Marks(p)
<1>1. ASSUME pc[p] # "idle", UNCHANGED <<version, bin>>, todo'[p] \subseteq todo[p],
             Kept \/ Marks(p)
      PROVE  Goal
  BY <1>1
<1> USE DEF store
<1>2. CASE SelectPending(p)
  <2>1. p \notin Reextractor
    BY <1>2, ExtractionAssumption DEF SelectPending
  <2>2. PICK v \in {bin[p], version} : bin' = [bin EXCEPT ![p] = v]
    BY <1>2 DEF SelectPending
  <2>3. pc[p] = "idle" /\ UNCHANGED <<version, ver, state>>
    BY <1>2 DEF SelectPending
  <2> QED
    BY <2>1, <2>2, <2>3, <1>t
<1>3. CASE SelectReextract(p)
  BY <1>3, <1>t DEF SelectReextract
<1>4. CASE MarkFailed(p)
  <2>1. pc[p] # "idle" /\ UNCHANGED <<version, bin>> /\ todo'[p] \subseteq todo[p]
    BY <1>4, <1>t DEF MarkFailed, LeaveMessage
  <2>2. Kept
    <3>1. CASE ChargeAttempt(cur[p])
      <4>1. cur[p] \in Msg
        BY <1>4, <1>t DEF MarkFailed, Handling
      <4> QED
        BY <3>1, <4>1, <1>t DEF ChargeAttempt
    <3>2. CASE UNCHANGED store
      BY <3>2
    <3> QED
      BY <1>4, <3>1, <3>2 DEF MarkFailed
  <2> QED
    BY <1>1, <2>1, <2>2
<1>5. CASE MarkDone(p)
  <2>1. pc[p] = "done" /\ pc[p] # "idle" /\ UNCHANGED <<version, bin, coverage, events>>
    BY <1>5 DEF MarkDone, results
  <2>2. todo' = [todo EXCEPT ![p] = @ \ {cur[p]}]
    BY <1>5 DEF MarkDone, LeaveMessage
  <2>3. CASE UNCHANGED <<state, ver>>
    BY <1>1, <2>1, <2>2, <2>3, <1>t
  <2>4. CASE state' = [state EXCEPT ![cur[p]] = "done"] /\ ver' = [ver EXCEPT ![cur[p]] = bin[p]]
    <3>1. Marks(p)
      BY <2>1, <2>2, <2>4, <1>t DEF Marks
    <3> QED
      BY <1>1, <2>1, <2>2, <3>1, <1>t
  <2> QED
    BY <1>5, <2>3, <2>4 DEF MarkDone
<1>6. CASE StartRun(p)
  <2>1. UNCHANGED bin /\ todo'[p] \subseteq todo[p]
    BY <1>6, <1>t DEF StartRun, EndPass
  <2> QED
    BY <1>1, <1>6, <2>1 DEF StartRun
<1>7. CASE Panic(p) \/ FinishRun(p) \/ Crash(p)
  <2>1. UNCHANGED bin /\ todo'[p] \subseteq todo[p]
    BY <1>7, <1>t DEF Panic, FinishRun, Crash, EndPass
  <2>2. pc[p] # "idle" /\ UNCHANGED <<version, store>>
    BY <1>7 DEF Panic, FinishRun, Crash
  <2> QED
    BY <1>1, <2>1, <2>2
<1>8. CASE ReadChildren(p) \/ SaveEvents(p)
  <2>1. todo'[p] \subseteq todo[p]
    BY <1>8, <1>t DEF ReadChildren, SaveEvents, LeaveMessage
  <2>2. pc[p] # "idle" /\ UNCHANGED <<version, bin, store>>
    BY <1>8 DEF ReadChildren, SaveEvents
  <2> QED
    BY <1>1, <2>1, <2>2
<1>9. CASE NextMessage(p) \/ Answered(p) \/ CallFailed(p) \/ Cancelled(p) \/ Signal(p)
  <2>1. pc[p] # "idle" /\ UNCHANGED <<version, bin, todo, store>>
    BY <1>9 DEF NextMessage, Answered, CallFailed, Cancelled, Signal, locals
  <2> QED
    BY <1>1, <2>1
<1> QED
  BY <1>2, <1>3, <1>4, <1>5, <1>6, <1>7, <1>8, <1>9 DEF PassStep

\* No two processes hold the same message, if there is one of a kind.
LEMMA HoldApart ==
    ASSUME Single(Extractor), Single(Reextractor), HoldInv,
           NEW p \in Process, NEW q \in Process, q # p, NEW m \in todo[p]
    PROVE  m \notin todo[q]
BY DEF HoldInv, Process, Single

ShownInv == VersionInv /\ VersionIsShown

LEMMA VersionStep ==
    ASSUME Single(Extractor), Single(Reextractor),
           TypeOK, CoverInv, HoldInv, ShownInv, [Next]_vars
    PROVE  ShownInv'
<1> DEFINE Ahead(q) == \A k \in coverage : k[2] \in todo[q] => k[1] <= run[q]
           Runs(q) == pc[q] \in Running => runs[run[q]].ver = bin[q] /\ Ahead(q)
           Fresh(q) == \A m \in todo[q] : ver[m] <= bin[q]
           Shows(m) == \E r \in 1 .. Len(runs) : Newest(r, m) /\ ver[m] <= runs[r].ver
<1>t. /\ \A q \in Process : pc[q] \in Running => run[q] \in 1 .. Len(runs)
      /\ \A q \in Process : pc[q] \in Handling => cur[q] \in todo[q] /\ cur[q] \in Msg
      /\ \A q \in Process : bin[q] \in Nat /\ todo[q] \subseteq Msg
      /\ \A m \in Msg : ver[m] \in Nat
      /\ Len(runs) \in Nat /\ version \in Nat
      /\ \A k \in coverage : k[1] \in Nat /\ k = <<k[1], k[2]>>
      /\ todo \in [Process -> SUBSET Msg] /\ ver \in [Msg -> Ver \cup {0}]
  BY DEF TypeOK, Ver, Run
<1>i. /\ \A m \in Msg : ver[m] <= version
      /\ \A q \in Process : bin[q] <= version /\ Runs(q)
      /\ \A q \in Reextractor : Fresh(q)
      /\ \A m \in Msg : state[m] = "done" => Shows(m)
  BY DEF ShownInv, VersionInv, VersionIsShown
<1>r. \A r \in 1 .. Len(runs) : r \in 1 .. Len(runs') /\ runs'[r].ver = runs[r].ver
  BY RunRows
<1>1. ASSUME NEW p \in Process, PassStep(p) \/ Signal(p) \/ Crash(p)
      PROVE  ShownInv'
  <2>0. /\ \A q \in Process : q # p => /\ pc'[q] = pc[q] /\ run'[q] = run[q]
                                       /\ todo'[q] = todo[q] /\ bin'[q] = bin[q]
        /\ version' = version
    BY <1>1, RunSteps, VersionSteps
  <2>1. \A m \in Msg : ver'[m] <= version'
    <3>1. CASE UNCHANGED ver
      BY <1>i, <2>0, <3>1
    <3>2. CASE Marks(p)
      BY <1>i, <1>t, <2>0, <3>2 DEF Marks
    <3> QED
      BY <1>1, <3>1, <3>2, VersionSteps
  <2>2. \A q \in Process : bin'[q] <= version'
    <3>1. bin'[p] \in {bin[p], version}
      BY <1>1, VersionSteps
    <3> QED
      BY <1>i, <1>t, <2>0, <3>1
  <2>3. Runs(p)'
    <3>1. CASE Opens(p)
      <4>1. Len(runs') = Len(runs) + 1 /\ run'[p] = Len(runs') /\ UNCHANGED coverage
        BY <3>1 DEF Opens
      <4>2. runs'[Len(runs')].ver = bin[p] /\ UNCHANGED bin
        <5>1. Len(runs') \in 1 .. Len(runs') /\ Len(runs') \notin 1 .. Len(runs)
          BY <1>t, <4>1
        <5> QED
          BY <1>1, <5>1, NewRow
      <4>3. Ahead(p)'
        BY <1>t, <4>1 DEF CoverInv
      <4> QED
        BY <4>1, <4>2, <4>3
    <3>2. CASE GoesOn(p)
      <4>1. pc[p] # "idle" /\ pc[p] \in Running
        BY <3>2 DEF GoesOn, Running, Handling
      <4>2. bin' = bin
        BY <1>1, <4>1, VersionSteps
      <4> QED
        BY <1>i, <3>2, <4>1, <4>2 DEF GoesOn
    <3>3. CASE Outside(p)
      BY <3>3 DEF Outside
    <3>4. CASE Saves(p)
      <4>1. pc[p] # "idle" /\ pc[p] \in Running /\ UNCHANGED <<runs, run, todo>>
        BY <3>4 DEF Saves, Running, Handling
      <4>2. bin' = bin
        BY <1>1, <4>1, VersionSteps
      <4>3. coverage' = coverage \cup {<<run[p], cur[p]>>}
        BY <3>4 DEF Saves, Publish
      <4> QED
        BY <1>i, <1>t, <4>1, <4>2, <4>3
    <3>5. CASE Rests
      <4>1. pc[p] \in Running => pc[p] # "idle"
        BY DEF Running, Handling
      <4>2. pc[p] \in Running => bin' = bin
        BY <1>1, <4>1, VersionSteps
      <4> QED
        BY <1>i, <3>5, <4>2 DEF Rests
    <3> QED
      BY <1>1, <3>1, <3>2, <3>3, <3>4, <3>5, RunSteps
  <2>4. ASSUME NEW q \in Process, q # p
        PROVE  Runs(q)'
    <3>1. ASSUME pc[q] \in Running
          PROVE  runs'[run'[q]].ver = bin'[q]
      BY <1>i, <1>t, <1>r, <2>0, <2>4, <3>1
    <3>2. CASE UNCHANGED coverage
      BY <1>i, <2>0, <2>4, <3>1, <3>2
    <3>3. CASE Saves(p)
      <4>1. coverage' = coverage \cup {<<run[p], cur[p]>>} /\ cur[p] \in todo[p]
        BY <1>t, <3>3 DEF Saves, Publish, Handling
      <4>2. cur[p] \notin todo[q]
        BY <2>4, <4>1, HoldApart
      <4> QED
        BY <1>i, <2>0, <2>4, <3>1, <4>1, <4>2
    <3> QED
      BY <1>1, <3>2, <3>3, RunSteps DEF Opens, GoesOn, Outside, Rests
  <2>5. ASSUME NEW q \in Reextractor
        PROVE  Fresh(q)'
    <3>q. q \in Process
      BY DEF Process
    <3>1. CASE q # p
      <4>1. CASE UNCHANGED ver
        BY <1>i, <2>0, <2>5, <3>q, <3>1, <4>1
      <4>2. CASE Marks(p)
        <5>1. cur[p] \notin todo[q] /\ cur[p] \in Msg
          BY <1>t, <3>q, <3>1, <4>2, HoldApart DEF Marks, Handling
        <5>2. \A m \in todo[q] : ver'[m] = ver[m]
          BY <1>t, <3>q, <4>2, <5>1 DEF Marks
        <5> QED
          BY <1>i, <2>0, <2>5, <3>q, <3>1, <5>2
      <4> QED
        BY <1>1, <4>1, <4>2, VersionSteps
    <3>2. CASE q = p /\ pc[p] = "idle"
      <4>1. bin'[p] = version /\ UNCHANGED ver
        BY <1>1, <2>5, <3>2, VersionSteps DEF Marks
      <4>2. todo'[p] \subseteq Msg
        BY TypeStep, <3>q, <3>2 DEF TypeOK
      <4> QED
        BY <1>i, <3>2, <4>1, <4>2
    <3>3. CASE q = p /\ pc[p] # "idle"
      <4>1. bin' = bin /\ todo'[p] \subseteq todo[p]
        BY <1>1, <3>3, VersionSteps
      <4>2. CASE UNCHANGED ver
        BY <1>i, <2>5, <3>3, <4>1, <4>2
      <4>3. CASE Marks(p)
        <5>1. \A m \in todo'[p] : ver'[m] = ver[m]
          BY <1>t, <4>3 DEF Marks
        <5> QED
          BY <1>i, <2>5, <3>3, <4>1, <5>1
      <4> QED
        BY <1>1, <4>2, <4>3, VersionSteps
    <3> QED
      BY <3>1, <3>2, <3>3
  <2>6. ASSUME NEW m \in Msg, state'[m] = "done"
        PROVE  Shows(m)'
    <3>1. ASSUME Shows(m), ver'[m] = ver[m], \A r : Newest(r, m)' <=> Newest(r, m)
          PROVE  Shows(m)'
      BY <1>r, <3>1
    <3>2. CASE Marks(p) /\ m = cur[p]
      <4>1. pc[p] \in Running /\ pc[p] = "done" /\ cur[p] \in todo[p]
        BY <1>t, <3>2 DEF Marks, Running, Handling
      <4>2. run[p] \in 1 .. Len(runs) /\ runs[run[p]].ver = bin[p]
        BY <1>i, <1>t, <4>1
      <4>3. Newest(run[p], m)
        BY <1>i, <3>2, <4>1 DEF Newest, CoverInv
      <4>4. \A r : Newest(r, m)' <=> Newest(r, m)
        BY <3>2 DEF Marks, Newest
      <4>5. ver'[m] = bin[p]
        BY <1>t, <3>2 DEF Marks
      <4> QED
        BY <1>r, <1>t, <4>2, <4>3, <4>4, <4>5
    <3>3. ASSUME ~(Marks(p) /\ m = cur[p])
          PROVE  state[m] = "done" /\ ver'[m] = ver[m]
      BY <1>1, <1>t, <2>6, <3>3, VersionSteps DEF Marks
    <3>4. ASSUME ~(Marks(p) /\ m = cur[p]), UNCHANGED coverage
          PROVE  Shows(m)'
      <4>1. \A r : Newest(r, m)' <=> Newest(r, m)
        BY <3>4 DEF Newest
      <4> QED
        BY <1>i, <3>1, <3>3, <3>4, <4>1
    <3>5. CASE Saves(p)
      <4>1. /\ coverage' = coverage \cup {<<run[p], cur[p]>>} /\ UNCHANGED runs
            /\ pc[p] = "save" /\ pc[p] \in Running /\ cur[p] \in todo[p]
        BY <1>t, <3>5 DEF Saves, Publish, Running, Handling
      <4>2. state[m] = "done" /\ ver'[m] = ver[m]
        BY <3>3, <4>1 DEF Marks
      <4>3. CASE m # cur[p]
        <5>1. PICK r, c : coverage' = coverage \cup {<<r, c>>} /\ c = cur[p]
          BY <4>1
        <5>2. \A s : Newest(s, m)' <=> Newest(s, m)
          BY <4>3, <5>1, NewestElsewhere
        <5> QED
          BY <1>i, <3>1, <4>2, <5>2
      <4>4. CASE m = cur[p]
        <5>1. p \in Reextractor
          BY <4>1, <4>2, <4>4 DEF HoldInv, Process
        <5>2. ver[m] <= runs[run[p]].ver /\ run[p] \in 1 .. Len(runs)
          BY <1>i, <1>t, <4>1, <4>4, <5>1
        <5>3. \A k \in coverage' : k[2] = m => k[1] <= run[p]
          BY <1>i, <1>t, <4>1, <4>4
        <5>4. PICK r \in 1 .. Len(runs) : r = run[p]
          BY <5>2
        <5>5. Newest(r, m)'
          BY <4>1, <4>4, <5>3, <5>4 DEF Newest
        <5> QED
          BY <4>1, <4>2, <5>2, <5>4, <5>5
      <4> QED
        BY <4>3, <4>4
    <3> QED
      BY <1>1, <3>2, <3>4, <3>5, RunSteps DEF Opens, GoesOn, Outside, Rests, Marks
  <2> QED
    BY <2>1, <2>2, <2>3, <2>4, <2>5, <2>6 DEF ShownInv, VersionInv, VersionIsShown
<1>2. CASE Environment \/ UNCHANGED vars
  <2>1. /\ UNCHANGED <<ver, runs, pc, run, todo, bin, coverage>>
        /\ version' = version \/ version' = version + 1
    BY <1>2 DEF Environment, StoreMessage, LinkChild, Upgrade, vars, store, results, locals
  <2>2. \A m \in Msg : state'[m] = "done" => state[m] = "done"
    BY <1>2 DEF Environment, StoreMessage, LinkChild, Upgrade, vars, store, TypeOK
  <2>3. /\ \A m \in Msg : ver[m] <= version'
        /\ \A q \in Process : bin[q] <= version'
    BY <1>i, <1>t, <2>1
  <2>4. \A m \in Msg : Shows(m) => Shows(m)'
    BY <2>1 DEF Newest
  <2>5. \A q \in Process : Runs(q)' /\ (q \in Reextractor => Fresh(q)')
    BY <1>i, <2>1
  <2>6. VersionIsShown'
    BY <1>i, <2>2, <2>4 DEF VersionIsShown
  <2>7. VersionInv'
    BY <2>1, <2>3, <2>5 DEF VersionInv, Process
  <2> QED
    BY <2>6, <2>7 DEF ShownInv
<1> QED
  BY <1>1, <1>2 DEF Next

\* With one extract and one reextract, a message marked with a version shows
\* the answer of that version or a newer one: reextract passes over no message
\* that is stale, whatever is killed between saving an answer and marking it.
THEOREM VersionsShown ==
    ASSUME Single(Extractor), Single(Reextractor)
    PROVE  Spec => []VersionIsShown
<1>1. Init => HoldInv /\ ShownInv
  BY DEF Init, HoldInv, ShownInv, VersionInv, VersionIsShown, Process, Running, Handling
<1>2. TypeOK /\ HoldInv /\ [Next]_vars => HoldInv'
  BY HoldStep
<1>3. TypeOK /\ CoverInv /\ HoldInv /\ ShownInv /\ [Next]_vars => ShownInv'
  BY VersionStep
<1>4. ShownInv => VersionIsShown
  BY DEF ShownInv
<1> QED
  BY <1>1, <1>2, <1>3, <1>4, TypeCorrect, CoverHolds, PTL DEF Spec
=============================================================================
