----------------------------- MODULE BudgetProofs -----------------------------
(***************************************************************************)
(* How many runs Extraction needs to work its queue off, for any number of *)
(* messages, attempts and faults.                                          *)
(***************************************************************************)
EXTENDS ExtractionProofs, FiniteSetTheorems, WellFoundedInduction

\* Every run is paid for: by an attempt of some message, or by a fault.  These
\* are the attempts spent so far, all of them once the message is answered.
Spent == {x \in Msg \X (1 .. MaxAttempts) :
             state[x[1]] = "done" \/ x[2] <= attempts[x[1]]}

\* A run that has not paid yet: it will, unless it ends before it has handled
\* the first message of its batch.
Owing(p) == pc[p] \in Handling \cup {"next"} /\ todo[p] # {} /\ ~stop[p]

Paid == Cardinality(Spent) + faults

\* Only the run under way is owed for, and a signal pays for the run that the
\* pass it interrupts has yet to open.
RunsPaid ==
    /\ Len(runs) <= Paid + 1
    /\ (\A p \in Process : ~Owing(p)) => Len(runs) <= Paid
    /\ \A p \in Process : /\ pc[p] = "start" => todo[p] # {}
                          /\ pc[p] = "start" /\ stop[p] => Len(runs) + 1 <= Paid
                          /\ pc[p] = "idle" => ~stop[p]

-----------------------------------------------------------------------------
(* Sets of numbers and their sizes.                                         *)

\* Every set of naturals that is not empty has a least member.
LEMMA LeastOf ==
    ASSUME NEW S \in SUBSET Nat, S # {}
    PROVE  \E m \in S : \A k \in S : m <= k
<1> DEFINE Less == OpToRel(<, Nat)
<1>1. IsWellFoundedOn(Less, Nat)
  BY NatLessThanWellFounded
<1>2. \A x, y \in Nat : x < y => <<x, y>> \in Less
  BY DEF OpToRel
<1> HIDE DEF Less
<1>3. PICK m \in S : \A k \in S : ~(<<k, m>> \in Less)
  BY <1>1, WFMin
<1>4. \A k \in S : ~(k < m)
  BY <1>2, <1>3
<1> QED
  BY <1>3, <1>4

\* A batch is taken from every queue that is not empty.
LEMMA BatchNotEmpty ==
    ASSUME NEW S \in SUBSET Msg, S # {}
    PROVE  Oldest(Limit, S) # {}
<1>1. Msg \subseteq Nat
  BY ExtractionAssumption DEF Msg
<1>2. PICK m \in S : \A k \in S : m <= k
  BY <1>1, LeastOf
<1>3. {k \in S : k < m} = {}
  <2>1. \A k \in S : k \in Nat /\ m \in Nat /\ m <= k
    BY <1>1, <1>2
  <2>2. \A k \in S : ~(k < m)
    BY <2>1
  <2> QED
    BY <2>2
<1> DEFINE Few(x) == Cardinality({k \in S : k < x}) < Limit
<1>4. Few(m)
  BY <1>3, FS_EmptySet, ExtractionAssumption
<1>5. Oldest(Limit, S) = {x \in S : Few(x)}
  BY DEF Oldest
<1> HIDE DEF Few
<1> QED
  BY <1>2, <1>4, <1>5

LEMMA AttemptsFinite ==
    /\ IsFiniteSet(Msg \X (1 .. MaxAttempts))
    /\ Cardinality(Msg \X (1 .. MaxAttempts)) = NumMsgs * MaxAttempts
<1>1. NumMsgs \in Nat /\ MaxAttempts \in Nat /\ NumMsgs \in Int /\ MaxAttempts \in Int
  BY ExtractionAssumption
<1>2. IsFiniteSet(Msg) /\ Cardinality(Msg) = NumMsgs
  BY <1>1, FS_Interval DEF Msg
<1>3. IsFiniteSet(1 .. MaxAttempts) /\ Cardinality(1 .. MaxAttempts) = MaxAttempts
  BY <1>1, FS_Interval
<1> QED
  BY <1>2, <1>3, FS_Product

LEMMA SpentFinite ==
    /\ IsFiniteSet(Spent) /\ Cardinality(Spent) \in Nat
    /\ IsFiniteSet(Spent)' /\ Cardinality(Spent)' \in Nat
<1>1. ASSUME NEW S \in SUBSET (Msg \X (1 .. MaxAttempts))
      PROVE  IsFiniteSet(S) /\ Cardinality(S) \in Nat
  BY AttemptsFinite, FS_Subset, FS_CardinalityType
<1>2. Spent \in SUBSET (Msg \X (1 .. MaxAttempts))
  BY DEF Spent
<1>3. Spent' \in SUBSET (Msg \X (1 .. MaxAttempts))
  BY DEF Spent
<1> QED
  BY <1>1, <1>2, <1>3

\* A growing set of spent attempts pays as much, and by one more pays one more.
LEMMA SpentGrows ==
    ASSUME Spent \subseteq Spent'
    PROVE  /\ Cardinality(Spent) <= Cardinality(Spent')
           /\ Spent' # Spent => Cardinality(Spent) + 1 <= Cardinality(Spent')
<1> DEFINE S == Spent
           T == Spent'
<1>1. /\ IsFiniteSet(S) /\ Cardinality(S) \in Nat
      /\ IsFiniteSet(T) /\ Cardinality(T) \in Nat /\ S \in SUBSET T
  BY SpentFinite
<1> HIDE DEF S, T
<1>2. Cardinality(S) <= Cardinality(T) /\ (Cardinality(T) = Cardinality(S) => T = S)
  BY <1>1, FS_Subset
<1>3. T # S => Cardinality(S) + 1 <= Cardinality(T)
  BY <1>1, <1>2
<1> QED
  BY <1>2, <1>3 DEF S, T

-----------------------------------------------------------------------------
(* What is spent.                                                           *)

\* Nobody but the one extractor, and no message that it cannot charge.
OneExtractor == Single(Extractor) /\ Reextractor = {} /\ Poison = {}

LEMMA ChargeSpends ==
    ASSUME TypeOK, RetryBudget, NEW m \in Msg, state[m] = "pending", ChargeAttempt(m)
    PROVE  Spent \subseteq Spent' /\ Spent' # Spent
<1>1. /\ attempts[m] \in Nat /\ attempts[m] < MaxAttempts /\ MaxAttempts \in Nat
      /\ state \in [Msg -> {"absent", "pending", "skipped", "done", "failed"}]
      /\ attempts \in [Msg -> 0 .. MaxAttempts]
  BY ExtractionAssumption DEF TypeOK, RetryBudget
<1>2. /\ attempts'[m] = attempts[m] + 1
      /\ state'[m] # "done"
      /\ \A n \in Msg : n # m => state'[n] = state[n] /\ attempts'[n] = attempts[n]
  BY <1>1 DEF ChargeAttempt
<1>3. ASSUME NEW x \in Spent
      PROVE  x \in Spent'
  <2>1. x \in Msg \X (1 .. MaxAttempts) /\ (state[x[1]] = "done" \/ x[2] <= attempts[x[1]])
    BY DEF Spent
  <2>2. x[1] \in Msg /\ x[2] \in Nat
    BY <2>1, <1>1
  <2>3. state'[x[1]] = "done" \/ x[2] <= attempts'[x[1]]
    BY <2>1, <2>2, <1>1, <1>2
  <2> QED
    BY <2>1, <2>3 DEF Spent
<1>4. <<m, attempts[m] + 1>> \in Spent' /\ <<m, attempts[m] + 1>> \notin Spent
  <2>1. <<m, attempts[m] + 1>> \in Msg \X (1 .. MaxAttempts)
    BY <1>1
  <2>2. attempts[m] + 1 <= attempts'[m] /\ ~(attempts[m] + 1 <= attempts[m])
    BY <1>1, <1>2
  <2> QED
    BY <2>1, <2>2 DEF Spent
<1> QED
  BY <1>3, <1>4

LEMMA DoneSpends ==
    ASSUME TypeOK, RetryBudget, NEW m \in Msg, state[m] = "pending",
           state' = [state EXCEPT ![m] = "done"],
           attempts' = [attempts EXCEPT ![m] = 0]
    PROVE  Spent \subseteq Spent' /\ Spent' # Spent
<1>1. /\ attempts[m] \in Nat /\ attempts[m] < MaxAttempts /\ MaxAttempts \in Nat
      /\ state \in [Msg -> {"absent", "pending", "skipped", "done", "failed"}]
      /\ attempts \in [Msg -> 0 .. MaxAttempts]
  BY ExtractionAssumption DEF TypeOK, RetryBudget
<1>2. /\ state'[m] = "done"
      /\ \A n \in Msg : n # m => state'[n] = state[n] /\ attempts'[n] = attempts[n]
  BY <1>1
<1>3. ASSUME NEW x \in Spent
      PROVE  x \in Spent'
  <2>1. x \in Msg \X (1 .. MaxAttempts) /\ (state[x[1]] = "done" \/ x[2] <= attempts[x[1]])
    BY DEF Spent
  <2>2. x[1] \in Msg
    BY <2>1
  <2>3. state'[x[1]] = "done" \/ x[2] <= attempts'[x[1]]
    BY <2>1, <2>2, <1>2
  <2> QED
    BY <2>1, <2>3 DEF Spent
<1>4. <<m, attempts[m] + 1>> \in Spent' /\ <<m, attempts[m] + 1>> \notin Spent
  <2>1. <<m, attempts[m] + 1>> \in Msg \X (1 .. MaxAttempts)
    BY <1>1
  <2>2. ~(attempts[m] + 1 <= attempts[m])
    BY <1>1
  <2> QED
    BY <2>1, <2>2, <1>2 DEF Spent
<1> QED
  BY <1>3, <1>4

\* A message that is stored has spent nothing.
LEMMA StoreSpends ==
    ASSUME TypeOK, NEW m \in Msg, StoreMessage(m)
    PROVE  Spent' = Spent
<1>1. /\ state[m] # "done" /\ state'[m] # "done" /\ UNCHANGED attempts
      /\ \A n \in Msg : n # m => state'[n] = state[n]
  BY DEF StoreMessage, TypeOK
<1> QED
  BY <1>1 DEF Spent

-----------------------------------------------------------------------------
(* Every step keeps RunsPaid.                                               *)

\* A step of p that opens no run, and pays or leaves it as it was.
LEMMA StepPays ==
    ASSUME OneExtractor, TypeOK, RunsPaid, NEW p \in Process, Len(runs') = Len(runs),
           pc'[p] # "start", pc'[p] = "idle" => ~stop'[p],
           faults' \in Nat, Spent \subseteq Spent',
           \/ faults' = faults + 1
           \/ faults' = faults /\ Spent' # Spent
           \/ faults' = faults /\ (Owing(p) => Owing(p)')
           \/ faults' = faults + 1 /\ Spent' # Spent
    PROVE  RunsPaid'
<1> DEFINE c == Cardinality(Spent)
           d == Cardinality(Spent')
<1>1. c \in Nat /\ d \in Nat /\ c <= d /\ (Spent' # Spent => c + 1 <= d)
  BY SpentFinite, SpentGrows
<1>2. faults \in Nat /\ Len(runs) \in Nat
  BY ExtractionAssumption DEF TypeOK
<1>3. Paid = c + faults /\ Paid' = d + faults'
  BY DEF Paid
<1> HIDE DEF c, d
<1>4. \A q \in Process : q = p
  BY DEF OneExtractor, Single, Process
<1>5. Len(runs) <= Paid + 1
  BY DEF RunsPaid
<1>6. Owing(p) \/ Len(runs) <= Paid
  BY <1>4 DEF RunsPaid
<1>7. Len(runs') <= Paid' \/ (Owing(p)' /\ Len(runs') <= Paid' + 1)
  BY <1>1, <1>2, <1>3, <1>5, <1>6
<1>8. Len(runs') <= Paid' + 1
  BY <1>1, <1>2, <1>3, <1>7
<1>9. (\A q \in Process : ~Owing(q)') => Len(runs') <= Paid'
  BY <1>7
<1> QED
  BY <1>4, <1>8, <1>9 DEF RunsPaid

LEMMA PaidStep ==
    ASSUME OneExtractor, TypeOK, HoldInv, RetryBudget, RunsPaid, [Next]_vars
    PROVE  RunsPaid'
<1> USE DEF GoTo
<1>n. /\ faults \in Nat /\ faults + 1 \in Nat /\ Len(runs) \in Nat
      /\ pc \in [Process -> Step] /\ todo \in [Process -> SUBSET Msg]
      /\ stop \in [Process -> BOOLEAN] /\ runs \in Seq(RunRow)
  BY ExtractionAssumption DEF TypeOK, RunRow
<1>s. UNCHANGED <<state, attempts>> => Spent' = Spent
  BY DEF Spent
<1>f. Fault => faults' = faults + 1
  BY DEF Fault
<1>e. ASSUME NEW p \in Process, EndPass(p)
      PROVE  pc'[p] = "idle" /\ ~stop'[p]
  BY <1>e, <1>n DEF EndPass
<1>p. \A p, q \in Process : p = q
  BY DEF OneExtractor, Single, Process
<1>h. ASSUME NEW p \in Process, pc[p] \in Handling
      PROVE  cur[p] \in todo[p] /\ cur[p] \in Msg /\ state[cur[p]] = "pending"
  BY <1>h DEF TypeOK, HoldInv, OneExtractor, Process
<1>1. ASSUME NEW p \in Process, SelectPending(p)
      PROVE  RunsPaid'
  <2>1. /\ pc[p] = "idle" /\ pc'[p] = "start" /\ todo'[p] # {}
        /\ UNCHANGED <<state, attempts, runs, faults, stop>>
    BY <1>1, <1>n, BatchNotEmpty DEF SelectPending, PendingMessages, store, results
  <2>2. Paid' = Paid
    BY <2>1, <1>s DEF Paid
  <2>3. ~stop[p] /\ ~Owing(p)
    BY <2>1 DEF RunsPaid, Owing, Handling
  <2>4. Len(runs) <= Paid
    BY <2>3, <1>p DEF RunsPaid
  <2>5. Len(runs') <= Paid' /\ Len(runs') <= Paid' + 1
    BY <2>1, <2>2, <2>4 DEF RunsPaid
  <2> QED
    BY <2>1, <2>3, <2>5, <1>p DEF RunsPaid
<1>2. ASSUME NEW p \in Process, SelectReextract(p) \/ Panic(p)
      PROVE  FALSE
  BY <1>2 DEF SelectReextract, Panic, OneExtractor
<1>3. ASSUME NEW p \in Process, StartRun(p)
      PROVE  RunsPaid'
  <2>1. pc[p] = "start" /\ UNCHANGED <<state, attempts>>
    BY <1>3 DEF StartRun, store
  <2>2. ~Owing(p) /\ Len(runs) <= Paid /\ todo[p] # {} /\ (stop[p] => Len(runs) + 1 <= Paid)
    <3>1. ~Owing(p)
      BY <2>1 DEF Owing, Handling
    <3> QED
      BY <2>1, <3>1, <1>p DEF RunsPaid
  <2>3. CASE Len(runs') = Len(runs) + 1 /\ pc'[p] = "next" /\ UNCHANGED <<todo, stop, faults>>
    <3>1. Paid' = Paid /\ Paid \in Nat
      BY <2>1, <2>3, <1>s, <1>n, SpentFinite DEF Paid
    <3>2. Len(runs') <= Paid' + 1
      BY <2>2, <2>3, <3>1, <1>n
    <3>3. ~stop[p] => Owing(p)'
      BY <2>2, <2>3 DEF Owing
    <3>4. (\A q \in Process : ~Owing(q)') => Len(runs') <= Paid'
      BY <2>2, <2>3, <3>1, <3>3
    <3> QED
      BY <2>3, <3>2, <3>4, <1>p DEF RunsPaid
  <2>4. CASE Fault /\ EndPass(p) /\ UNCHANGED runs
    BY <2>1, <2>4, <1>s, <1>f, <1>e, <1>n, StepPays
  <2> QED
    BY <1>3, <2>3, <2>4, <1>n DEF StartRun
<1>4. ASSUME NEW p \in Process, NextMessage(p) \/ Answered(p) \/ CallFailed(p) \/ Cancelled(p)
      PROVE  RunsPaid'
  <2>1. /\ UNCHANGED <<state, attempts, runs, todo, stop>>
        /\ pc'[p] \in {"call", "children", "failed", "finish"}
        /\ faults' = faults \/ faults' = faults + 1
    BY <1>4, <1>n, <1>f DEF NextMessage, Answered, CallFailed, Cancelled, Audit, store,
       results, locals
  <2>2. Owing(p) => Owing(p)'
    BY <1>4, <2>1, <1>n DEF NextMessage, Answered, CallFailed, Cancelled, Owing, Handling
  <2> QED
    BY <2>1, <2>2, <1>s, <1>n, StepPays
<1>5. ASSUME NEW p \in Process, MarkFailed(p)
      PROVE  RunsPaid'
  <2>1. /\ pc[p] \in Handling /\ pc'[p] \in {"next", "finish"} /\ UNCHANGED runs
        /\ \/ ChargeAttempt(cur[p]) /\ faults' = faults
           \/ UNCHANGED <<state, attempts>> /\ faults' = faults + 1
    BY <1>5, <1>n, <1>f DEF MarkFailed, LeaveMessage, Handling, store, results
  <2>2. CASE ChargeAttempt(cur[p]) /\ faults' = faults
    BY <2>1, <2>2, <1>h, <1>n, ChargeSpends, StepPays
  <2>3. CASE UNCHANGED <<state, attempts>> /\ faults' = faults + 1
    BY <2>1, <2>3, <1>s, <1>n, StepPays
  <2> QED
    BY <2>1, <2>2, <2>3
<1>6. ASSUME NEW p \in Process, ReadChildren(p) \/ SaveEvents(p)
      PROVE  RunsPaid'
  <2>1. /\ pc[p] \in Handling /\ pc'[p] \in {"save", "done", "next"}
        /\ UNCHANGED <<state, attempts, runs, stop>>
        /\ \/ faults' = faults /\ pc'[p] \in Handling /\ UNCHANGED todo
           \/ faults' = faults + 1
    BY <1>6, <1>n, <1>f DEF ReadChildren, SaveEvents, LeaveMessage, Handling, store, results
  <2>2. faults' = faults => (Owing(p) => Owing(p)')
    BY <2>1, <1>n DEF Owing
  <2> QED
    BY <2>1, <2>2, <1>s, <1>n, StepPays
<1>7. ASSUME NEW p \in Process, MarkDone(p)
      PROVE  RunsPaid'
  <2>1. /\ pc[p] \in Handling /\ pc'[p] \in {"next", "finish"} /\ UNCHANGED runs
        /\ \/ /\ state' = [state EXCEPT ![cur[p]] = "done"]
              /\ attempts' = [attempts EXCEPT ![cur[p]] = 0]
              /\ faults' = faults \/ faults' = faults + 1
           \/ UNCHANGED <<state, attempts>> /\ faults' = faults + 1
    BY <1>7, <1>n, <1>f DEF MarkDone, LeaveMessage, Handling, results
  <2>2. CASE /\ state' = [state EXCEPT ![cur[p]] = "done"]
             /\ attempts' = [attempts EXCEPT ![cur[p]] = 0]
             /\ faults' = faults \/ faults' = faults + 1
    BY <2>1, <2>2, <1>h, <1>n, DoneSpends, StepPays
  <2>3. CASE UNCHANGED <<state, attempts>> /\ faults' = faults + 1
    BY <2>1, <2>3, <1>s, <1>n, StepPays
  <2> QED
    BY <2>1, <2>2, <2>3
<1>8. ASSUME NEW p \in Process, FinishRun(p)
      PROVE  RunsPaid'
  <2>1. /\ pc[p] = "finish" /\ EndPass(p) /\ UNCHANGED <<state, attempts>>
        /\ faults' = faults \/ faults' = faults + 1
    BY <1>8, <1>f DEF FinishRun, store
  <2>2. run[p] \in 1 .. Len(runs)
    BY <2>1 DEF TypeOK, Running
  <2>3. Len(runs') = Len(runs)
    BY <1>8, <2>2, <1>n DEF FinishRun
  <2>4. ~Owing(p)
    BY <2>1 DEF Owing, Handling
  <2> QED
    BY <2>1, <2>3, <2>4, <1>s, <1>e, <1>n, StepPays
<1>9. ASSUME NEW p \in Process, Signal(p)
      PROVE  RunsPaid'
  <2>1. /\ pc[p] # "idle" /\ faults' = faults + 1
        /\ UNCHANGED <<state, attempts, runs, pc, todo>>
    BY <1>9, <1>f DEF Signal, store, results
  <2>2. CASE pc[p] # "start"
    BY <2>1, <2>2, <1>s, <1>n, StepPays
  <2>3. CASE pc[p] = "start"
    <3>1. Paid' = Paid + 1 /\ Paid \in Nat
      BY <2>1, <1>s, <1>n, SpentFinite DEF Paid
    <3>2. ~Owing(p)
      BY <2>3 DEF Owing, Handling
    <3>3. Len(runs) <= Paid /\ todo[p] # {}
      BY <2>3, <3>2, <1>p DEF RunsPaid
    <3>4. Len(runs') + 1 <= Paid' /\ Len(runs') <= Paid' /\ Len(runs') <= Paid' + 1
      BY <2>1, <3>1, <3>3, <1>n
    <3> QED
      BY <2>1, <2>3, <3>3, <3>4, <1>p DEF RunsPaid
  <2> QED
    BY <2>2, <2>3
<1>10. ASSUME NEW p \in Process, Crash(p)
       PROVE  RunsPaid'
  <2>1. EndPass(p) /\ UNCHANGED <<state, attempts, runs>> /\ faults' = faults + 1
    BY <1>10, <1>f DEF Crash, store, results
  <2> QED
    BY <2>1, <1>s, <1>e, <1>n, StepPays
<1>11. CASE Environment \/ UNCHANGED vars
  <2>1. UNCHANGED <<runs, pc, todo, stop, faults>>
    BY <1>11 DEF Environment, StoreMessage, LinkChild, Upgrade, vars, results, locals
  <2>2. Spent' = Spent
    BY <1>11, <1>s, StoreSpends DEF Environment, LinkChild, Upgrade, vars, store
  <2>3. Paid' = Paid /\ \A q \in Process : Owing(q)' = Owing(q)
    BY <2>1, <2>2 DEF Paid, Owing
  <2> QED
    BY <2>1, <2>3 DEF RunsPaid
<1> QED
  BY <1>1, <1>2, <1>3, <1>4, <1>5, <1>6, <1>7, <1>8, <1>9, <1>10, <1>11
     DEF Next, PassStep

\* A message that still waits has an attempt left, so not all are spent.
LEMMA PaidBound ==
    ASSUME TypeOK, RetryBudget, RunsPaid
    PROVE  BudgetIsFinite
<1> SUFFICES ASSUME NEW m \in Msg, state[m] = "pending", \A p \in Process : pc[p] = "idle"
             PROVE  Len(runs) < NumMsgs * MaxAttempts + faults
  BY DEF BudgetIsFinite
<1> DEFINE All == Msg \X (1 .. MaxAttempts)
           x == <<m, MaxAttempts>>
<1>1. attempts[m] \in Nat /\ attempts[m] < MaxAttempts /\ MaxAttempts \in Nat \ {0}
  BY ExtractionAssumption DEF TypeOK, RetryBudget
<1>2. x \in All /\ x \notin Spent /\ Spent \in SUBSET All
  BY <1>1 DEF Spent
<1>3. IsFiniteSet(All) /\ Cardinality(All) = NumMsgs * MaxAttempts
  BY AttemptsFinite
<1>4. Cardinality(Spent) \in Nat /\ IsFiniteSet(Spent)
  BY SpentFinite
<1> HIDE DEF All, x
<1>5. Cardinality(Spent) <= Cardinality(All) /\ Cardinality(Spent) # Cardinality(All)
  <2>1. Cardinality(Spent) <= Cardinality(All)
    BY <1>2, <1>3, FS_Subset
  <2>2. Cardinality(All) = Cardinality(Spent) => All = Spent
    BY <1>2, <1>3, FS_Subset
  <2> QED
    BY <1>2, <2>1, <2>2
<1>6. Cardinality(All) \in Nat
  BY <1>3, FS_CardinalityType
<1>7. Len(runs) <= Paid
  BY DEF RunsPaid, Owing, Handling
<1>8. Len(runs) \in Nat /\ faults \in Nat
  BY ExtractionAssumption DEF TypeOK
<1>9. Len(runs) < Cardinality(All) + faults
  BY <1>4, <1>5, <1>6, <1>7, <1>8 DEF Paid
<1> QED
  BY <1>3, <1>9

\* One extractor, whose answers never kill it, has worked its queue off after at
\* most MaxAttempts runs for each message, and one more for each fault.
THEOREM BudgetSuffices ==
    ASSUME OneExtractor
    PROVE  Spec => []BudgetIsFinite
<1>1. Init => HoldInv /\ RunsPaid
  <2> SUFFICES ASSUME Init PROVE HoldInv /\ RunsPaid
    OBVIOUS
  <2>1. HoldInv
    BY DEF Init, HoldInv, Process
  <2>2. Len(runs) = 0 /\ faults = 0 /\ \A p \in Process : pc[p] = "idle" /\ ~stop[p]
    BY DEF Init
  <2>3. Paid \in Nat
    BY <2>2, SpentFinite DEF Paid
  <2> QED
    BY <2>1, <2>2, <2>3 DEF RunsPaid
<1>2. Single(Extractor) /\ Single(Reextractor)
  BY DEF OneExtractor, Single
<1>3. TypeOK /\ HoldInv /\ [Next]_vars => HoldInv'
  BY <1>2, HoldStep
<1>4. TypeOK /\ HoldInv /\ RetryBudget /\ RunsPaid /\ [Next]_vars => RunsPaid'
  BY PaidStep
<1>5. TypeOK /\ RetryBudget /\ RunsPaid => BudgetIsFinite
  BY PaidBound
<1> QED
  BY <1>1, <1>3, <1>4, <1>5, TypeCorrect, BudgetKept, PTL DEF Spec

-----------------------------------------------------------------------------
(* That a pass comes to its end.                                            *)

LEMMA BatchFinite ==
    ASSUME NEW S \in SUBSET Msg
    PROVE  IsFiniteSet(S) /\ Cardinality(S) \in Nat
<1>1. NumMsgs \in Int
  BY ExtractionAssumption
<1>2. IsFiniteSet(Msg)
  BY <1>1, FS_Interval DEF Msg
<1> QED
  BY <1>2, FS_Subset, FS_CardinalityType

LEMMA OneLess ==
    ASSUME NEW S \in SUBSET Msg, NEW m \in S
    PROVE  /\ Cardinality(S \ {m}) = Cardinality(S) - 1
           /\ Cardinality(S) \in Nat \ {0}
<1>1. IsFiniteSet(S) /\ Cardinality(S) \in Nat
  BY BatchFinite
<1>2. Cardinality(S \ {m}) = Cardinality(S) - 1 /\ Cardinality(S) # 0
  BY <1>1, FS_RemoveElement, FS_EmptySet
<1> QED
  BY <1>1, <1>2

\* The newest of a set of messages.
LEMMA GreatestOf ==
    ASSUME NEW S \in SUBSET Msg, S # {}
    PROVE  \E m \in S : \A k \in S : k <= m
<1> DEFINE T == {NumMsgs - k : k \in S}
<1>1. \A k \in S : k \in Nat /\ NumMsgs - k \in Nat
  BY ExtractionAssumption DEF Msg
<1>2. T \in SUBSET Nat /\ T # {}
  BY <1>1
<1>3. PICK t \in T : \A x \in T : t <= x
  <2> HIDE DEF T
  <2> QED
    BY <1>2, LeastOf
<1>4. PICK m \in S : t = NumMsgs - m
  BY <1>3
<1>5. \A k \in S : NumMsgs - m <= NumMsgs - k
  BY <1>3, <1>4
<1>6. \A k \in S : k <= m
  BY <1>1, <1>5, ExtractionAssumption
<1> QED
  BY <1>6

\* --limit: the newest message of a batch has fewer than Limit older ones.
LEMMA BatchIsLimited ==
    ASSUME NEW S \in SUBSET Msg
    PROVE  Oldest(Limit, S) \in SUBSET Msg /\ Cardinality(Oldest(Limit, S)) <= Limit
<1> DEFINE B == Oldest(Limit, S)
           Before(m) == {k \in S : k < m}
<1>1. B \in SUBSET Msg /\ B \in SUBSET S /\ \A m \in B : Cardinality(Before(m)) < Limit
  BY DEF Oldest
<1> HIDE DEF B
<1>2. Limit \in Nat
  BY ExtractionAssumption
<1>3. CASE B = {}
  BY <1>1, <1>2, <1>3, FS_EmptySet DEF B
<1>4. CASE B # {}
  <2>1. PICK m \in B : \A k \in B : k <= m
    BY <1>1, <1>4, GreatestOf
  <2>2. B \ {m} \in SUBSET Before(m)
    <3>1. \A k \in B \ {m} : k \in Nat /\ m \in Nat /\ k <= m /\ k # m
      BY <1>1, <2>1, ExtractionAssumption DEF Msg
    <3>2. \A k \in B \ {m} : k < m
      BY <3>1
    <3> QED
      BY <1>1, <3>2
  <2>3. Before(m) \in SUBSET Msg
    OBVIOUS
  <2> DEFINE c == Cardinality(B \ {m})
             d == Cardinality(Before(m))
  <2>4. c <= d /\ d \in Nat
    BY <2>2, <2>3, BatchFinite, FS_Subset
  <2>5. c = Cardinality(B) - 1 /\ Cardinality(B) \in Nat
    BY <1>1, <2>1, OneLess
  <2>6. d < Limit
    BY <1>1, <2>1
  <2> HIDE DEF c, d
  <2>7. Cardinality(B) <= Limit
    BY <1>2, <2>4, <2>5, <2>6
  <2> QED
    BY <1>1, <2>7 DEF B
<1> QED
  BY <1>3, <1>4

\* No pass takes on more than --limit messages.
LimitInv == \A p \in Process : Cardinality(todo[p]) <= Limit

\* Steps that a pass still has to go from step s on with t messages left: at most
\* six for each message, and the start and the end.
StepsFrom(s, t) ==
    CASE s = "start"                  -> 6 * t + 3
      [] s = "next"                   -> 6 * t + 2
      [] s = "call"                   -> 6 * t + 1
      [] s \in {"failed", "children"} -> 6 * t
      [] s = "save"                   -> 6 * t - 1
      [] s = "done"                   -> 6 * t - 2
      [] s = "finish"                 -> 1
      [] OTHER                        -> 0

StepsToEnd(p) == StepsFrom(pc[p], Cardinality(todo[p]))

LEMMA StepsFromType ==
    ASSUME NEW s \in Step, NEW t \in Nat, s \in Handling => t # 0
    PROVE  StepsFrom(s, t) \in Nat /\ (s # "idle" => 0 < StepsFrom(s, t))
<1>1. 6 * t \in Nat /\ (t # 0 => 6 * t > 2)
  OBVIOUS
<1> DEFINE l == 6 * t
<1> HIDE DEF l
<1> QED
  BY <1>1 DEF StepsFrom, Handling, Step, l

\* Every step leaves the pass of a process alone, drops it, begins it with a
\* batch, goes on in it or leaves a message behind.
LEMMA PassMoves ==
    ASSUME TypeOK, NEW p \in Process, [Next]_vars
    PROVE  \/ pc'[p] = pc[p] /\ todo'[p] = todo[p] /\ (~PassStep(p) \/ pc[p] = "idle")
           \/ pc'[p] = "idle" /\ todo'[p] = {} /\ pc[p] # "idle"
           \/ /\ pc[p] = "idle"
              /\ \E S \in SUBSET Msg : todo'[p] = Oldest(Limit, S)
           \/ /\ todo'[p] = todo[p]
              /\ <<pc[p], pc'[p]>> \in {<<"start", "next">>, <<"next", "finish">>,
                     <<"next", "call">>, <<"call", "children">>, <<"call", "failed">>,
                     <<"failed", "finish">>, <<"children", "save">>, <<"save", "done">>}
           \/ /\ pc[p] \in Handling \ {"call"}
              /\ todo'[p] = todo[p] \ {cur[p]}
              /\ pc'[p] = "next" \/ (pc'[p] = "finish" /\ pc[p] \in {"failed", "done"})
<1> USE DEF GoTo, Handling
<1>t. /\ pc \in [Process -> Step] /\ todo \in [Process -> SUBSET Msg]
      /\ pc[p] \in Step
  BY DEF TypeOK
<1>e. ASSUME EndPass(p)
      PROVE  pc'[p] = "idle" /\ todo'[p] = {}
  BY <1>e, <1>t DEF EndPass
<1>l. ASSUME NEW s, LeaveMessage(p, s)
      PROVE  pc'[p] = s /\ todo'[p] = todo[p] \ {cur[p]}
  BY <1>l, <1>t DEF LeaveMessage
<1>1. CASE SelectPending(p)
  <2>1. PendingMessages \in SUBSET Msg
    BY DEF PendingMessages
  <2> QED
    BY <1>1, <1>t, <2>1 DEF SelectPending
<1>2. CASE SelectReextract(p)
  <2>1. \A w \in SUBSET Msg, f \in BOOLEAN : ReextractMessages(w, f, version) \in SUBSET Msg
    BY DEF ReextractMessages
  <2> QED
    BY <1>2, <1>t, <2>1 DEF SelectReextract
<1>3. CASE StartRun(p)
  BY <1>3, <1>t, <1>e DEF StartRun
<1>4. CASE NextMessage(p)
  BY <1>4, <1>t DEF NextMessage
<1>5. CASE Answered(p) \/ CallFailed(p) \/ Cancelled(p)
  BY <1>5, <1>t DEF Answered, CallFailed, Cancelled, locals
<1>6. CASE MarkFailed(p)
  BY <1>6, <1>l DEF MarkFailed
<1>7. CASE ReadChildren(p) \/ SaveEvents(p)
  BY <1>7, <1>l, <1>t DEF ReadChildren, SaveEvents
<1>8. CASE MarkDone(p)
  BY <1>8, <1>l DEF MarkDone
<1>9. CASE Panic(p) \/ FinishRun(p) \/ Crash(p)
  BY <1>9, <1>e DEF Panic, FinishRun, Crash
<1>10. ASSUME NEW q \in Process, q # p, PassStep(q) \/ Crash(q)
       PROVE  pc'[p] = pc[p] /\ todo'[p] = todo[p]
  <2>1. (EndPass(q) => pc'[p] = pc[p] /\ todo'[p] = todo[p])
        /\ \A s : LeaveMessage(q, s) => pc'[p] = pc[p] /\ todo'[p] = todo[p]
    BY <1>10, <1>t DEF EndPass, LeaveMessage
  <2>2. CASE SelectPending(q) \/ SelectReextract(q)
    BY <2>2, <1>10, <1>t DEF SelectPending, SelectReextract
  <2>3. CASE StartRun(q) \/ NextMessage(q) \/ Answered(q) \/ CallFailed(q) \/ Cancelled(q)
    BY <2>1, <2>3, <1>10, <1>t
       DEF StartRun, NextMessage, Answered, CallFailed, Cancelled, locals
  <2>4. CASE ReadChildren(q) \/ SaveEvents(q)
    BY <2>1, <2>4, <1>10, <1>t DEF ReadChildren, SaveEvents
  <2>5. CASE MarkFailed(q) \/ MarkDone(q)
    BY <2>1, <2>5 DEF MarkFailed, MarkDone
  <2>6. CASE Panic(q) \/ FinishRun(q) \/ Crash(q)
    BY <2>1, <2>6 DEF Panic, FinishRun, Crash
  <2> QED
    BY <1>10, <2>2, <2>3, <2>4, <2>5, <2>6 DEF PassStep
<1>11. Environment \/ (\E q \in Process : Signal(q)) \/ UNCHANGED vars
           => pc'[p] = pc[p] /\ todo'[p] = todo[p]
  BY DEF Environment, StoreMessage, LinkChild, Upgrade, Signal, locals, vars
<1>12. CASE PassStep(p) \/ Crash(p)
  BY <1>1, <1>2, <1>3, <1>4, <1>5, <1>6, <1>7, <1>8, <1>9, <1>12 DEF PassStep
<1>13. CASE ~PassStep(p) /\ ~Crash(p)
  <2>1. pc'[p] = pc[p] /\ todo'[p] = todo[p]
    BY <1>10, <1>11, <1>13 DEF Next
  <2> QED
    BY <1>13, <2>1
<1> QED
  BY <1>12, <1>13

LEMMA LimitStep == TypeOK /\ LimitInv /\ [Next]_vars => LimitInv'
<1> SUFFICES ASSUME TypeOK, LimitInv, [Next]_vars, NEW p \in Process
             PROVE  Cardinality(todo'[p]) <= Limit
  BY DEF LimitInv
<1>1. /\ todo[p] \in SUBSET Msg /\ Cardinality(todo[p]) <= Limit /\ Limit \in Nat
      /\ pc[p] \in Handling => cur[p] \in todo[p]
  BY ExtractionAssumption DEF TypeOK, LimitInv
<1>2. CASE todo'[p] = todo[p]
  BY <1>1, <1>2
<1>3. CASE todo'[p] = {}
  BY <1>1, <1>3, FS_EmptySet
<1>4. CASE \E S \in SUBSET Msg : todo'[p] = Oldest(Limit, S)
  BY <1>4, BatchIsLimited
<1>5. CASE pc[p] \in Handling /\ todo'[p] = todo[p] \ {cur[p]}
  <2>1. Cardinality(todo[p]) \in Nat
    BY <1>1, BatchFinite
  <2>2. Cardinality(todo'[p]) = Cardinality(todo[p]) - 1
    BY <1>1, <1>5, OneLess
  <2> QED
    BY <1>1, <2>1, <2>2
<1> QED
  BY <1>2, <1>3, <1>4, <1>5, PassMoves

LEMMA StepsGoDown ==
    ASSUME TypeOK, TypeOK', NEW p \in Process, [Next]_vars, pc[p] # "idle"
    PROVE  /\ StepsToEnd(p)' <= StepsToEnd(p)
           /\ PassStep(p) => StepsToEnd(p)' < StepsToEnd(p)
<1> DEFINE t == Cardinality(todo[p])
           u == Cardinality(todo'[p])
<1>1. /\ t \in Nat /\ pc[p] \in Step /\ todo[p] \in SUBSET Msg
      /\ pc[p] \in Handling => cur[p] \in todo[p] /\ t # 0
  BY BatchFinite, OneLess DEF TypeOK
<1>2. u \in Nat /\ pc'[p] \in Step /\ (pc'[p] \in Handling => u # 0)
  BY BatchFinite, OneLess DEF TypeOK
<1>3. /\ StepsFrom(pc[p], t) \in Nat /\ 0 < StepsFrom(pc[p], t)
      /\ StepsFrom(pc'[p], u) \in Nat
  <2> HIDE DEF t, u
  <2> QED
    BY <1>1, <1>2, StepsFromType
<1>4. todo'[p] = todo[p] => u = t
  OBVIOUS
<1>5. pc[p] \in Handling /\ todo'[p] = todo[p] \ {cur[p]} => u = t - 1
  BY <1>1, OneLess
<1> HIDE DEF t, u
<1>6. CASE UNCHANGED <<pc[p], todo[p]>> /\ ~PassStep(p)
  BY <1>3, <1>4, <1>6 DEF StepsToEnd, t, u
<1>7. CASE pc'[p] = "idle"
  <2>1. StepsFrom(pc'[p], u) = 0
    BY <1>7 DEF StepsFrom
  <2> QED
    BY <1>3, <2>1 DEF StepsToEnd, t, u
<1>8. CASE /\ todo'[p] = todo[p]
           /\ <<pc[p], pc'[p]>> \in {<<"start", "next">>, <<"next", "finish">>,
                  <<"next", "call">>, <<"call", "children">>, <<"call", "failed">>,
                  <<"failed", "finish">>, <<"children", "save">>, <<"save", "done">>}
  <2>1. StepsFrom(pc'[p], t) < StepsFrom(pc[p], t)
    BY <1>1, <1>8 DEF StepsFrom, Handling
  <2> QED
    BY <1>3, <1>4, <1>8, <2>1 DEF StepsToEnd, t, u
<1>9. CASE /\ pc[p] \in Handling \ {"call"}
           /\ todo'[p] = todo[p] \ {cur[p]}
           /\ pc'[p] = "next" \/ (pc'[p] = "finish" /\ pc[p] \in {"failed", "done"})
  <2>1. StepsFrom("next", t - 1) < StepsFrom(pc[p], t)
    BY <1>1, <1>9 DEF StepsFrom, Handling
  <2>2. pc[p] \in {"failed", "done"} => StepsFrom("finish", t - 1) < StepsFrom(pc[p], t)
    BY <1>1, <1>9 DEF StepsFrom, Handling
  <2> QED
    BY <1>3, <1>5, <1>9, <2>1, <2>2 DEF StepsToEnd, t, u
<1> QED
  BY <1>6, <1>7, <1>8, <1>9, PassMoves

\* A pass takes on at most --limit messages and comes to its end: each step of
\* it, whatever fails on the way, brings it nearer, six steps for a message at
\* most, and nothing that another process does throws it back.  It is a part
\* of QueueDrains that needs no fairness.
THEOREM PassEnds ==
    Spec => /\ []LimitInv
            /\ [][\A p \in Process : pc[p] # "idle" =>
                      /\ StepsToEnd(p)' <= StepsToEnd(p)
                      /\ PassStep(p) => StepsToEnd(p)' < StepsToEnd(p)]_vars
<1>1. Init => LimitInv
  BY FS_EmptySet, ExtractionAssumption DEF Init, LimitInv
<1>2. TypeOK /\ TypeOK' /\ [Next]_vars =>
          \A p \in Process : pc[p] # "idle" =>
              /\ StepsToEnd(p)' <= StepsToEnd(p)
              /\ PassStep(p) => StepsToEnd(p)' < StepsToEnd(p)
  BY StepsGoDown
<1> QED
  BY <1>1, <1>2, LimitStep, TypeCorrect, PTL DEF Spec
=============================================================================
