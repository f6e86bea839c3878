--------------------------- MODULE DispatchProofs ---------------------------
(***************************************************************************)
(* Proofs about dispatch, for any tasks, requests, keys and transports.    *)
(*                                                                         *)
(* The first result is that dispatch is a legal client of the pool: each   *)
(* of its steps is a step of the pool's specification or leaves the pool   *)
(* alone, so the pool's theorems hold of it.  The others are about what    *)
(* dispatch adds: the marks and the replay of requests.                    *)
(***************************************************************************)
EXTENDS Dispatch, ConnectionPoolProofs

(***************************************************************************)
(* Types.                                                                  *)
(***************************************************************************)
\* The slots of a task are slots of the pool.
LEMMA SlotsOfTask ==
  ASSUME DispatchTypeOK, NEW t \in Tasks
  PROVE  Slot(t) \in Slots /\ Other(t) \in Slots /\ <<t, 1>> \in Slots /\ <<t, 2>> \in Slots
<1>1. task[t].cur \in {1, 2}
  BY DEF DispatchTypeOK, Task
<1>2. 3 - task[t].cur \in {1, 2}
  BY <1>1
<1> QED BY <1>1, <1>2, DispatchAssumption DEF Slot, Other

\* The keys a task uses are keys of the pool.
LEMMA KeysOfTask ==
  ASSUME DispatchTypeOK, NEW t \in Tasks
  PROVE  task[t] \in Task /\ task[t].key \in Keys /\ AutoOf[task[t].key] \in Keys /\ LookupKey(t) \in Keys
<1>1. task[t] \in Task /\ task[t].key \in Keys
  BY DEF DispatchTypeOK, Task
<1> QED BY <1>1, AttributeAssumption DEF LookupKey

(***************************************************************************)
(* Dispatch is a client of the pool.                                       *)
(***************************************************************************)
\* A checkout that finds nothing is a step of the pool, or none.
LEMMA CheckoutNoneStep ==
  ASSUME NEW k \in Keys, CheckoutNone(k)
  PROVE  [Next]_vars
  BY DEF CheckoutNone, Next

\* Every step of a task is a step of the pool, or leaves it alone.
LEMMA TaskPoolStep ==
  ASSUME DispatchTypeOK, NEW t \in Tasks, TaskStep(t)
  PROVE  [Next]_vars
<1>0. Slot(t) \in Slots /\ Other(t) \in Slots
  BY SlotsOfTask
<1>1. task[t].key \in Keys /\ LookupKey(t) \in Keys
  BY KeysOfTask
<1>2. CASE LookupHit(t)
  BY <1>0, <1>1, <1>2 DEF LookupHit, Next
<1>3. CASE LookupMiss(t)
  BY <1>1, <1>3, CheckoutNoneStep DEF LookupMiss
<1>4. ASSUME NEW h \in Hosts, NEW c \in Conns, ResolveHit(t, h, AddrOf[c]) PROVE [Next]_vars
  BY <1>0, <1>1, <1>4 DEF ResolveHit, Next
<1>5. ASSUME NEW h \in Hosts, NEW c \in Conns, ResolveMiss(t, h, AddrOf[c]) PROVE [Next]_vars
  BY <1>1, <1>5 DEF ResolveMiss, Next
<1>6. CASE Mark(t) \/ Remark(t) \/ FellBack(t) \/ Unmark(t) \/ Responded(t) \/ UnwindMark(t)
  BY <1>6 DEF Mark, Remark, FellBack, Unmark, Responded, UnwindMark
<1>7. CASE WaitHit(t)
  BY <1>0, <1>1, <1>7 DEF WaitHit, Next
<1>8. CASE WaitMiss(t)
  BY <1>1, <1>8, CheckoutNoneStep DEF WaitMiss
<1>9. CASE Reserve(t)
  BY <1>0, <1>1, <1>9 DEF Reserve, Next
<1>10. ASSUME NEW c \in Conns, Dialled(t, c) PROVE [Next]_vars
  BY <1>0, <1>10 DEF Dialled, Next
<1>11. CASE Rekey(t) \/ Swap(t) \/ Share(t) \/ Resume(t)
  BY <1>0, <1>11 DEF Rekey, Swap, Share, Resume, Next
<1>12. CASE PreferExisting(t)
  <2>1. CASE CheckoutMatching(Other(t), task[t].key, Conns)
    BY <1>0, <1>1, <2>1 DEF Next
  <2>2. CASE CheckoutNone(task[t].key)
    BY <1>1, <2>2, CheckoutNoneStep
  <2> QED BY <1>12, <2>1, <2>2 DEF PreferExisting
<1>13. CASE Accepted(t)
  BY <1>0, <1>13 DEF Accepted, Next
<1>14. ASSUME EvictStale(t) PROVE [Next]_vars
  BY <1>0, <1>14 DEF EvictStale, Next
<1>15. CASE Rejected(t)
  BY <1>14, <1>15 DEF Rejected
<1>16. ASSUME NEW reason, NEW n, Stale(t, reason, n) PROVE [Next]_vars
  BY <1>14, <1>16 DEF Stale
<1>17. CASE Malformed(t) \/ CheckIn(t) \/ UnwindHandle(t)
  BY <1>0, <1>17 DEF Malformed, CheckIn, UnwindHandle, Next
<1>18. ASSUME NEW n, Abandon(t, n) PROVE [Next]_vars
  BY <1>18 DEF Abandon
<1> QED
  BY <1>2, <1>3, <1>4, <1>5, <1>6, <1>7, <1>8, <1>9, <1>10, <1>11, <1>12, <1>13, <1>15, <1>16,
     <1>17, <1>18 DEF TaskStep

\* So is every step of dispatch.
LEMMA DispatchPoolStep ==
  ASSUME DispatchTypeOK, [DispatchNext]_dispatchVars
  PROVE  [Next]_vars
<1>1. CASE UNCHANGED dispatchVars
  BY <1>1 DEF dispatchVars, vars
<1>2. ASSUME NEW t \in Tasks, TaskStep(t) PROVE [Next]_vars
  BY <1>2, TaskPoolStep
<1>3. ASSUME NEW t \in Tasks, NEW r \in Requests, Begin(t, r) PROVE [Next]_vars
  BY <1>3 DEF Begin
<1>4. CASE Environment
  BY <1>4 DEF Environment, Next
<1> QED BY <1>1, <1>2, <1>3, <1>4 DEF DispatchNext

(***************************************************************************)
(* The invariant of dispatch, one part per result.                         *)
(***************************************************************************)
\* A task owns a mark only from mark_connecting_h2 to the unmark that follows
\* the dial; in these phases it does not change its key.
MarkPhases == {"reserve", "dial", "fellBack", "dialled", "share", "swap", "unmark", "unwind"}
MarkInv ==
  /\ MarkOwned
  /\ \A t \in Tasks : task[t].marked => task[t].pc \in MarkPhases

\* Going back to an earlier phase after a wire attempt takes the budget, and for
\* a request that is not idempotent also the proof that it was not processed.
Once(b) == IF b THEN 1 ELSE 0
TaskReplay(r) ==
  /\ r.req.oneShot => ~r.claimed
  /\ r.wire <= Once(r.claimed) + Once(r.pc \in {"sent", "checkin", "unwind"})
  /\ ~r.req.idempotent => r.processed <= Once(r.pc \in {"checkin", "unwind"})
ReplayInv == \A t \in Tasks : TaskReplay(task[t])

DispatchInv == DispatchTypeOK /\ MarkInv /\ ReplayInv

\* A task that starts, and an idle one, are tasks.
LEMMA StartedType ==
  /\ \A r \in Requests : Started(r) \in Task
  /\ IdleTask \in Task
<1>1. ASSUME NEW r \in Requests PROVE Started(r) \in Task
  <2>1. r \in Request /\ r.key \in Keys
    BY DispatchAssumption DEF Request
  <2> QED BY <2>1 DEF Started, Missed, Task, Phases, Sources
<1>2. (CHOOSE r \in Requests : TRUE) \in Requests
  BY DispatchAssumption
<1>3. Started(CHOOSE r \in Requests : TRUE) \in Task
  BY <1>1, <1>2
<1> QED BY <1>1, <1>3 DEF IdleTask, Task, Phases

\* The phases of the pool lookup and of the marks keep the types.
LEMMA TypeStepLookup ==
  ASSUME DispatchTypeOK, NEW t \in Tasks
  PROVE  /\ LookupHit(t) \/ LookupMiss(t) => DispatchTypeOK'
         /\ \A h, a : ResolveHit(t, h, a) \/ ResolveMiss(t, h, a) => DispatchTypeOK'
         /\ Mark(t) \/ Remark(t) \/ WaitHit(t) \/ WaitMiss(t) => DispatchTypeOK'
<1>0. /\ task[t] \in Task /\ task[t].key \in Keys /\ LookupKey(t) \in Keys
      /\ task \in [Tasks -> Task] /\ marks \subseteq Keys
  BY KeysOfTask DEF DispatchTypeOK
<1>1. CASE LookupHit(t)
  BY <1>0, <1>1 DEF LookupHit, DispatchTypeOK, Task, Phases, Sources
<1>2. CASE LookupMiss(t)
  BY <1>0, <1>2 DEF LookupMiss, Missed, Goto, DispatchTypeOK, Task, Phases
<1>3. ASSUME NEW h, NEW a, ResolveHit(t, h, a) \/ ResolveMiss(t, h, a) PROVE DispatchTypeOK'
  BY <1>0, <1>3 DEF ResolveHit, ResolveMiss, Goto, DispatchTypeOK, Task, Phases, Sources
<1>4. CASE Mark(t)
  <2> DEFINE own == NeedsMark(task[t].req) /\ task[t].key \notin marks
             phase == IF NeedsMark(task[t].req) /\ task[t].key \in marks THEN "wait" ELSE "reserve"
  <2>1. own \in BOOLEAN
    OBVIOUS
  <2>2. phase \in Phases
    BY DEF Phases
  <2>3. task' = [task EXCEPT ![t].pc = phase, ![t].marked = own]
    BY <1>4 DEF Mark
  <2> HIDE DEF own, phase
  <2>4. task' \in [Tasks -> Task]
    BY <1>0, <2>1, <2>2, <2>3 DEF Task
  <2>5. marks' \subseteq Keys
    BY <1>0, <1>4 DEF Mark
  <2> QED BY <2>4, <2>5 DEF DispatchTypeOK
<1>5. CASE Remark(t) \/ WaitHit(t)
  BY <1>0, <1>5 DEF Remark, WaitHit, DispatchTypeOK, Task, Phases, Sources
<1>6. CASE WaitMiss(t)
  <2>1. task[t].polls \in Nat
    BY <1>0 DEF Task
  <2> DEFINE last == ~ConnectTimeout /\ task[t].polls + 1 = MaxPolls
             phase == IF last THEN "remark" ELSE "wait"
             n == IF ConnectTimeout \/ last THEN 0 ELSE task[t].polls + 1
  <2>2. phase \in Phases /\ n \in Nat
    BY <2>1 DEF Phases
  <2>3. task' = [task EXCEPT ![t].pc = phase, ![t].polls = n] /\ marks' = marks
    BY <1>6 DEF WaitMiss
  <2> HIDE DEF n, phase
  <2>4. task' \in [Tasks -> Task]
    BY <1>0, <2>2, <2>3 DEF Task
  <2> QED BY <1>0, <2>3, <2>4 DEF DispatchTypeOK
<1> QED BY <1>1, <1>2, <1>3, <1>4, <1>5, <1>6

\* So do the phases of the fresh connection.
LEMMA TypeStepDialled ==
  ASSUME DispatchTypeOK, NEW t \in Tasks
  PROVE  /\ Reserve(t) \/ FellBack(t) \/ Rekey(t) => DispatchTypeOK'
         /\ \A c : Dialled(t, c) => DispatchTypeOK'
         /\ PreferExisting(t) \/ Swap(t) \/ Share(t) \/ Unmark(t) => DispatchTypeOK'
<1>0. /\ task[t] \in Task /\ task[t].key \in Keys /\ AutoOf[task[t].key] \in Keys
      /\ task \in [Tasks -> Task] /\ marks \subseteq Keys
  BY KeysOfTask DEF DispatchTypeOK
<1>1. ASSUME NEW phase \in Phases, Goto(t, phase), UNCHANGED marks PROVE DispatchTypeOK'
  BY <1>0, <1>1 DEF Goto, DispatchTypeOK, Task
<1>2. CASE Reserve(t)
  BY <1>1, <1>2 DEF Reserve, Phases
<1>3. CASE FellBack(t) \/ Unmark(t)
  BY <1>0, <1>3 DEF FellBack, Unmark, DispatchTypeOK, Task, Phases, Sources
<1>4. CASE Rekey(t)
  BY <1>0, <1>4 DEF Rekey, DispatchTypeOK, Task, Phases
<1>5. ASSUME NEW c, Dialled(t, c) PROVE DispatchTypeOK'
  BY <1>1, <1>5 DEF Dialled, Phases
<1>6. CASE PreferExisting(t) \/ Share(t)
  BY <1>1, <1>6 DEF PreferExisting, Share, Phases
<1>7. CASE Swap(t)
  <2>1. 3 - task[t].cur \in {1, 2}
    BY <1>0 DEF Task
  <2> QED BY <1>0, <1>7, <2>1 DEF Swap, DispatchTypeOK, Task, Phases
<1> QED BY <1>2, <1>3, <1>4, <1>5, <1>6, <1>7

\* So do sending and the ways out.
LEMMA TypeStepSend ==
  ASSUME DispatchTypeOK, NEW t \in Tasks
  PROVE  /\ Accepted(t) \/ Rejected(t) \/ Responded(t) \/ Malformed(t) => DispatchTypeOK'
         /\ \A reason : \A n \in {0, 1} : Stale(t, reason, n) => DispatchTypeOK'
         /\ \A n \in {0, 1} : Abandon(t, n) => DispatchTypeOK'
         /\ Resume(t) \/ CheckIn(t) \/ UnwindHandle(t) \/ UnwindMark(t) => DispatchTypeOK'
<1>0. task[t] \in Task /\ task \in [Tasks -> Task] /\ marks \subseteq Keys
  BY KeysOfTask DEF DispatchTypeOK
<1>1. \A n \in {0, 1} : Processed(t, n) \in Nat
  BY <1>0 DEF Processed, Task
<1>2. CASE Accepted(t)
  BY <1>0, <1>2 DEF Accepted, DispatchTypeOK, Task, Phases
<1>3. CASE Rejected(t)
  BY <1>0, <1>3 DEF Rejected, Goto, DispatchTypeOK, Task, Phases
<1>4. CASE Responded(t) \/ Malformed(t)
  BY <1>0, <1>1, <1>4 DEF Responded, Malformed, DispatchTypeOK, Task, Phases
<1>5. ASSUME NEW reason, NEW n \in {0, 1}, Stale(t, reason, n) PROVE DispatchTypeOK'
  <2> DEFINE claimed == task[t].claimed \/ Claim(t, reason)
             phase == IF Claim(t, reason) THEN "replay" ELSE "unwind"
  <2>1. claimed \in BOOLEAN
    OBVIOUS
  <2>2. phase \in Phases
    BY DEF Phases
  <2>3. task' = [task EXCEPT ![t].pc = phase, ![t].claimed = claimed, ![t].processed = Processed(t, n)]
    BY <1>5 DEF Stale
  <2> HIDE DEF claimed, phase
  <2>4. task' \in [Tasks -> Task]
    BY <1>0, <1>1, <2>1, <2>2, <2>3 DEF Task
  <2> QED BY <1>0, <1>5, <2>4 DEF Stale, DispatchTypeOK
<1>6. ASSUME NEW n \in {0, 1}, Abandon(t, n) PROVE DispatchTypeOK'
  BY <1>0, <1>1, <1>6 DEF Abandon, DispatchTypeOK, Task, Phases
<1>7. CASE Resume(t)
  <2>1. task[t].source \in Sources
    BY <1>0 DEF Task
  <2> QED BY <1>0, <1>7, <2>1 DEF Resume, Goto, Missed, DispatchTypeOK, Task, Phases, Sources
<1>8. CASE CheckIn(t) \/ UnwindMark(t)
  BY <1>0, <1>8, StartedType DEF CheckIn, UnwindMark, DispatchTypeOK
<1>9. CASE UnwindHandle(t)
  BY <1>0, <1>9 DEF UnwindHandle, DispatchTypeOK
<1> QED BY <1>2, <1>3, <1>4, <1>5, <1>6, <1>7, <1>8, <1>9

\* Dispatch is well typed.
LEMMA DispatchTypeStep ==
  ASSUME DispatchTypeOK, [DispatchNext]_dispatchVars
  PROVE  DispatchTypeOK'
<1>1. CASE UNCHANGED dispatchVars
  BY <1>1 DEF dispatchVars, DispatchTypeOK
<1>2. ASSUME NEW t \in Tasks, TaskStep(t) PROVE DispatchTypeOK'
  <2>1. CASE LookupHit(t) \/ LookupMiss(t) \/ Mark(t) \/ WaitHit(t) \/ WaitMiss(t) \/ Remark(t)
    BY <1>2, <2>1, TypeStepLookup
  <2>2. CASE \E h \in Hosts, c \in Conns : ResolveHit(t, h, AddrOf[c]) \/ ResolveMiss(t, h, AddrOf[c])
    BY <1>2, <2>2, TypeStepLookup
  <2>3. CASE \/ Reserve(t) \/ (\E c \in Conns : Dialled(t, c)) \/ FellBack(t) \/ Rekey(t)
             \/ PreferExisting(t) \/ Swap(t) \/ Share(t) \/ Unmark(t)
    BY <1>2, <2>3, TypeStepDialled
  <2>4. CASE \/ Accepted(t) \/ Rejected(t) \/ Responded(t) \/ Malformed(t) \/ Resume(t) \/ CheckIn(t)
             \/ UnwindHandle(t) \/ UnwindMark(t)
    BY <1>2, <2>4, TypeStepSend
  <2>5. CASE \E reason \in {"ambiguous", "unprocessed"}, n \in {0, 1} : Stale(t, reason, n)
    BY <1>2, <2>5, TypeStepSend
  <2>6. CASE \E n \in {0, 1} : Abandon(t, n)
    BY <1>2, <2>6, TypeStepSend
  <2> QED BY <1>2, <2>1, <2>2, <2>3, <2>4, <2>5, <2>6 DEF TaskStep
<1>3. ASSUME NEW t \in Tasks, NEW r \in Requests, Begin(t, r) PROVE DispatchTypeOK'
  BY <1>3, StartedType DEF Begin, DispatchTypeOK
<1>4. CASE Environment
  BY <1>4 DEF Environment, DispatchTypeOK
<1> QED BY <1>1, <1>2, <1>3, <1>4 DEF DispatchNext

(***************************************************************************)
(* Marks.  A step keeps, removes or takes the mark of one task.            *)
(***************************************************************************)
\* Only task t changes.
Only(t) == \A u \in Tasks \ {t} : task'[u] = task[u]

\* A task's step, or the start of its request, changes no other task.
LEMMA OnlyThisTask ==
  ASSUME DispatchTypeOK, NEW t \in Tasks, TaskStep(t) \/ \E r \in Requests : Begin(t, r)
  PROVE  Only(t)
<1>0. task \in [Tasks -> Task]
  BY DEF DispatchTypeOK
<1>1. CASE LookupHit(t) \/ LookupMiss(t) \/ (\E r \in Requests : Begin(t, r)) \/ Mark(t) \/ WaitHit(t)
             \/ WaitMiss(t) \/ Remark(t)
  BY <1>0, <1>1 DEF LookupHit, LookupMiss, Begin, Mark, WaitHit, WaitMiss, Remark, Goto, Only
<1>2. CASE \E h \in Hosts, c \in Conns : ResolveHit(t, h, AddrOf[c]) \/ ResolveMiss(t, h, AddrOf[c])
  BY <1>0, <1>2 DEF ResolveHit, ResolveMiss, Goto, Only
<1>3. CASE Reserve(t) \/ (\E c \in Conns : Dialled(t, c)) \/ FellBack(t) \/ Rekey(t)
  BY <1>0, <1>3 DEF Reserve, Dialled, FellBack, Rekey, Goto, Only
<1>4. CASE PreferExisting(t) \/ Swap(t) \/ Share(t) \/ Unmark(t)
  BY <1>0, <1>4 DEF PreferExisting, Swap, Share, Unmark, Goto, Only
<1>5. CASE Accepted(t) \/ Rejected(t) \/ Responded(t) \/ Malformed(t) \/ Resume(t) \/ CheckIn(t)
  BY <1>0, <1>5 DEF Accepted, Rejected, Responded, Malformed, Resume, CheckIn, Goto, Only
<1>6. CASE \E reason \in {"ambiguous", "unprocessed"}, n \in {0, 1} : Stale(t, reason, n)
  BY <1>0, <1>6 DEF Stale, Only
<1>7. CASE (\E n \in {0, 1} : Abandon(t, n)) \/ UnwindHandle(t) \/ UnwindMark(t)
  BY <1>0, <1>7 DEF Abandon, UnwindHandle, UnwindMark, Only
<1> QED BY <1>1, <1>2, <1>3, <1>4, <1>5, <1>6, <1>7 DEF TaskStep

\* A step that leaves the marks alone, and does not change what it owns.
LEMMA MarkKept ==
  ASSUME DispatchTypeOK, MarkInv, NEW t \in Tasks, Only(t), marks' = marks,
         task[t].marked <=> task'[t].marked,
         task'[t].marked => task'[t].key = task[t].key /\ task'[t].pc \in MarkPhases
  PROVE  MarkInv'
<1>1. \A u \in Tasks : \A k : u \in Owners(k)' <=> u \in Owners(k)
  BY DEF Owners, Only
<1>2. \A u \in Tasks : task'[u].marked => task'[u].pc \in MarkPhases
  BY DEF MarkInv, Only
<1> QED BY <1>1, <1>2 DEF MarkInv, MarkOwned, Owners

\* A step that gives up the mark, if it is its own.
LEMMA MarkRemoved ==
  ASSUME DispatchTypeOK, MarkInv, NEW t \in Tasks, Only(t), ~task'[t].marked,
         marks' = IF task[t].marked THEN marks \ {task[t].key} ELSE marks
  PROVE  MarkInv'
<1>0. task[t].key \in Keys /\ marks \subseteq Keys
  BY KeysOfTask DEF DispatchTypeOK
<1>1. \A u \in Tasks : \A k : u \in Owners(k)' <=> u \in Owners(k) /\ u # t
  BY DEF Owners, Only
<1>2. \A u \in Tasks : task'[u].marked => task'[u].pc \in MarkPhases
  BY DEF MarkInv, Only
<1>3. t \in Owners(task[t].key) <=> task[t].marked
  BY DEF Owners
<1>4. \A k : t \in Owners(k) => k = task[t].key
  BY DEF Owners
<1>5. \A k \in marks' : Owners(k)' # {}
  <2> SUFFICES ASSUME NEW k \in marks' PROVE Owners(k)' # {}
    OBVIOUS
  <2>1. k \in marks /\ t \notin Owners(k)
    BY <1>3, <1>4, <1>0
  <2>2. PICK u \in Owners(k) : TRUE
    BY <2>1 DEF MarkInv, MarkOwned
  <2>3. u \in Tasks /\ u # t
    BY <2>1, <2>2 DEF Owners
  <2> QED BY <1>1, <2>2, <2>3
<1>6. \A k \in Keys : \A u, v \in Owners(k)' : u = v /\ k \in marks'
  <2> SUFFICES ASSUME NEW k \in Keys, NEW u \in Owners(k)', NEW v \in Owners(k)'
               PROVE  u = v /\ k \in marks'
    OBVIOUS
  <2>1. u \in Tasks /\ v \in Tasks
    BY DEF Owners
  <2>2. u \in Owners(k) /\ v \in Owners(k) /\ u # t
    BY <1>1, <2>1
  <2>3. u = v /\ k \in marks
    BY <2>2 DEF MarkInv, MarkOwned
  <2>4. CASE task[t].marked /\ k = task[t].key
    BY <1>0, <1>3, <2>2, <2>4 DEF MarkInv, MarkOwned
  <2>5. CASE ~(task[t].marked /\ k = task[t].key)
    BY <2>3, <2>5
  <2> QED BY <2>4, <2>5
<1> QED BY <1>2, <1>5, <1>6 DEF MarkInv, MarkOwned

\* A step that marks its key, and owns the mark if there was none.
LEMMA MarkTaken ==
  ASSUME DispatchTypeOK, MarkInv, NEW t \in Tasks, Only(t), ~task[t].marked,
         marks' = marks \cup {task[t].key}, task'[t].key = task[t].key,
         task'[t].marked <=> task[t].key \notin marks,
         task'[t].marked => task'[t].pc \in MarkPhases
  PROVE  MarkInv'
<1>0. task[t].key \in Keys
  BY KeysOfTask
<1>1. \A u \in Tasks : \A k : u \in Owners(k)' <=> u \in Owners(k) \/ (u = t /\ k = task[t].key /\ k \notin marks)
  BY DEF Owners, Only
<1>2. \A u \in Tasks : task'[u].marked => task'[u].pc \in MarkPhases
  BY DEF MarkInv, Only
<1>3. \A k \in marks' : Owners(k)' # {}
  <2> SUFFICES ASSUME NEW k \in marks' PROVE Owners(k)' # {}
    OBVIOUS
  <2>1. CASE k \in marks
    <3>1. PICK u \in Owners(k) : TRUE
      BY <2>1 DEF MarkInv, MarkOwned
    <3>2. u \in Tasks
      BY DEF Owners
    <3> QED BY <1>1, <3>1, <3>2
  <2>2. CASE k \notin marks
    BY <1>1, <2>2
  <2> QED BY <2>1, <2>2
<1>4. \A k \in Keys : \A u, v \in Owners(k)' : u = v /\ k \in marks'
  <2> SUFFICES ASSUME NEW k \in Keys, NEW u \in Owners(k)', NEW v \in Owners(k)'
               PROVE  u = v /\ k \in marks'
    OBVIOUS
  <2>1. u \in Tasks /\ v \in Tasks
    BY DEF Owners
  <2>2. \A x, y \in Owners(k) : x = y /\ k \in marks
    BY DEF MarkInv, MarkOwned
  <2> QED BY <1>1, <2>1, <2>2
<1> QED BY <1>2, <1>3, <1>4 DEF MarkInv, MarkOwned

\* Marks stay owned.
LEMMA MarkStep ==
  ASSUME DispatchTypeOK, MarkInv, [DispatchNext]_dispatchVars
  PROVE  MarkInv'
<1>1. CASE UNCHANGED dispatchVars
  BY <1>1 DEF dispatchVars, MarkInv, MarkOwned, Owners
<1>2. CASE Environment
  BY <1>2 DEF Environment, MarkInv, MarkOwned, Owners
<1>3. ASSUME NEW t \in Tasks, TaskStep(t) \/ \E r \in Requests : Begin(t, r) PROVE MarkInv'
  <2>0. Only(t) /\ task[t] \in Task /\ task \in [Tasks -> Task]
    BY <1>3, OnlyThisTask DEF DispatchTypeOK
  <2>1. task[t].marked => task[t].pc \in MarkPhases
    BY DEF MarkInv
  <2>2. ASSUME ~task[t].marked, ~task'[t].marked, marks' = marks PROVE MarkInv'
    BY <2>0, <2>2, MarkKept
  <2>3. ASSUME marks' = marks, task'[t].marked = task[t].marked, task'[t].key = task[t].key,
               task'[t].pc \in MarkPhases
        PROVE  MarkInv'
    BY <2>0, <2>3, MarkKept
  <2>4. CASE \E r \in Requests : Begin(t, r)
    <3>1. ~task[t].marked
      BY <2>1, <2>4 DEF Begin, At, MarkPhases
    <3>2. ~task'[t].marked /\ marks' = marks
      BY <2>0, <2>4 DEF Begin, Started
    <3> QED BY <2>2, <3>1, <3>2
  <2>5. CASE \/ LookupHit(t) \/ LookupMiss(t) \/ WaitHit(t) \/ WaitMiss(t)
             \/ \E h \in Hosts, c \in Conns : ResolveHit(t, h, AddrOf[c]) \/ ResolveMiss(t, h, AddrOf[c])
    <3>1. ~task[t].marked
      BY <2>1, <2>5 DEF LookupHit, LookupMiss, WaitHit, WaitMiss, ResolveHit, ResolveMiss, At, MarkPhases
    <3>2. task'[t].marked = task[t].marked /\ marks' = marks
      BY <2>0, <2>5 DEF LookupHit, LookupMiss, WaitHit, WaitMiss, ResolveHit, ResolveMiss, Goto, Task
    <3> QED BY <2>2, <3>1, <3>2
  <2>6. CASE Mark(t)
    <3>1. ~task[t].marked
      BY <2>1, <2>6 DEF Mark, At, MarkPhases
    <3>2. task'[t].marked <=> NeedsMark(task[t].req) /\ task[t].key \notin marks
      BY <2>0, <2>6 DEF Mark, Task
    <3>3. task'[t].key = task[t].key
      BY <2>0, <2>6 DEF Mark, Task
    <3>4. CASE NeedsMark(task[t].req)
      <4>1. marks' = marks \cup {task[t].key}
        BY <2>6, <3>4 DEF Mark
      <4>2. task'[t].marked => task'[t].pc \in MarkPhases
        BY <2>0, <2>6, <3>2 DEF Mark, Task, MarkPhases
      <4> QED BY <2>0, <3>1, <3>2, <3>3, <3>4, <4>1, <4>2, MarkTaken
    <3>5. CASE ~NeedsMark(task[t].req)
      BY <2>2, <2>6, <3>1, <3>2, <3>5 DEF Mark
    <3> QED BY <3>4, <3>5
  <2>7. CASE Remark(t)
    <3>1. ~task[t].marked /\ marks' = marks \cup {task[t].key}
      BY <2>1, <2>7 DEF Remark, At, MarkPhases
    <3>2. (task'[t].marked <=> task[t].key \notin marks) /\ task'[t].key = task[t].key
      BY <2>0, <2>7 DEF Remark, Task
    <3>3. task'[t].pc \in MarkPhases
      BY <2>0, <2>7 DEF Remark, Task, MarkPhases
    <3> QED BY <2>0, <3>1, <3>2, <3>3, MarkTaken
  <2>8. CASE Reserve(t) \/ PreferExisting(t) \/ Swap(t) \/ Share(t) \/ \E c \in Conns : Dialled(t, c)
    BY <2>0, <2>3, <2>8 DEF Reserve, PreferExisting, Swap, Share, Dialled, Goto, Task, MarkPhases
  <2>9. CASE FellBack(t) \/ Unmark(t)
    <3>1. ~task'[t].marked /\ marks' = IF task[t].marked THEN marks \ {task[t].key} ELSE marks
      BY <2>0, <2>9 DEF FellBack, Unmark, Task
    <3> QED BY <2>0, <3>1, MarkRemoved
  <2>10. CASE UnwindMark(t)
    <3>1. ~task'[t].marked /\ marks' = IF task[t].marked THEN marks \ {task[t].key} ELSE marks
      BY <2>0, <2>10 DEF UnwindMark, IdleTask, Started
    <3> QED BY <2>0, <3>1, MarkRemoved
  <2>11. CASE Rekey(t) \/ Accepted(t) \/ Rejected(t) \/ Responded(t) \/ Malformed(t) \/ Resume(t)
              \/ \E reason \in {"ambiguous", "unprocessed"}, n \in {0, 1} : Stale(t, reason, n)
    <3>1. ~task[t].marked
      BY <2>1, <2>11 DEF Rekey, Accepted, Rejected, Responded, Malformed, Resume, Stale, At, MarkPhases
    <3>2. task'[t].marked = task[t].marked /\ marks' = marks
      BY <2>0, <2>11 DEF Rekey, Accepted, Rejected, Responded, Malformed, Resume, Stale, Goto, Task
    <3> QED BY <2>2, <3>1, <3>2
  <2>12. CASE CheckIn(t)
    <3>1. ~task[t].marked
      BY <2>1, <2>12 DEF CheckIn, At, MarkPhases
    <3>2. ~task'[t].marked /\ marks' = marks
      BY <2>0, <2>12 DEF CheckIn, IdleTask, Started
    <3> QED BY <2>2, <3>1, <3>2
  <2>13. CASE (\E n \in {0, 1} : Abandon(t, n)) \/ UnwindHandle(t)
    <3>1. /\ task'[t].marked = task[t].marked /\ task'[t].key = task[t].key /\ marks' = marks
          /\ task'[t].pc = "unwind"
      BY <2>0, <2>13 DEF Abandon, UnwindHandle, At, Task
    <3> QED BY <2>3, <3>1 DEF MarkPhases
  <2> QED BY <1>3, <2>4, <2>5, <2>6, <2>7, <2>8, <2>9, <2>10, <2>11, <2>12, <2>13 DEF TaskStep
<1> QED BY <1>1, <1>2, <1>3 DEF DispatchNext

(***************************************************************************)
(* Replay.                                                                 *)
(***************************************************************************)
\* A request that starts has not been sent.
LEMMA StartedReplay ==
  (\A r \in Requests : TaskReplay(Started(r))) /\ TaskReplay(IdleTask)
<1>1. \A r : TaskReplay(Started(r))
  BY DEF TaskReplay, Started, Once
<1>2. /\ IdleTask.claimed = FALSE /\ IdleTask.wire = 0 /\ IdleTask.processed = 0
      /\ IdleTask.pc = "idle"
  BY DEF IdleTask, Started
<1>3. TaskReplay(IdleTask)
  BY <1>2 DEF TaskReplay, Once
<1> QED BY <1>1, <1>3

\* A step that only moves a request between phases before the wire, or to its end.
LEMMA MovedReplay ==
  ASSUME NEW r \in Task, NEW q \in Task, TaskReplay(r), q.req = r.req, q.claimed = r.claimed,
         q.wire = r.wire, q.processed = r.processed,
         r.pc \in {"sent", "checkin", "unwind"} => q.pc = "unwind"
  PROVE  TaskReplay(q)
<1>1. r.wire \in Nat /\ r.processed \in Nat
  BY DEF Task
<1> QED BY <1>1 DEF TaskReplay, Once

\* Requests are replayed within the budget, and only when that is safe.
LEMMA ReplayStep ==
  ASSUME DispatchTypeOK, DispatchTypeOK', ReplayInv, [DispatchNext]_dispatchVars
  PROVE  ReplayInv'
<1>1. CASE UNCHANGED <<marks, task>>
  BY <1>1 DEF ReplayInv
<1>2. CASE Environment \/ UNCHANGED dispatchVars
  BY <1>1, <1>2 DEF Environment, dispatchVars
<1>3. ASSUME NEW t \in Tasks, TaskStep(t) \/ \E r \in Requests : Begin(t, r) PROVE ReplayInv'
  <2>0. Only(t) /\ task[t] \in Task /\ task'[t] \in Task /\ task \in [Tasks -> Task]
    BY <1>3, OnlyThisTask DEF DispatchTypeOK
  <2>1. TaskReplay(task[t])
    BY DEF ReplayInv
  <2> SUFFICES TaskReplay(task'[t])
    BY <2>0 DEF ReplayInv, Only
  <2>2. /\ task[t].wire \in Nat /\ task[t].processed \in Nat
        /\ task[t].claimed \in BOOLEAN
    BY <2>0 DEF Task
  <2>3. ASSUME task'[t].req = task[t].req, task'[t].claimed = task[t].claimed,
               task'[t].wire = task[t].wire, task'[t].processed = task[t].processed,
               task[t].pc \in {"sent", "checkin", "unwind"} => task'[t].pc = "unwind"
        PROVE  TaskReplay(task'[t])
    BY <2>0, <2>1, <2>3, MovedReplay
  <2>4. CASE CheckIn(t) \/ UnwindMark(t) \/ \E r \in Requests : Begin(t, r)
    BY <2>0, <2>4, StartedReplay DEF CheckIn, UnwindMark, Begin
  <2>5. CASE \/ LookupHit(t) \/ LookupMiss(t) \/ WaitHit(t) \/ WaitMiss(t)
             \/ \E h \in Hosts, c \in Conns : ResolveHit(t, h, AddrOf[c]) \/ ResolveMiss(t, h, AddrOf[c])
    BY <2>0, <2>3, <2>5 DEF LookupHit, LookupMiss, WaitHit, WaitMiss, ResolveHit, ResolveMiss, At, Goto, Task
  <2>6. CASE Mark(t) \/ Remark(t) \/ FellBack(t) \/ Rekey(t) \/ Unmark(t)
    BY <2>0, <2>3, <2>6 DEF Mark, Remark, FellBack, Rekey, Unmark, At, Task
  <2>7. CASE Reserve(t) \/ PreferExisting(t) \/ Swap(t) \/ Share(t) \/ \E c \in Conns : Dialled(t, c)
    BY <2>0, <2>3, <2>7 DEF Reserve, PreferExisting, Swap, Share, Dialled, At, Goto, Task
  <2>8. CASE Rejected(t) \/ Resume(t) \/ UnwindHandle(t)
    BY <2>0, <2>3, <2>8 DEF Rejected, Resume, UnwindHandle, At, Goto, Task
  <2>9. CASE Accepted(t)
    <3>1. /\ task[t].pc = "send" /\ task'[t].pc = "sent" /\ task'[t].wire = task[t].wire + 1
          /\ task'[t].req = task[t].req /\ task'[t].claimed = task[t].claimed
          /\ task'[t].processed = task[t].processed
      BY <2>0, <2>9 DEF Accepted, At, Task
    <3> QED BY <2>1, <2>2, <3>1 DEF TaskReplay, Once
  <2>10. ASSUME NEW n \in {0, 1}, task[t].pc = "sent" \/ n = 0, task'[t].pc \in {"checkin", "unwind"},
                task[t].pc \notin {"checkin", "unwind"},
                task'[t].processed = Processed(t, n), task'[t].claimed = task[t].claimed,
                task'[t].req = task[t].req, task'[t].wire = task[t].wire
         PROVE  TaskReplay(task'[t])
    BY <2>1, <2>2, <2>10 DEF TaskReplay, Once, Processed
  <2>11. CASE Responded(t) \/ Malformed(t)
    <3>1. /\ task[t].pc = "sent" /\ task'[t].pc \in {"checkin", "unwind"}
          /\ task'[t].processed = Processed(t, 1) /\ task'[t].claimed = task[t].claimed
          /\ task'[t].req = task[t].req /\ task'[t].wire = task[t].wire
      BY <2>0, <2>11 DEF Responded, Malformed, At, Task
    <3> QED BY <2>10, <3>1
  <2>12. ASSUME NEW n \in {0, 1}, Abandon(t, n) PROVE TaskReplay(task'[t])
    <3>1. /\ task[t].pc = "sent" \/ n = 0
          /\ task'[t].pc = "unwind" /\ task[t].pc \notin {"checkin", "unwind"}
          /\ task'[t].processed = Processed(t, n) /\ task'[t].claimed = task[t].claimed
          /\ task'[t].req = task[t].req /\ task'[t].wire = task[t].wire
      BY <2>0, <2>12 DEF Abandon, At, Task
    <3> QED BY <2>10, <3>1
  <2>13. ASSUME NEW reason \in {"ambiguous", "unprocessed"}, NEW n \in {0, 1}, Stale(t, reason, n)
         PROVE  TaskReplay(task'[t])
    <3>1. /\ task[t].pc = "sent" /\ task'[t].processed = Processed(t, n)
          /\ task'[t].req = task[t].req /\ task'[t].wire = task[t].wire
          /\ task'[t].pc = IF Claim(t, reason) THEN "replay" ELSE "unwind"
          /\ task'[t].claimed <=> (task[t].claimed \/ Claim(t, reason))
          /\ reason = "unprocessed" => n = 0
      BY <2>0, <2>13 DEF Stale, At, Task
    <3>2. task'[t].claimed \in BOOLEAN
      BY <2>0 DEF Task
    <3>3. CASE ~Claim(t, reason)
      <4>1. task'[t].claimed = task[t].claimed
        BY <2>2, <3>1, <3>2, <3>3
      <4> QED BY <2>10, <3>1, <3>3, <4>1
    <3>4. CASE Claim(t, reason)
      <4>1. /\ ~task[t].claimed /\ ~task[t].req.oneShot
            /\ ~task[t].req.idempotent => n = 0
        BY <3>1, <3>4 DEF Claim, Permits
      <4>2. task'[t].claimed /\ task'[t].pc = "replay"
        BY <3>1, <3>4
      <4> QED BY <2>1, <2>2, <3>1, <4>1, <4>2 DEF TaskReplay, Once, Processed
    <3> QED BY <3>3, <3>4
  <2> QED BY <1>3, <2>4, <2>5, <2>6, <2>7, <2>8, <2>9, <2>11, <2>12, <2>13 DEF TaskStep
<1> QED BY <1>2, <1>3 DEF DispatchNext

(***************************************************************************)
(* What a task holds of the pool in each phase.                            *)
(***************************************************************************)
\* The phases of a request in which it holds nothing, and those in which it
\* holds one connection.
Empty == {"lookup", "lookupAuto", "resolve", "mark", "wait", "remark", "reserve"}
Carrying ==
  {"fellBack", "rekey", "dialled", "share", "unmark", "send", "sent", "replay", "recovered", "checkin"}

\* What a request may leave behind when it has ended.
Leftover == {"none", "draining", "permit"}

\* What a task's connection slot holds: nothing before the dial, the reservation
\* while it dials, then a connection; on the way out whatever is not yet dropped.
SlotKinds(pc) ==
  CASE pc = "idle" -> Leftover
    [] pc \in Empty -> {"none"}
    [] pc = "dial" -> {"reservation"}
    [] pc = "unwind" -> {"none", "reservation", "original", "clone"}
    [] OTHER -> {"original", "clone"}

\* Its other slot is used only while a fresh connection is swapped for a pooled one.
OtherKinds(pc) ==
  CASE pc = "idle" -> Leftover
    [] pc = "swap" -> {"original", "clone"}
    [] OTHER -> {"none"}

TaskHolds(t) ==
  /\ Owns(Slot(t), SlotKinds(task[t].pc))
  /\ Owns(Other(t), OtherKinds(task[t].pc))
HoldInv == \A t \in Tasks : TaskHolds(t)

\* A task's two slots are its own: two tasks share none, and the two differ.
LEMMA SlotsApart ==
  ASSUME DispatchTypeOK, NEW t \in Tasks
  PROVE  /\ Slot(t) # Other(t)
         /\ \A u \in Tasks \ {t} : {Slot(u), Other(u)} \cap {Slot(t), Other(t)} = {}
         /\ \A i \in {1, 2} : <<t, i>> \in {Slot(t), Other(t)}
<1>1. task[t].cur \in {1, 2}
  BY DEF DispatchTypeOK, Task
<1>2. task[t].cur # 3 - task[t].cur /\ {task[t].cur, 3 - task[t].cur} = {1, 2}
  BY <1>1
<1> QED BY <1>2 DEF Slot, Other

\* A step of task t that touches no other task and no slot of another.
LEMMA HoldsElsewhere ==
  ASSUME DispatchTypeOK, HoldInv, NEW t \in Tasks, Only(t), TaskHolds(t)',
         \A s \in Slots : s \notin {Slot(t), Other(t)} => handle'[s] = handle[s]
  PROVE  HoldInv'
<1> SUFFICES ASSUME NEW u \in Tasks \ {t} PROVE TaskHolds(u)'
  BY DEF HoldInv
<1>1. task'[u] = task[u]
  BY DEF Only
<1>2. Slot(u)' = Slot(u) /\ Other(u)' = Other(u)
  BY <1>1 DEF Slot, Other
<1>3. handle'[Slot(u)] = handle[Slot(u)] /\ handle'[Other(u)] = handle[Other(u)]
  BY SlotsApart, SlotsOfTask
<1>4. TaskHolds(u)
  BY DEF HoldInv
<1> QED BY <1>1, <1>2, <1>3, <1>4 DEF TaskHolds, Owns

\* The phase task t moves to, its slots and their contents after the step.
Moves(t, pc, kinds) ==
  /\ task'[t].pc = pc /\ task'[t].cur = task[t].cur
  /\ handle'[Slot(t)].kind \in kinds
  /\ \A s \in Slots : s # Slot(t) => handle'[s] = handle[s]

\* A step that moves a task to a phase with what that phase holds.
LEMMA HoldsMoved ==
  ASSUME DispatchTypeOK, HoldInv, NEW t \in Tasks, Only(t), NEW pc, NEW kinds, Moves(t, pc, kinds),
         kinds \subseteq SlotKinds(pc), OtherKinds(task[t].pc) \subseteq OtherKinds(pc)
  PROVE  HoldInv'
<1>1. Slot(t)' = Slot(t) /\ Other(t)' = Other(t)
  BY DEF Moves, Slot, Other
<1>2. handle'[Other(t)] = handle[Other(t)]
  BY SlotsApart, SlotsOfTask DEF Moves
<1>3. TaskHolds(t)
  BY DEF HoldInv
<1>4. TaskHolds(t)'
  BY <1>1, <1>2, <1>3 DEF TaskHolds, Owns, Moves
<1> QED BY <1>4, HoldsElsewhere DEF Moves

\* What they hold, phase by phase.
LEMMA KindsOfPhases ==
  /\ \A pc \in Empty : SlotKinds(pc) = {"none"} /\ OtherKinds(pc) = {"none"}
  /\ \A pc \in Carrying : SlotKinds(pc) = {"original", "clone"} /\ OtherKinds(pc) = {"none"}
  /\ SlotKinds("idle") = Leftover /\ OtherKinds("idle") = Leftover
  /\ SlotKinds("dial") = {"reservation"} /\ OtherKinds("dial") = {"none"}
  /\ SlotKinds("unwind") = {"none", "reservation", "original", "clone"} /\ OtherKinds("unwind") = {"none"}
  /\ SlotKinds("swap") = {"original", "clone"} /\ OtherKinds("swap") = {"original", "clone"}
  BY DEF SlotKinds, OtherKinds, Empty, Carrying

\* Where Missed goes, nothing is held.
LEMMA MissedEmpty == \A r : Missed(r) \in Empty
  BY DEF Missed, Empty

\* Every step of dispatch leaves each task with what its phase holds.
LEMMA HoldStep ==
  ASSUME TypeOK, DispatchTypeOK, HoldInv, [DispatchNext]_dispatchVars
  PROVE  HoldInv'
<1>0. handle \in [Slots -> Handle] /\ task \in [Tasks -> Task]
  BY DEF TypeOK, DispatchTypeOK
<1>1. CASE UNCHANGED dispatchVars
  BY <1>1 DEF dispatchVars, HoldInv, TaskHolds, Owns, Slot, Other
<1>2. CASE Environment
  <2>1. task' = task
    BY <1>2 DEF Environment
  <2>2. \A s \in Slots : handle'[s] = handle[s] \/ (Owns(s, Leftover) /\ handle'[s].kind = "none")
    <3>1. CASE \/ Tick \/ PruneExpired \/ (\E c \in Conns : PeerClose(c) \/ BodyDrained(c))
               \/ \E s \in Slots : RetirePermitTransport(s)
      BY <3>1 DEF Tick, PruneExpired, PeerClose, BodyDrained, RetirePermitTransport
    <3>2. ASSUME NEW s \in Slots, CheckinDrained(s) \/ DrainAbandoned(s) \/ DropPermit(s)
          PROVE  \A u \in Slots : handle'[u] = handle[u] \/ (Owns(u, Leftover) /\ handle'[u].kind = "none")
      <4>1. Owns(s, Leftover) /\ handle' = [handle EXCEPT ![s] = Nothing]
        BY <3>2 DEF CheckinDrained, DrainAbandoned, DropPermit, Owns, Leftover
      <4> QED BY <1>0, <4>1 DEF Nothing
    <3> QED BY <1>2, <3>1, <3>2 DEF Environment
  <2> SUFFICES ASSUME NEW t \in Tasks PROVE TaskHolds(t)'
    BY DEF HoldInv
  <2>3. Slot(t)' = Slot(t) /\ Other(t)' = Other(t) /\ Slot(t) \in Slots /\ Other(t) \in Slots
    BY <2>1, SlotsOfTask DEF Slot, Other
  <2>4. TaskHolds(t)
    BY DEF HoldInv
  <2>5. task[t].pc \in Phases
    BY <1>0 DEF Task
  <2>6. /\ SlotKinds(task[t].pc) \cap Leftover # {} => "none" \in SlotKinds(task[t].pc)
        /\ OtherKinds(task[t].pc) \cap Leftover # {} => "none" \in OtherKinds(task[t].pc)
    BY <2>5 DEF SlotKinds, OtherKinds, Leftover, Phases, Empty
  <2> QED BY <2>1, <2>2, <2>3, <2>4, <2>6 DEF TaskHolds, Owns
<1>3. ASSUME NEW t \in Tasks, TaskStep(t) \/ \E r \in Requests : Begin(t, r) PROVE HoldInv'
  <2>0. Only(t) /\ task[t] \in Task
    BY <1>0, <1>3, OnlyThisTask
  <2>1. Slot(t) \in Slots /\ Other(t) \in Slots /\ Slot(t) # Other(t)
    BY SlotsOfTask, SlotsApart
  <2>2. handle[Slot(t)].kind \in SlotKinds(task[t].pc) /\ handle[Other(t)].kind \in OtherKinds(task[t].pc)
    BY DEF HoldInv, TaskHolds, Owns
  <2>3. ASSUME handle' = handle, task'[t].cur = task[t].cur,
               SlotKinds(task[t].pc) \subseteq SlotKinds(task'[t].pc),
               OtherKinds(task[t].pc) \subseteq OtherKinds(task'[t].pc)
        PROVE  HoldInv'
    <3>1. Moves(t, task'[t].pc, SlotKinds(task[t].pc))
      BY <2>2, <2>3 DEF Moves
    <3> QED BY <2>0, <2>3, <3>1, HoldsMoved
  <2> DEFINE Changed(kinds) ==
               /\ handle'[Slot(t)].kind \in kinds
               /\ \A s \in Slots : s # Slot(t) => handle'[s] = handle[s]
  <2>4a. ASSUME NEW kinds, Changed(kinds), task'[t].cur = task[t].cur,
               kinds \subseteq SlotKinds(task'[t].pc),
               OtherKinds(task[t].pc) \subseteq OtherKinds(task'[t].pc)
        PROVE  HoldInv'
    <3>1. Moves(t, task'[t].pc, kinds)
      BY <2>4a DEF Moves
    <3> QED BY <2>0, <2>4a, <3>1, HoldsMoved
  <2>4. ASSUME NEW r, handle' = [handle EXCEPT ![Slot(t)] = r], task'[t].cur = task[t].cur,
               r.kind \in SlotKinds(task'[t].pc),
               OtherKinds(task[t].pc) \subseteq OtherKinds(task'[t].pc)
        PROVE  HoldInv'
    <3>1. Moves(t, task'[t].pc, {r.kind})
      BY <1>0, <2>1, <2>4 DEF Moves
    <3> QED BY <2>0, <2>4, <3>1, HoldsMoved
  <2>5. ASSUME NEW k, CheckoutNone(k) PROVE handle' = handle
    BY <2>5 DEF CheckoutNone, CheckoutMatchingMiss, vars
  <2>6. ASSUME EvictStale(t) PROVE handle' = handle
    BY <2>6 DEF EvictStale, Evict, vars
  <2>7. \A c, k : CheckedOut(c, k).kind \in {"original", "clone"}
    BY DEF CheckedOut
  <2>8. Nothing.kind = "none"
    BY DEF Nothing
  <2>9. CASE \E r \in Requests : Begin(t, r)
    <3>1. PICK r \in Requests : Begin(t, r)
      BY <2>9
    <3>2. task'[t].pc \in Empty /\ task'[t].cur = 1 /\ handle' = handle
      BY <2>0, <1>0, <3>1, MissedEmpty DEF Begin, Started, Empty, vars
    <3>3. handle[<<t, 1>>].kind = "none" /\ handle[<<t, 2>>].kind = "none"
      BY <3>1 DEF Begin, Owns
    <3>4. Slot(t)' = <<t, 1>> /\ Other(t)' = <<t, 2>>
      BY <3>2 DEF Slot, Other
    <3>5. TaskHolds(t)'
      BY <3>2, <3>3, <3>4, KindsOfPhases DEF TaskHolds, Owns
    <3> QED BY <2>0, <3>2, <3>5, HoldsElsewhere
  <2>10. CASE LookupHit(t) \/ WaitHit(t)
    <3>1. task[t].pc \in Empty /\ task'[t].pc = "send" /\ task'[t].cur = task[t].cur
      BY <1>0, <2>0, <2>10 DEF LookupHit, WaitHit, At, Empty, Task
    <3>2. PICK k : CheckoutMatching(Slot(t), k, Conns)
      BY <2>10 DEF LookupHit, WaitHit
    <3>3. PICK c : handle' = [handle EXCEPT ![Slot(t)] = CheckedOut(c, k)]
      BY <3>2 DEF CheckoutMatching
    <3> QED BY <2>4, <2>7, <3>1, <3>3, KindsOfPhases DEF Carrying
  <2>11. CASE LookupMiss(t) \/ WaitMiss(t)
    <3>1. task[t].pc \in Empty /\ task'[t].pc \in Empty /\ task'[t].cur = task[t].cur
      BY <1>0, <2>0, <2>11, MissedEmpty DEF LookupMiss, WaitMiss, Goto, At, Empty, Task
    <3>2. handle' = handle
      BY <2>5, <2>11 DEF LookupMiss, WaitMiss
    <3> QED BY <2>3, <3>1, <3>2, KindsOfPhases
  <2>12. CASE \E h \in Hosts, c \in Conns : ResolveHit(t, h, AddrOf[c])
    <3>1. task[t].pc \in Empty /\ task'[t].pc = "send" /\ task'[t].cur = task[t].cur
      BY <1>0, <2>0, <2>12 DEF ResolveHit, At, Empty, Task
    <3>2. PICK h, a, route : CheckoutCoalesced(Slot(t), h, a, route)
      BY <2>12 DEF ResolveHit
    <3>3. PICK c, k : handle' = [handle EXCEPT ![Slot(t)] = CheckedOut(c, k)]
      BY <3>2 DEF CheckoutCoalesced
    <3> QED BY <2>4, <2>7, <3>1, <3>3, KindsOfPhases DEF Carrying
  <2>13. CASE \E h \in Hosts, c \in Conns : ResolveMiss(t, h, AddrOf[c])
    <3>1. /\ task[t].pc \in Empty /\ task'[t].pc \in Empty /\ task'[t].cur = task[t].cur
          /\ handle' = handle
      BY <1>0, <2>0, <2>13 DEF ResolveMiss, CheckoutCoalescedMiss, Goto, At, Empty, Task
    <3> QED BY <2>3, <3>1, KindsOfPhases
  <2>14. CASE Mark(t) \/ Remark(t) \/ FellBack(t) \/ Unmark(t) \/ Responded(t)
    <3>1. /\ \/ task[t].pc \in Empty /\ task'[t].pc \in Empty
             \/ task[t].pc \in Carrying /\ task'[t].pc \in Carrying
          /\ task'[t].cur = task[t].cur /\ handle' = handle
      BY <1>0, <2>0, <2>14 DEF Mark, Remark, FellBack, Unmark, Responded, At, Empty, Carrying, Task, vars
    <3> QED BY <2>3, <3>1, KindsOfPhases
  <2>15. CASE Reserve(t)
    <3>1. task[t].pc \in Empty /\ task'[t].cur = task[t].cur
      BY <1>0, <2>0, <2>15 DEF Reserve, Goto, At, Empty, Task
    <3>2. CASE TryReserveActive(Slot(t), task[t].key) /\ Goto(t, "dial")
      <4>1. task'[t].pc = "dial" /\ Changed({"reservation"})
        BY <1>0, <2>1, <3>2 DEF TryReserveActive, Goto, Task
      <4> QED BY <2>4a, <3>1, <4>1, KindsOfPhases
    <3>3. CASE UNCHANGED vars /\ Goto(t, "unwind")
      <4>1. task'[t].pc = "unwind" /\ handle' = handle
        BY <1>0, <3>3 DEF Goto, Task, vars
      <4> QED BY <2>3, <3>1, <4>1, KindsOfPhases
    <3> QED BY <2>15, <3>2, <3>3 DEF Reserve
  <2>16. CASE \E c \in Conns : Dialled(t, c)
    <3>0. PICK c \in Conns : Dialled(t, c)
      BY <2>16
    <3>1. task[t].pc = "dial" /\ task'[t].pc \in Carrying /\ task'[t].cur = task[t].cur
      BY <1>0, <2>0, <3>0 DEF Dialled, Goto, At, Carrying, Task
    <3>2. handle' = [handle EXCEPT ![Slot(t)].kind = "original", ![Slot(t)].conn = c]
      BY <3>0 DEF Dialled, AttachActiveReservation
    <3>3. handle' = [handle EXCEPT ![Slot(t)] = [@ EXCEPT !.kind = "original", !.conn = c]]
      BY <1>0, <2>1, <3>2
    <3>4. [handle[Slot(t)] EXCEPT !.kind = "original", !.conn = c].kind = "original"
      BY <1>0, <2>1 DEF Handle
    <3> QED BY <2>4, <3>1, <3>3, <3>4, KindsOfPhases
  <2>17. CASE Rekey(t) \/ Share(t)
    <3>1. task[t].pc \in Carrying /\ task'[t].pc \in Carrying /\ task'[t].cur = task[t].cur
      BY <1>0, <2>0, <2>17 DEF Rekey, Share, Goto, At, Carrying, Task
    <3>2. Changed({"original", "clone"})
      <4>1. CASE RekeyActive(Slot(t))
        BY <1>0, <2>1, <4>1 DEF RekeyActive
      <4>2. CASE ShareFresh(Slot(t))
        BY <1>0, <2>1, <4>2 DEF ShareFresh, Handle
      <4> QED BY <2>17, <4>1, <4>2 DEF Rekey, Share
    <3> QED BY <2>4a, <3>1, <3>2, KindsOfPhases
  <2>18. CASE PreferExisting(t)
    <3>1. task[t].pc = "dialled" /\ task'[t].cur = task[t].cur
      BY <1>0, <2>0, <2>18 DEF PreferExisting, Goto, At, Task
    <3>2. handle[Slot(t)].kind \in {"original", "clone"}
      BY <2>2, <3>1, KindsOfPhases DEF Carrying
    <3>3. CASE CheckoutMatching(Other(t), task[t].key, Conns) /\ Goto(t, "swap")
      <4>1. PICK c, k : handle' = [handle EXCEPT ![Other(t)] = CheckedOut(c, k)]
        BY <3>3 DEF CheckoutMatching
      <4>2. task'[t].pc = "swap"
        BY <1>0, <3>3 DEF Goto, Task
      <4>3. /\ handle'[Other(t)].kind \in {"original", "clone"}
            /\ handle'[Slot(t)] = handle[Slot(t)]
            /\ \A s \in Slots : s # Other(t) => handle'[s] = handle[s]
        BY <1>0, <2>1, <2>7, <4>1
      <4>4. Slot(t)' = Slot(t) /\ Other(t)' = Other(t)
        BY <3>1 DEF Slot, Other
      <4>5. TaskHolds(t)'
        BY <3>2, <4>2, <4>3, <4>4, KindsOfPhases DEF TaskHolds, Owns
      <4> QED BY <2>0, <4>3, <4>5, HoldsElsewhere
    <3>4. CASE CheckoutNone(task[t].key) /\ Goto(t, "share")
      <4>1. handle' = handle /\ task'[t].pc = "share"
        BY <1>0, <2>5, <3>4 DEF Goto, Task
      <4> QED BY <2>3, <3>1, <4>1, KindsOfPhases DEF Carrying
    <3> QED BY <2>18, <3>3, <3>4 DEF PreferExisting
  <2>19. CASE Swap(t)
    <3>1. /\ task[t].pc = "swap" /\ task'[t].pc = "unmark" /\ task'[t].cur = 3 - task[t].cur
          /\ handle' = [handle EXCEPT ![Slot(t)] = Nothing]
      BY <1>0, <2>0, <2>19 DEF Swap, DropHandle, At, Task
    <3>2. task[t].cur \in {1, 2}
      BY <2>0 DEF Task
    <3>3. Slot(t)' = Other(t) /\ Other(t)' = Slot(t)
      BY <3>1, <3>2 DEF Slot, Other
    <3>4. /\ handle'[Slot(t)].kind = "none" /\ handle'[Other(t)] = handle[Other(t)]
          /\ \A s \in Slots : s # Slot(t) => handle'[s] = handle[s]
      BY <1>0, <2>1, <2>8, <3>1
    <3>5. handle[Other(t)].kind \in {"original", "clone"}
      BY <2>2, <3>1, KindsOfPhases
    <3>6. TaskHolds(t)'
      BY <3>1, <3>3, <3>4, <3>5, KindsOfPhases DEF TaskHolds, Owns, Carrying
    <3> QED BY <2>0, <3>4, <3>6, HoldsElsewhere
  <2>20. CASE Accepted(t) \/ Rejected(t)
    <3>1. /\ task[t].pc \in Carrying /\ task'[t].pc \in Carrying \cup {"unwind"}
          /\ task'[t].cur = task[t].cur
      BY <1>0, <2>0, <2>20 DEF Accepted, Rejected, Goto, At, Carrying, Task
    <3>2. handle' = handle
      BY <2>6, <2>20 DEF Accepted, Rejected, SendH1, vars
    <3> QED BY <2>3, <3>1, <3>2, KindsOfPhases
  <2>21. CASE \E reason \in {"ambiguous", "unprocessed"}, n \in {0, 1} : Stale(t, reason, n)
    <3>1. /\ task[t].pc \in Carrying /\ task'[t].pc \in Carrying \cup {"unwind"}
          /\ task'[t].cur = task[t].cur
      BY <1>0, <2>0, <2>21 DEF Stale, At, Carrying, Task
    <3>2. handle' = handle
      BY <2>6, <2>21 DEF Stale
    <3> QED BY <2>3, <3>1, <3>2, KindsOfPhases
  <2>22. CASE Malformed(t) \/ Resume(t)
    <3>1. /\ task[t].pc \in Carrying /\ task'[t].pc \in Empty \cup {"unwind"}
          /\ task'[t].cur = task[t].cur
      BY <1>0, <2>0, <2>22, MissedEmpty DEF Malformed, Resume, Goto, At, Carrying, Empty, Task
    <3>2. handle' = [handle EXCEPT ![Slot(t)] = Nothing]
      BY <2>22 DEF Malformed, Resume, RetireMultiplexTransport, DropHandle
    <3> QED BY <2>4, <2>8, <3>1, <3>2, KindsOfPhases
  <2>23. CASE CheckIn(t)
    <3>1. task[t].pc = "checkin" /\ task'[t].pc = "idle" /\ task'[t].cur = 1
      BY <1>0, <2>0, <2>23 DEF CheckIn, IdleTask, Started, At
    <3>2. Changed(Leftover)
      <4>1. CASE DropHandle(Slot(t)) \/ CheckinNow(Slot(t))
        BY <1>0, <2>1, <2>8, <4>1 DEF DropHandle, CheckinNow, Leftover
      <4>2. CASE RetainConnectStreamPermit(Slot(t))
        BY <1>0, <2>1, <4>2 DEF RetainConnectStreamPermit, Handle, Leftover
      <4>3. CASE CheckinDeferred(Slot(t))
        BY <1>0, <2>1, <4>3 DEF CheckinDeferred, Handle, Leftover
      <4> QED BY <2>23, <4>1, <4>2, <4>3 DEF CheckIn
    <3>4. handle[Other(t)].kind = "none"
      BY <2>2, <3>1, KindsOfPhases DEF Carrying
    <3>5. /\ handle'[Slot(t)].kind \in Leftover /\ handle'[Other(t)].kind \in Leftover
          /\ \A s \in Slots : s # Slot(t) => handle'[s] = handle[s]
      BY <2>1, <3>2, <3>4 DEF Leftover
    <3>6. Slot(t)' \in {Slot(t), Other(t)} /\ Other(t)' \in {Slot(t), Other(t)}
      BY <3>1, SlotsApart DEF Slot, Other
    <3>7. TaskHolds(t)'
      BY <3>1, <3>5, <3>6, KindsOfPhases DEF TaskHolds, Owns
    <3> QED BY <2>0, <3>5, <3>7, HoldsElsewhere
  <2>24. CASE \E n \in {0, 1} : Abandon(t, n)
    <3>1. /\ task[t].pc \in Empty \cup Carrying \cup {"dial"} /\ task'[t].pc = "unwind"
          /\ task'[t].cur = task[t].cur /\ handle' = handle
      BY <1>0, <2>0, <2>24 DEF Abandon, At, Empty, Carrying, Task, vars
    <3> QED BY <2>3, <3>1, KindsOfPhases
  <2>25. CASE UnwindHandle(t)
    <3>1. /\ task[t].pc = "unwind" /\ task' = task
          /\ handle' = [handle EXCEPT ![Slot(t)] = Nothing]
      BY <2>25 DEF UnwindHandle, DropReservation, DropHandle, At
    <3> QED BY <2>4, <2>8, <3>1, KindsOfPhases
  <2>26. CASE UnwindMark(t)
    <3>1. /\ task[t].pc = "unwind" /\ task'[t].pc = "idle" /\ task'[t].cur = 1 /\ handle' = handle
          /\ handle[Slot(t)].kind = "none"
      BY <1>0, <2>0, <2>26 DEF UnwindMark, IdleTask, Started, At, Owns, vars
    <3>2. handle[Other(t)].kind = "none"
      BY <2>2, <3>1, KindsOfPhases
    <3>3. Slot(t)' \in {Slot(t), Other(t)} /\ Other(t)' \in {Slot(t), Other(t)}
      BY <3>1, SlotsApart DEF Slot, Other
    <3>4. TaskHolds(t)'
      BY <3>1, <3>2, <3>3, KindsOfPhases DEF TaskHolds, Owns, Leftover
    <3> QED BY <2>0, <3>1, <3>4, HoldsElsewhere
  <2> QED
    BY <1>3, <2>9, <2>10, <2>11, <2>12, <2>13, <2>14, <2>15, <2>16, <2>17, <2>18, <2>19, <2>20, <2>21,
       <2>22, <2>23, <2>24, <2>25, <2>26 DEF TaskStep
<1> QED BY <1>1, <1>2, <1>3 DEF DispatchNext

(***************************************************************************)
(* The theorems.                                                           *)
(***************************************************************************)
\* The invariant the theorems below read off: types, marks and replays together.
LEMMA DispatchInductive == DispatchSpec => []DispatchInv
<1>1. DispatchInit => DispatchInv
  <2> SUFFICES ASSUME DispatchInit PROVE DispatchInv
    OBVIOUS
  <2>1. marks = {} /\ task = [t \in Tasks |-> IdleTask]
    BY DEF DispatchInit
  <2>2. DispatchTypeOK
    BY <2>1, StartedType DEF DispatchTypeOK
  <2>3. IdleTask.marked = FALSE
    BY DEF IdleTask, Started
  <2>4. MarkInv
    BY <2>1, <2>3 DEF MarkInv, MarkOwned, Owners
  <2>5. ReplayInv
    BY <2>1, StartedReplay DEF ReplayInv
  <2> QED BY <2>2, <2>4, <2>5 DEF DispatchInv
<1>2. DispatchInv /\ [DispatchNext]_dispatchVars => DispatchInv'
  BY DispatchTypeStep, MarkStep, ReplayStep DEF DispatchInv
<1> QED BY <1>1, <1>2, PTL DEF DispatchSpec

\* connecting_h2 and the locals of every dispatch keep their types.
THEOREM DispatchTypeCorrect == DispatchSpec => []DispatchTypeOK
  BY DispatchInductive, PTL DEF DispatchInv

\* mark_connecting_h2 and H2ConnectGuard: every mark has exactly one owner, so
\* none is left behind and none removed early, whatever fails or is cancelled.
THEOREM MarkOwnedHolds == DispatchSpec => []MarkOwned
<1>1. DispatchInv => MarkOwned
  BY DEF DispatchInv, MarkInv
<1> QED BY <1>1, DispatchInductive, PTL

\* StaleReplayBudget: two wire attempts at most, for any sequence of failures.
THEOREM OneReplayHolds == DispatchSpec => []OneReplay
<1>1. DispatchInv => OneReplay
  <2> SUFFICES ASSUME DispatchInv, NEW t \in Tasks PROVE task[t].wire <= 2
    BY DEF OneReplay
  <2>1. task[t].wire \in Nat /\ TaskReplay(task[t])
    BY DEF DispatchInv, DispatchTypeOK, ReplayInv, Task
  <2> QED BY <2>1 DEF TaskReplay, Once
<1> QED BY <1>1, DispatchInductive, PTL

\* RequestReplayPolicy::permits: a one-shot body is sent once.
THEOREM OneShotSentOnceHolds == DispatchSpec => []OneShotSentOnce
<1>1. DispatchInv => OneShotSentOnce
  <2> SUFFICES ASSUME DispatchInv, NEW t \in Tasks, task[t].req.oneShot PROVE task[t].wire <= 1
    BY DEF OneShotSentOnce
  <2>1. task[t].wire \in Nat /\ TaskReplay(task[t])
    BY DEF DispatchInv, DispatchTypeOK, ReplayInv, Task
  <2> QED BY <2>1 DEF TaskReplay, Once
<1> QED BY <1>1, DispatchInductive, PTL

\* RequestReplayPolicy::permits: a request that is not idempotent is processed
\* by the server at most once, over all the connections dispatch tries.
THEOREM ProcessedOnceHolds == DispatchSpec => []ProcessedOnce
<1>1. DispatchInv => ProcessedOnce
  <2> SUFFICES ASSUME DispatchInv, NEW t \in Tasks, ~task[t].req.idempotent
               PROVE  task[t].processed <= 1
    BY DEF ProcessedOnce
  <2>1. task[t].processed \in Nat /\ TaskReplay(task[t])
    BY DEF DispatchInv, DispatchTypeOK, ReplayInv, Task
  <2> QED BY <2>1 DEF TaskReplay, Once
<1> QED BY <1>1, DispatchInductive, PTL

\* Dispatch uses the pool only as the pool's specification allows: the
\* composition implements the specification of the pool alone.
THEOREM DispatchImplementsPool == DispatchSpec => PoolSpec
<1>1. DispatchInit => Init
  BY DEF DispatchInit
<1>2. DispatchInv /\ [DispatchNext]_dispatchVars => [Next]_vars
  BY DispatchPoolStep DEF DispatchInv
<1> QED BY <1>1, <1>2, DispatchInductive, PTL DEF DispatchSpec, PoolSpec, Spec

\* So what is proved of the pool holds while requests run over it: the counts of
\* ActiveStreamPermit are exact, no slot is released twice, the caps hold, every
\* transport has one owner, none idles busy, and the SAN index misses none.
COROLLARY DispatchPoolSafe ==
  DispatchSpec => /\ [](TypeOK /\ StreamsExact /\ NoEarlyRelease)
                  /\ [](ActiveWithinCap /\ StreamsWithinCap)
                  /\ [](OneOwner /\ NoBusyIdle /\ SanIndexCovers)
<1>1. PoolSpec => /\ [](TypeOK /\ StreamsExact /\ NoEarlyRelease)
                  /\ [](ActiveWithinCap /\ StreamsWithinCap)
                  /\ [](OneOwner /\ NoBusyIdle /\ SanIndexCovers)
  BY TypeCorrect, StreamsExactHolds, NoEarlyReleaseHolds, ActiveWithinCapHolds, StreamsWithinCapHolds,
     OneOwnerHolds, NoBusyIdleHolds, SanIndexCoversHolds, PTL DEF PoolSpec
<1> QED BY <1>1, DispatchImplementsPool, PTL

\* In every phase a task holds of the pool what the phase says.  The steps rely on
\* the type of handle, which the pool's theorem gives.
LEMMA HoldInductive == DispatchSpec => []HoldInv
<1>1. DispatchInit => HoldInv
  <2> SUFFICES ASSUME DispatchInit, NEW t \in Tasks PROVE TaskHolds(t)
    BY DEF HoldInv
  <2>1. task[t].pc = "idle" /\ task[t].cur = 1
    BY DEF DispatchInit, IdleTask, Started
  <2>2. <<t, 1>> \in Slots /\ <<t, 2>> \in Slots
    BY DispatchAssumption
  <2>3. handle[<<t, 1>>].kind = "none" /\ handle[<<t, 2>>].kind = "none"
    BY <2>2 DEF DispatchInit, Init, Nothing
  <2>4. Slot(t) = <<t, 1>> /\ Other(t) = <<t, 2>>
    BY <2>1 DEF Slot, Other
  <2> QED BY <2>1, <2>3, <2>4, KindsOfPhases DEF TaskHolds, Owns, Leftover
<1>2. TypeOK /\ DispatchInv /\ HoldInv /\ [DispatchNext]_dispatchVars => HoldInv'
  BY HoldStep DEF DispatchInv
<1> QED BY <1>1, <1>2, DispatchInductive, DispatchPoolSafe, PTL DEF DispatchSpec

\* A request that ended, in whatever way, holds neither a mark of connecting_h2 nor
\* a slot of the pool, but for a background check-in or the permit of its tunnel.
THEOREM EndedHoldsNothingHolds == DispatchSpec => []EndedHoldsNothing
<1>1. DispatchInv /\ HoldInv => EndedHoldsNothing
  <2> SUFFICES ASSUME DispatchInv, HoldInv, NEW t \in Tasks, At(t, {"idle"})
               PROVE  /\ ~task[t].marked
                      /\ \A i \in {1, 2} : Owns(<<t, i>>, {"none", "draining", "permit"})
    BY DEF EndedHoldsNothing
  <2>1. task[t].pc = "idle"
    BY DEF At
  <2>2. ~task[t].marked
    BY <2>1 DEF DispatchInv, MarkInv, MarkPhases
  <2>3. Owns(Slot(t), Leftover) /\ Owns(Other(t), Leftover)
    BY <2>1, KindsOfPhases DEF HoldInv, TaskHolds
  <2>4. \A i \in {1, 2} : <<t, i>> \in {Slot(t), Other(t)}
    BY SlotsApart DEF DispatchInv
  <2> QED BY <2>2, <2>3, <2>4 DEF Owns, Leftover
<1> QED BY <1>1, DispatchInductive, HoldInductive, PTL
=============================================================================
