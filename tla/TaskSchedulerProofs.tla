------------------------- MODULE TaskSchedulerProofs -------------------------
(***************************************************************************)
(* Proofs about TaskScheduler, for every set of tasks and kinds of them,   *)
(* every number of executions and every budget, and at the end about the   *)
(* cache of the same file, SharedCache, for every set of callers and every *)
(* number of cancellations and failures.                                   *)
(***************************************************************************)
EXTENDS TaskScheduler, SharedCache, TLAPS

\* The executions the invariant counts are those of OneRunPerTask.
LEMMA CountedAlone ==
  OneRunPerTask <=> \A e, d \in Execs : Counted(e) /\ Counted(d) /\ TaskOf(e) = TaskOf(d)
                                          => e = d
BY DEF OneRunPerTask, Counted, Live, Free

\* An execution that has begun.
LEMMA BegunIs ==
  ASSUME NEW t, NEW at, NEW forced
  PROVE  LET x == Begun(t, at, forced)
         IN  x.at = at /\ x.task = t /\ x.forced = forced
BY DEF Begun, NoExec

\* Each task has an execution of its own, on a name that was free; the others
\* are left as they were.
Spawned(name, due, at, forced, ex, rw) ==
  /\ name \in [due -> Free]
  /\ \A t, s \in due : name[t] = name[s] => t = s
  /\ \A t \in due : exec'[name[t]] = Begun(t, at, forced) /\ rows'[name[t]] = None
  /\ \A e \in Execs : (\A t \in due : name[t] # e) => exec'[e] = ex[e] /\ rows'[e] = rw[e]

\* That is what create_task() comes to (Spawn).
LEMMA SpawnMakes ==
  ASSUME NEW due \in SUBSET Tasks, NEW at \in {"spawned", "chained"},
         NEW forced \in BOOLEAN,
         NEW ex \in [Execs -> Executions], NEW rw \in [Execs -> Rows],
         Spawn(due, at, forced, ex, rw)
  PROVE  /\ exec' \in [Execs -> Executions] /\ rows' \in [Execs -> Rows]
         /\ \E name : Spawned(name, due, at, forced, ex, rw)
<1> DEFINE By(name, e) == {t \in due : name[t] = e}
<1>1. PICK name \in Injection(due, Free) :
        /\ exec' = [e \in Execs |-> IF By(name, e) = {} THEN ex[e]
                                    ELSE Begun(CHOOSE t \in By(name, e) : TRUE, at, forced)]
        /\ rows' = [e \in Execs |-> IF By(name, e) = {} THEN rw[e] ELSE None]
  BY DEF Spawn
<1>2. name \in [due -> Free] /\ \A t, s \in due : name[t] = name[s] => t = s
  BY <1>1 DEF Injection, IsInjective
<1>3. Free \subseteq Execs
  BY DEF Free
<1>4. \A t \in due : (CHOOSE s \in By(name, name[t]) : TRUE) = t
  BY <1>2
<1>5. \A t \in due : Begun(t, at, forced) \in Executions
  BY DEF Begun, NoExec, Executions
<1>6. \A e \in Execs : By(name, e) # {} => (CHOOSE t \in By(name, e) : TRUE) \in due
  OBVIOUS
<1>7. exec' \in [Execs -> Executions] /\ rows' \in [Execs -> Rows]
  BY <1>1, <1>5, <1>6 DEF Rows
<1>8. \A t \in due : exec'[name[t]] = Begun(t, at, forced) /\ rows'[name[t]] = None
  BY <1>1, <1>2, <1>3, <1>4
<1>9. \A e \in Execs : (\A t \in due : name[t] # e) => exec'[e] = ex[e] /\ rows'[e] = rw[e]
  BY <1>1
<1> QED BY <1>2, <1>7, <1>8, <1>9 DEF Spawned

\* A step that dispatches tasks none of which is in flight, and puts them in
\* _executing; or starts forced runs beside whatever runs.
LEMMA SpawnKeeps ==
  ASSUME IndInv, up, NEW due \in SUBSET Tasks, NEW forced \in BOOLEAN,
         ~forced => due \cap executing = {},
         Spawn(due, "spawned", forced, exec, rows),
         executing' = IF forced THEN executing ELSE executing \cup due,
         handles' = handles, up' = up,
         spent' \in [Deeds -> Nat], spent'["stop"] = 0 => spent["stop"] = 0
  PROVE  IndInv'
<1> USE ConstantsAssumption DEF ConstantsAssumption
<1>1. /\ exec' \in [Execs -> Executions] /\ rows' \in [Execs -> Rows]
      /\ \E name : Spawned(name, due, "spawned", forced, exec, rows)
  <2>1. exec \in [Execs -> Executions] /\ rows \in [Execs -> Rows]
    BY DEF IndInv, Shape
  <2> QED BY <2>1, SpawnMakes
<1> PICK name : Spawned(name, due, "spawned", forced, exec, rows)
  BY <1>1
<1>2. /\ name \in [due -> Free] /\ \A t, s \in due : name[t] = name[s] => t = s
      /\ \A t \in due : exec'[name[t]] = Begun(t, "spawned", forced)
                          /\ rows'[name[t]] = None
      /\ \A e \in Execs : (\A t \in due : name[t] # e)
                            => exec'[e] = exec[e] /\ rows'[e] = rows[e]
  BY DEF Spawned
<1>3. \A t \in due : /\ name[t] \in Execs /\ exec[name[t]].at = "free"
                     /\ exec'[name[t]].at = "spawned" /\ exec'[name[t]].task = t
                     /\ exec'[name[t]].forced = forced
  <2> SUFFICES ASSUME NEW t \in due
               PROVE /\ name[t] \in Execs /\ exec[name[t]].at = "free"
                     /\ exec'[name[t]].at = "spawned" /\ exec'[name[t]].task = t
                     /\ exec'[name[t]].forced = forced
    OBVIOUS
  <2>1. name[t] \in Free
    BY <1>2
  <2>2. exec'[name[t]] = Begun(t, "spawned", forced)
    BY <1>2
  <2> QED BY <2>1, <2>2, BegunIs DEF Free
<1>4. \A e \in Execs : exec[e].at # "free" => exec'[e] = exec[e] /\ rows'[e] = rows[e]
  BY <1>2, <1>3
<1>5. Shape'
  <2>1. \A e \in Live' : TaskOf(e)' \in Tasks
    BY <1>2, <1>3 DEF IndInv, Shape, Live, Free, TaskOf
  <2>2. executing' \subseteq Tasks
    BY DEF IndInv, Shape
  <2> QED BY <1>1, <2>1, <2>2 DEF IndInv, Shape
<1>6. RowsFit'
  <2> SUFFICES ASSUME NEW e \in Execs PROVE Fits(exec[e], rows[e])'
    BY DEF RowsFit, Fits
  <2>1. CASE \E t \in due : name[t] = e
    BY <1>2, <1>3, <2>1 DEF Fits, Active
  <2>2. CASE \A t \in due : name[t] # e
    BY <1>2, <2>2 DEF IndInv, RowsFit, Fits
  <2> QED BY <2>1, <2>2
<1>7. DownIsEmpty'
  BY DEF DownIsEmpty
<1>8. ExecutingIsLive'
  <2> SUFFICES ASSUME NEW t \in executing'
               PROVE \E e \in Execs : /\ exec'[e].at \notin {"free", "chained"}
                                      /\ exec'[e].task = t /\ ~exec'[e].forced
    BY DEF ExecutingIsLive, Live, Free, TaskOf
  <2>1. CASE t \in executing
    BY <1>4, <2>1 DEF IndInv, ExecutingIsLive, Live, Free, TaskOf
  <2>2. CASE t \notin executing
    BY <1>3, <2>2
  <2> QED BY <2>1, <2>2
<1>9. HandleIsLive'
  BY <1>4 DEF IndInv, Shape, HandleIsLive, TaskOf
<1>10. CountedIsExecuting' /\ OneRunUnlessStopped'
  <2> SUFFICES ASSUME spent'["stop"] = 0
               PROVE /\ \A e \in Execs : Counted(e)' => TaskOf(e)' \in executing'
                     /\ OneRunPerTask'
    BY DEF CountedIsExecuting, OneRunUnlessStopped
  <2>1. \A e \in Execs : Counted(e) => TaskOf(e) \in executing
    BY DEF IndInv, CountedIsExecuting
  <2>2. \A e, d \in Execs : Counted(e) /\ Counted(d) /\ TaskOf(e) = TaskOf(d) => e = d
    BY CountedAlone DEF IndInv, OneRunUnlessStopped
  <2>3. \A e \in Execs : Counted(e)' =>
          \/ ~forced /\ \E t \in due : e = name[t] /\ TaskOf(e)' = t
          \/ Counted(e) /\ TaskOf(e)' = TaskOf(e)
    BY <1>2, <1>3 DEF Counted, TaskOf
  <2>4. \A e \in Execs : Counted(e)' => TaskOf(e)' \in executing'
    BY <2>1, <2>3
  <2>5. \A e, d \in Execs : Counted(e)' /\ Counted(d)' /\ TaskOf(e)' = TaskOf(d)' => e = d
    BY <2>1, <2>2, <2>3
  <2>6. OneRunPerTask'
    BY <2>5 DEF OneRunPerTask, Counted, Live, Free
  <2> QED BY <2>4, <2>6
<1>11. ChainedUnforced'
  BY <1>2, <1>3 DEF IndInv, ChainedUnforced
<1> QED BY <1>5, <1>6, <1>7, <1>8, <1>9, <1>10, <1>11 DEF IndInv

\* A step in which executions are marked cancelled, rows are marked aborted and
\* a stop takes an id out of _executing; or nothing of this happens.
LEMMA MarkKeeps ==
  ASSUME IndInv,
         exec' \in [Execs -> Executions],
         \A e \in Execs : /\ exec'[e].at = exec[e].at /\ exec'[e].task = exec[e].task
                          /\ exec'[e].forced = exec[e].forced
                          /\ exec'[e].out = exec[e].out,
         rows' \in [Execs -> Rows], \A e \in Execs : rows'[e] \in {rows[e], "aborted"},
         handles' = handles, executing' \subseteq executing, up' = up,
         spent' \in [Deeds -> Nat],
         spent'["stop"] = 0 => spent["stop"] = 0 /\ executing' = executing
  PROVE  IndInv'
<1>1. \A e \in Execs : Counted(e)' <=> Counted(e)
  BY DEF Counted
<1>2. Shape'
  BY DEF IndInv, Shape, Live, Free, TaskOf
<1>3. RowsFit'
  <2> SUFFICES ASSUME NEW e \in Execs PROVE Fits(exec[e], rows[e])'
    BY DEF RowsFit
  <2>1. Fits(exec[e], rows[e])
    BY DEF IndInv, RowsFit
  <2> QED BY <2>1 DEF Fits, Active
<1>4. DownIsEmpty'
  BY DEF IndInv, DownIsEmpty, Live, Free
<1>5. ExecutingIsLive'
  BY DEF IndInv, ExecutingIsLive, Live, Free, TaskOf
<1>6. HandleIsLive'
  BY DEF IndInv, Shape, HandleIsLive, TaskOf
<1>7. CountedIsExecuting'
  BY <1>1 DEF IndInv, CountedIsExecuting, TaskOf
<1>8. OneRunUnlessStopped'
  BY DEF IndInv, OneRunUnlessStopped, OneRunPerTask, Live, Free, TaskOf
<1>9. ChainedUnforced'
  BY DEF IndInv, ChainedUnforced
<1> QED BY <1>2, <1>3, <1>4, <1>5, <1>6, <1>7, <1>8, <1>9 DEF IndInv

\* e keeps on, suspended elsewhere: its first step has it join the registries,
\* where no other execution of its task may be then.
LEMMA MoveKeeps ==
  ASSUME IndInv, up, NEW e \in Execs, exec[e].at # "free",
         ~(exec[e].at = "chained" /\ TaskOf(e) \in executing),
         exec' \in [Execs -> Executions], rows' \in [Execs -> Rows],
         exec'[e].at \in {"slot", "gate", "work", "winding"},
         exec'[e].task = TaskOf(e), exec'[e].forced = exec[e].forced,
         Fits(exec[e], rows[e])',
         \A d \in Execs \ {e} : exec'[d] = exec[d] /\ rows'[d] = rows[d],
         handles' = HandlesOf(e), executing' = JoinedBy(e),
         up' = up, spent' = spent
  PROVE  IndInv'
<1> USE ConstantsAssumption DEF ConstantsAssumption
<1>1. /\ exec'[e].at \in {"slot", "gate", "work", "winding"}
      /\ exec'[e].task = TaskOf(e) /\ exec'[e].forced = exec[e].forced
      /\ \A d \in Execs \ {e} : exec'[d] = exec[d] /\ rows'[d] = rows[d]
  OBVIOUS
<1>2. TaskOf(e) \in Tasks
  BY DEF IndInv, Shape, Live, Free
<1>3. Shape'
  <2>1. \A d \in Live' : TaskOf(d)' \in Tasks
    BY <1>1, <1>2 DEF IndInv, Shape, Live, Free, TaskOf
  <2>2. handles' \in [Tasks -> Execs \cup {None}]
    BY DEF IndInv, Shape, HandlesOf
  <2>3. executing' \subseteq Tasks
    BY <1>2 DEF IndInv, Shape, JoinedBy
  <2> QED BY <1>1, <2>1, <2>2, <2>3 DEF IndInv, Shape
<1>4. RowsFit'
  <2> SUFFICES ASSUME NEW d \in Execs PROVE Fits(exec[d], rows[d])'
    BY DEF RowsFit
  <2>1. Fits(exec[d], rows[d])
    BY DEF IndInv, RowsFit
  <2> QED BY <1>1, <2>1 DEF Fits
<1>5. DownIsEmpty'
  BY DEF DownIsEmpty
<1>6. ExecutingIsLive'
  <2> SUFFICES ASSUME NEW t \in executing'
               PROVE \E d \in Execs : /\ exec'[d].at \notin {"free", "chained"}
                                      /\ exec'[d].task = t /\ ~exec'[d].forced
    BY DEF ExecutingIsLive, Live, Free, TaskOf
  <2>1. CASE t \in executing
    <3>1. PICK d \in Execs : /\ exec[d].at \notin {"free", "chained"}
                             /\ exec[d].task = t /\ ~exec[d].forced
      BY <2>1 DEF IndInv, ExecutingIsLive, Live, Free, TaskOf
    <3> QED BY <1>1, <3>1 DEF TaskOf
  <2>2. CASE t \notin executing
    <3>1. exec[e].at = "chained" /\ t = TaskOf(e)
      BY <2>2 DEF JoinedBy
    <3>2. ~exec[e].forced
      BY <3>1 DEF IndInv, ChainedUnforced
    <3> QED BY <1>1, <3>1, <3>2
  <2> QED BY <2>1, <2>2
<1>7. HandleIsLive'
  <2> SUFFICES ASSUME NEW t \in Tasks, handles'[t] # None
               PROVE exec'[handles'[t]].task = t
                       /\ exec'[handles'[t]].at \in {"slot", "gate", "work", "winding"}
    BY DEF HandleIsLive, TaskOf
  <2>1. CASE First(e) /\ t = TaskOf(e)
    BY <1>1, <2>1 DEF HandlesOf, IndInv, Shape
  <2>2. CASE ~(First(e) /\ t = TaskOf(e))
    <3>1. handles'[t] = handles[t] /\ handles[t] \in Execs
      BY <2>2 DEF HandlesOf, IndInv, Shape
    <3>2. exec[handles[t]].task = t
            /\ exec[handles[t]].at \in {"slot", "gate", "work", "winding"}
      BY <3>1 DEF IndInv, HandleIsLive, TaskOf
    <3> QED BY <1>1, <3>1, <3>2 DEF TaskOf
  <2> QED BY <2>1, <2>2
<1>8. CountedIsExecuting' /\ OneRunUnlessStopped'
  <2> SUFFICES ASSUME spent["stop"] = 0
               PROVE /\ \A d \in Execs : Counted(d)' => TaskOf(d)' \in executing'
                     /\ OneRunPerTask'
    BY DEF CountedIsExecuting, OneRunUnlessStopped
  <2>1. \A d \in Execs : Counted(d) => TaskOf(d) \in executing
    BY DEF IndInv, CountedIsExecuting
  <2>2. \A b, d \in Execs : Counted(b) /\ Counted(d) /\ TaskOf(b) = TaskOf(d) => b = d
    BY CountedAlone DEF IndInv, OneRunUnlessStopped
  <2>3. \A d \in Execs : TaskOf(d)' = TaskOf(d)
    BY <1>1 DEF TaskOf
  <2>4. \A d \in Execs \ {e} : Counted(d)' <=> Counted(d)
    BY <1>1 DEF Counted
  <2>5. Counted(e)' => Counted(e) \/ exec[e].at = "chained"
    BY <1>1 DEF Counted
  <2>6. \A d \in Execs : Counted(d)' => TaskOf(d)' \in executing'
    BY <2>1, <2>3, <2>4, <2>5 DEF JoinedBy
  <2>7. \A b, d \in Execs : Counted(b)' /\ Counted(d)' /\ TaskOf(b)' = TaskOf(d)' => b = d
    BY <2>1, <2>2, <2>3, <2>4, <2>5
  <2>8. OneRunPerTask'
    BY <2>7 DEF OneRunPerTask, Counted, Live, Free
  <2> QED BY <2>6, <2>8
<1>9. ChainedUnforced'
  BY <1>1 DEF IndInv, ChainedUnforced
<1> QED BY <1>3, <1>4, <1>5, <1>6, <1>7, <1>8, <1>9 DEF IndInv

\* e is over: it takes its handle and its id out of the registries.  The runs it
\* chains to, on the names in new, have not begun.
LEMMA LeaveKeeps ==
  ASSUME IndInv, up, NEW e \in Execs, exec[e].at # "free",
         ~(exec[e].at = "chained" /\ TaskOf(e) \in executing),
         NEW new \in SUBSET Free,
         exec' \in [Execs -> Executions], rows' \in [Execs -> Rows],
         exec'[e].at = "free", rows'[e] \notin Active,
         \A d \in new : /\ exec'[d].at = "chained" /\ exec'[d].task \in Tasks
                        /\ exec'[d].forced = FALSE /\ rows'[d] \notin Active,
         \A d \in Execs \ (new \cup {e}) : exec'[d] = exec[d] /\ rows'[d] = rows[d],
         Forget(e), up' = up, spent' = spent
  PROVE  IndInv'
<1> USE ConstantsAssumption DEF ConstantsAssumption
<1>1. /\ exec'[e].at = "free" /\ rows'[e] \notin Active
      /\ \A d \in new : /\ d \in Execs /\ d # e /\ exec[d].at = "free"
                        /\ exec'[d].at = "chained" /\ exec'[d].task \in Tasks
                        /\ exec'[d].forced = FALSE /\ rows'[d] \notin Active
      /\ \A d \in Execs \ (new \cup {e}) : exec'[d] = exec[d] /\ rows'[d] = rows[d]
  BY DEF Free
<1>2. TaskOf(e) \in Tasks
  BY DEF IndInv, Shape, Live, Free
<1>3. /\ handles' = [HandlesOf(e) EXCEPT ![TaskOf(e)] = IF @ = e THEN None ELSE @]
      /\ executing' = IF exec[e].forced THEN executing ELSE executing \ {TaskOf(e)}
  BY DEF Forget
<1>4. Shape'
  <2>1. \A d \in Live' : TaskOf(d)' \in Tasks
    BY <1>1 DEF IndInv, Shape, Live, Free, TaskOf
  <2>2. HandlesOf(e) \in [Tasks -> Execs \cup {None}]
    BY DEF IndInv, Shape, HandlesOf
  <2>3. handles' \in [Tasks -> Execs \cup {None}]
    BY <1>3, <2>2
  <2>4. executing' \subseteq Tasks
    BY <1>3 DEF IndInv, Shape
  <2> QED BY <2>1, <2>3, <2>4 DEF IndInv, Shape
<1>5. RowsFit'
  <2> SUFFICES ASSUME NEW d \in Execs PROVE Fits(exec[d], rows[d])'
    BY DEF RowsFit
  <2>1. Fits(exec[d], rows[d])
    BY DEF IndInv, RowsFit
  <2> QED BY <1>1, <2>1 DEF Fits
<1>6. DownIsEmpty'
  BY DEF DownIsEmpty
<1>7. ExecutingIsLive'
  <2> SUFFICES ASSUME NEW t \in executing'
               PROVE \E d \in Execs : /\ exec'[d].at \notin {"free", "chained"}
                                      /\ exec'[d].task = t /\ ~exec'[d].forced
    BY DEF ExecutingIsLive, Live, Free, TaskOf
  <2>1. PICK d \in Execs : /\ exec[d].at \notin {"free", "chained"}
                           /\ exec[d].task = t /\ ~exec[d].forced
    BY <1>3 DEF IndInv, ExecutingIsLive, Live, Free, TaskOf
  <2>2. d # e
    BY <1>3, <2>1 DEF TaskOf
  <2> QED BY <1>1, <2>1, <2>2
<1>8. HandleIsLive'
  <2> SUFFICES ASSUME NEW t \in Tasks, handles'[t] # None
               PROVE exec'[handles'[t]].task = t
                       /\ exec'[handles'[t]].at \in {"slot", "gate", "work", "winding"}
    BY DEF HandleIsLive, TaskOf
  <2>1. HandlesOf(e) \in [Tasks -> Execs \cup {None}]
    BY DEF IndInv, Shape, HandlesOf
  <2>2. handles'[t] = HandlesOf(e)[t] /\ ~(t = TaskOf(e) /\ HandlesOf(e)[t] = e)
    BY <1>2, <1>3, <2>1
  <2>3. handles'[t] = handles[t] /\ handles[t] \in Execs
    BY <1>2, <2>2 DEF HandlesOf, IndInv, Shape
  <2>4. exec[handles[t]].task = t
          /\ exec[handles[t]].at \in {"slot", "gate", "work", "winding"}
    BY <2>3 DEF IndInv, HandleIsLive, TaskOf
  <2>5. handles[t] # e
    <3>1. CASE First(e)
      BY <2>4, <3>1 DEF First
    <3>2. CASE ~First(e)
      BY <2>2, <2>4, <3>2 DEF HandlesOf, TaskOf
    <3> QED BY <3>1, <3>2
  <2> QED BY <1>1, <2>3, <2>4, <2>5
<1>9. CountedIsExecuting' /\ OneRunUnlessStopped'
  <2> SUFFICES ASSUME spent["stop"] = 0
               PROVE /\ \A d \in Execs : Counted(d)' => TaskOf(d)' \in executing'
                     /\ OneRunPerTask'
    BY DEF CountedIsExecuting, OneRunUnlessStopped
  <2>1. \A d \in Execs : Counted(d) => TaskOf(d) \in executing
    BY DEF IndInv, CountedIsExecuting
  <2>2. \A b, d \in Execs : Counted(b) /\ Counted(d) /\ TaskOf(b) = TaskOf(d) => b = d
    BY CountedAlone DEF IndInv, OneRunUnlessStopped
  <2>3. \A d \in Execs : Counted(d)' => /\ d # e /\ Counted(d)
                                        /\ TaskOf(d)' = TaskOf(d)
    BY <1>1 DEF Counted, TaskOf
  <2>4. \A d \in Execs : Counted(d)' => TaskOf(d)' \in executing'
    <3> SUFFICES ASSUME NEW d \in Execs, Counted(d)' PROVE TaskOf(d) \in executing'
      BY <2>3
    <3>1. d # e /\ Counted(d) /\ TaskOf(d) \in executing
      BY <2>1, <2>3
    <3>2. CASE exec[e].forced
      BY <1>3, <3>1, <3>2
    <3>3. CASE ~exec[e].forced /\ TaskOf(d) = TaskOf(e)
      <4>1. Counted(e)
        BY <3>1, <3>3 DEF Counted
      <4> QED BY <2>2, <3>1, <3>3, <4>1
    <3>4. CASE ~exec[e].forced /\ TaskOf(d) # TaskOf(e)
      BY <1>3, <3>1, <3>4
    <3> QED BY <3>2, <3>3, <3>4
  <2>5. \A b, d \in Execs : Counted(b)' /\ Counted(d)' /\ TaskOf(b)' = TaskOf(d)' => b = d
    BY <2>2, <2>3
  <2>6. OneRunPerTask'
    BY <2>5 DEF OneRunPerTask, Counted, Live, Free
  <2> QED BY <2>4, <2>6
<1>10. ChainedUnforced'
  BY <1>1 DEF IndInv, ChainedUnforced
<1> QED BY <1>4, <1>5, <1>6, <1>7, <1>8, <1>9, <1>10 DEF IndInv

\* A chained run whose task is in flight was in no registry yet.
LEMMA DropKeeps ==
  ASSUME IndInv, NEW e \in Execs, Drop(e), up' = up, spent' = spent
  PROVE  IndInv'
<1>1. /\ exec[e].at = "chained" /\ exec' \in [Execs -> Executions]
      /\ exec'[e].at = "free" /\ \A d \in Execs \ {e} : exec'[d] = exec[d]
  BY DEF IndInv, Shape, Drop, Gone, NoExec, Executions
<1>2. rows' = rows /\ handles' = handles /\ executing' = executing
  BY DEF Drop
<1>3. Shape'
  BY <1>1, <1>2 DEF IndInv, Shape, Live, Free, TaskOf
<1>4. RowsFit'
  <2> SUFFICES ASSUME NEW d \in Execs PROVE Fits(exec[d], rows[d])'
    BY DEF RowsFit
  <2>1. Fits(exec[d], rows[d])
    BY DEF IndInv, RowsFit
  <2> QED BY <1>1, <1>2, <2>1 DEF Fits
<1>5. DownIsEmpty'
  BY <1>1, <1>2 DEF IndInv, DownIsEmpty, Live, Free
<1>6. ExecutingIsLive'
  BY <1>1, <1>2 DEF IndInv, ExecutingIsLive, Live, Free, TaskOf
<1>7. HandleIsLive'
  BY <1>1, <1>2 DEF IndInv, Shape, HandleIsLive, TaskOf
<1>8. \A d \in Execs : Counted(d)' => Counted(d) /\ TaskOf(d)' = TaskOf(d)
  BY <1>1 DEF Counted, TaskOf
<1>9. CountedIsExecuting'
  BY <1>2, <1>8 DEF IndInv, CountedIsExecuting
<1>10. OneRunUnlessStopped'
  <2> SUFFICES ASSUME spent["stop"] = 0 PROVE OneRunPerTask'
    BY DEF OneRunUnlessStopped
  <2>1. \A b, d \in Execs : Counted(b) /\ Counted(d) /\ TaskOf(b) = TaskOf(d) => b = d
    BY CountedAlone DEF IndInv, OneRunUnlessStopped
  <2>2. \A b, d \in Execs : Counted(b)' /\ Counted(d)' /\ TaskOf(b)' = TaskOf(d)' => b = d
    BY <1>8, <2>1
  <2> QED BY <2>2 DEF OneRunPerTask, Counted, Live, Free
<1>11. ChainedUnforced'
  BY <1>1 DEF IndInv, ChainedUnforced
<1> QED BY <1>3, <1>4, <1>5, <1>6, <1>7, <1>9, <1>10, <1>11 DEF IndInv

\* An execution that ends without starting another.
LEMMA EndKeeps ==
  ASSUME IndInv, up, NEW e \in Execs, exec[e].at # "free",
         ~(exec[e].at = "chained" /\ TaskOf(e) \in executing),
         rows' \in [Execs -> Rows], rows'[e] \notin Active,
         \A d \in Execs \ {e} : rows'[d] = rows[d],
         End(e), up' = up, spent' = spent
  PROVE  IndInv'
<1>1. /\ exec' \in [Execs -> Executions] /\ exec'[e].at = "free"
      /\ \A d \in Execs \ {e} : exec'[d] = exec[d]
  BY DEF IndInv, Shape, End, Gone, NoExec, Executions
<1>2. Forget(e)
  BY DEF End
<1> DEFINE new == {}
<1>3. /\ new \in SUBSET Free
      /\ \A d \in new : /\ exec'[d].at = "chained" /\ exec'[d].task \in Tasks
                        /\ exec'[d].forced = FALSE /\ rows'[d] \notin Active
      /\ \A d \in Execs \ (new \cup {e}) : exec'[d] = exec[d] /\ rows'[d] = rows[d]
  BY <1>1
<1> HIDE DEF new
<1> QED BY <1>1, <1>2, <1>3, LeaveKeeps

\* The row of an execution that takes its first step, and the others.
LEMMA RowsOfIs ==
  ASSUME IndInv, NEW e \in Execs
  PROVE  /\ RowsOf(e) \in [Execs -> Rows]
         /\ \A d \in Execs \ {e} : RowsOf(e)[d] = rows[d]
         /\ RowsOf(e)[e] = IF First(e) THEN "queued" ELSE rows[e]
BY DEF IndInv, Shape, RowsOf, Rows, Active

\* The work begins: the row says running, whatever it said.
LEMMA EnterKeeps ==
  ASSUME IndInv, up, NEW e \in Execs, First(e) \/ exec[e].at \in {"slot", "gate"},
         ~(exec[e].at = "chained" /\ TaskOf(e) \in executing),
         Enter(e), up' = up, spent' = spent
  PROVE  IndInv'
<1>1. exec[e].at # "free"
  BY DEF First
<1>2. /\ exec' \in [Execs -> Executions] /\ exec'[e].at = "work"
      /\ exec'[e].task = TaskOf(e) /\ exec'[e].forced = exec[e].forced
      /\ \A d \in Execs \ {e} : exec'[d] = exec[d]
  <2> DEFINE none == tasks[TaskOf(e)].next = "unset"
             y == [exec EXCEPT ![e].at = "work"]
  <2>1. none \in BOOLEAN /\ exec' = [y EXCEPT ![e].unset = none]
    BY DEF Enter
  <2>2. /\ y \in [Execs -> Executions] /\ y[e].at = "work"
        /\ y[e].task = TaskOf(e) /\ y[e].forced = exec[e].forced
        /\ \A d \in Execs \ {e} : y[d] = exec[d]
    BY DEF IndInv, Shape, Executions, TaskOf
  <2> HIDE DEF none, y
  <2> QED BY <2>1, <2>2 DEF Executions
<1>3. /\ rows' \in [Execs -> Rows] /\ rows'[e] = "running"
      /\ \A d \in Execs \ {e} : rows'[d] = rows[d]
  BY DEF IndInv, Shape, Enter, Rows, Active
<1>4. Fits(exec[e], rows[e])'
  BY <1>2, <1>3 DEF Fits, Active
<1>5. handles' = HandlesOf(e) /\ executing' = JoinedBy(e)
  BY DEF Enter
<1> QED BY <1>1, <1>2, <1>3, <1>4, <1>5, MoveKeeps

\* Whatever the conditions before the work decide.
LEMMA AdmitKeeps ==
  ASSUME IndInv, up, NEW e \in Execs, First(e) \/ exec[e].at = "slot",
         ~(exec[e].at = "chained" /\ TaskOf(e) \in executing),
         Admit(e), up' = up, spent' = spent
  PROVE  IndInv'
<1>1. exec[e].at # "free"
  BY DEF First
<1>2. /\ RowsOf(e) \in [Execs -> Rows]
      /\ \A d \in Execs \ {e} : RowsOf(e)[d] = rows[d]
      /\ RowsOf(e)[e] = IF First(e) THEN "queued" ELSE rows[e]
  BY RowsOfIs
<1>3. RowsOf(e)[e] # "running"
  BY <1>2 DEF IndInv, RowsFit, Fits, First
<1>4. CASE Skip(e)
  <2>1. rows' = [RowsOf(e) EXCEPT ![e] = IF @ = "queued" THEN "skipped" ELSE @] /\ End(e)
    BY <1>4 DEF Skip
  <2>2. rows' \in [Execs -> Rows] /\ rows'[e] \notin Active
          /\ \A d \in Execs \ {e} : rows'[d] = rows[d]
    BY <1>2, <1>3, <2>1 DEF Rows, Active
  <2> QED BY <1>1, <2>1, <2>2, EndKeeps
<1>5. CASE Block(e)
  <2>1. rows' = [RowsOf(e) EXCEPT ![e] = "error"] /\ End(e)
    BY <1>5 DEF Block
  <2>2. rows' \in [Execs -> Rows] /\ rows'[e] \notin Active
          /\ \A d \in Execs \ {e} : rows'[d] = rows[d]
    <3>1. "error" \in Rows /\ "error" \notin Active
      BY DEF Rows, Active
    <3> QED BY <1>2, <2>1, <3>1
  <2> QED BY <1>1, <2>1, <2>2, EndKeeps
<1>6. CASE Gate(e)
  <2>a. exec \in [Execs -> Executions] /\ exec' = [exec EXCEPT ![e].at = "gate"]
    BY <1>6 DEF IndInv, Shape, Gate, Suspend
  <2>1. /\ exec' \in [Execs -> Executions] /\ exec'[e].at = "gate"
        /\ exec'[e].task = TaskOf(e) /\ exec'[e].forced = exec[e].forced
        /\ \A d \in Execs \ {e} : exec'[d] = exec[d]
    BY <2>a DEF Executions, TaskOf
  <2>2. rows' = RowsOf(e) /\ handles' = HandlesOf(e) /\ executing' = JoinedBy(e)
    BY <1>6 DEF Gate, Suspend
  <2>3. Fits(exec[e], rows[e])'
    BY <1>3, <2>1, <2>2 DEF Fits
  <2> QED BY <1>1, <1>2, <2>1, <2>2, <2>3, MoveKeeps
<1>7. CASE Enter(e)
  BY <1>7, EnterKeeps
<1> QED BY <1>4, <1>5, <1>6, <1>7 DEF Admit

\* An execution takes its first step.
LEMMA StartKeeps ==
  ASSUME IndInv, NEW e \in Execs, Start(e)
  PROVE  IndInv'
<1>1. up /\ First(e) /\ up' = up /\ spent' = spent
  BY DEF Start
<1>2. CASE Drop(e)
  BY <1>1, <1>2, DropKeeps
<1>3. CASE ~(exec[e].at = "chained" /\ TaskOf(e) \in executing) /\ Queue(e)
  <2>a. exec \in [Execs -> Executions] /\ exec' = [exec EXCEPT ![e].at = "slot"]
    BY <1>3 DEF IndInv, Shape, Queue
  <2>1. /\ exec' \in [Execs -> Executions] /\ exec'[e].at = "slot"
        /\ exec'[e].task = TaskOf(e) /\ exec'[e].forced = exec[e].forced
        /\ \A d \in Execs \ {e} : exec'[d] = exec[d]
    BY <2>a DEF Executions, TaskOf
  <2>2. rows' = RowsOf(e) /\ handles' = HandlesOf(e) /\ executing' = JoinedBy(e)
    BY <1>3 DEF Queue
  <2>3. /\ RowsOf(e) \in [Execs -> Rows]
        /\ \A d \in Execs \ {e} : RowsOf(e)[d] = rows[d]
        /\ RowsOf(e)[e] = "queued"
    BY <1>1, RowsOfIs
  <2>4. Fits(exec[e], rows[e])'
    BY <2>1, <2>2, <2>3 DEF Fits
  <2>5. exec[e].at # "free"
    BY <1>1 DEF First
  <2> QED BY <1>1, <1>3, <2>1, <2>2, <2>3, <2>4, <2>5, MoveKeeps
<1>4. CASE ~(exec[e].at = "chained" /\ TaskOf(e) \in executing) /\ Admit(e)
  BY <1>1, <1>4, AdmitKeeps
<1> QED BY <1>2, <1>3, <1>4 DEF Start

\* An execution that is through with its task, its row being over.
LEMMA RetireKeeps ==
  ASSUME IndInv, up, NEW e \in Execs, exec[e].at = "work",
         rows' \in [Execs -> Rows], rows'[e] \notin Active,
         \A d \in Execs \ {e} : rows'[d] = rows[d],
         Retire(e), up' = up, spent' = spent
  PROVE  IndInv'
<1>1. CASE exec[e].forced \/ exec[e].hit
  BY <1>1, EndKeeps DEF Retire
<1>2. CASE ~(exec[e].forced \/ exec[e].hit)
  <2>1. /\ exec' = [exec EXCEPT ![e].at = "winding", ![e].out = "left", ![e].cancel = "no"]
        /\ handles' = handles /\ executing' = executing
    BY <1>2 DEF Retire
  <2>2. /\ exec' \in [Execs -> Executions] /\ exec'[e].at = "winding"
        /\ exec'[e].task = TaskOf(e) /\ exec'[e].forced = exec[e].forced
        /\ exec'[e].out = "left" /\ \A d \in Execs \ {e} : exec'[d] = exec[d]
    <3> DEFINE y == [exec EXCEPT ![e].at = "winding"]
               z == [y EXCEPT ![e].out = "left"]
    <3>1. exec' = [z EXCEPT ![e].cancel = "no"]
      BY <2>1
    <3>2. /\ y \in [Execs -> Executions] /\ y[e].at = "winding"
          /\ y[e].task = TaskOf(e) /\ y[e].forced = exec[e].forced
          /\ \A d \in Execs \ {e} : y[d] = exec[d]
      BY DEF IndInv, Shape, Executions, TaskOf
    <3> HIDE DEF y
    <3>3. /\ z \in [Execs -> Executions] /\ z[e].at = "winding"
          /\ z[e].task = TaskOf(e) /\ z[e].forced = exec[e].forced
          /\ z[e].out = "left" /\ \A d \in Execs \ {e} : z[d] = exec[d]
      BY <3>2 DEF Executions
    <3> HIDE DEF z
    <3> QED BY <3>1, <3>3 DEF Executions
  <2>3. handles' = HandlesOf(e) /\ executing' = JoinedBy(e)
    BY <2>1 DEF HandlesOf, JoinedBy, First
  <2>4. Fits(exec[e], rows[e])'
    BY <2>2 DEF Fits, Active
  <2> QED BY <2>2, <2>3, <2>4, MoveKeeps
<1> QED BY <1>1, <1>2

\* The end of the work, with the run it chains to.
LEMMA FinishKeeps ==
  ASSUME IndInv, up, NEW e \in Execs, exec[e].at \in {"work", "winding"},
         NEW out \in {"success", "error", "raised"},
         Finish(e, out), up' = up, spent' = spent
  PROVE  IndInv'
<1> USE ConstantsAssumption DEF ConstantsAssumption
<1>1. rows[e] # "queued" /\ rows \in [Execs -> Rows]
  BY DEF IndInv, Shape, RowsFit, Fits
<1>2. TaskOf(e) \in Tasks
  BY DEF IndInv, Shape, Live, Free
<1>3. CASE out = "raised"
  <2>1. /\ rows' = [rows EXCEPT ![e] = IF @ = "running" THEN "error" ELSE @]
        /\ exec' = Gone(e) /\ Forget(e) /\ Release(e)
    BY <1>3 DEF Finish, Raises
  <2>2. rows' \in [Execs -> Rows] /\ rows'[e] \notin Active
          /\ \A d \in Execs \ {e} : rows'[d] = rows[d]
    BY <1>1, <2>1 DEF Rows, Active
  <2> QED BY <2>1, <2>2, EndKeeps DEF End
<1>4. CASE out # "raised"
  <2> DEFINE t == TaskOf(e)
             chained == IF out = "success" /\ Then[t] # None /\ Chainable(Then[t])
                        THEN {Then[t]} ELSE {}
             rw == [rows EXCEPT ![e] = out]
  <2>1. Spawn(chained, "chained", FALSE, Gone(e), rw) /\ Forget(e)
    BY <1>4 DEF Finish, Completes
  <2>2. chained \in SUBSET Tasks
    BY <1>2
  <2>3. /\ Gone(e) \in [Execs -> Executions] /\ Gone(e)[e].at = "free"
        /\ \A d \in Execs \ {e} : Gone(e)[d] = exec[d]
    BY DEF IndInv, Shape, Gone, NoExec, Executions
  <2>4. /\ rw \in [Execs -> Rows] /\ rw[e] \notin Active
        /\ \A d \in Execs \ {e} : rw[d] = rows[d]
    BY <1>1, <1>4 DEF Rows, Active
  <2> HIDE DEF chained, rw
  <2>5. /\ exec' \in [Execs -> Executions] /\ rows' \in [Execs -> Rows]
        /\ \E name : Spawned(name, chained, "chained", FALSE, Gone(e), rw)
    BY <2>1, <2>2, <2>3, <2>4, SpawnMakes
  <2> PICK name : Spawned(name, chained, "chained", FALSE, Gone(e), rw)
    BY <2>5
  <2> DEFINE new == {d \in Free : \E s \in chained : name[s] = d}
  <2>6. \A s \in chained : exec'[name[s]] = Begun(s, "chained", FALSE)
                           /\ rows'[name[s]] = None
    BY DEF Spawned
  <2>7. ASSUME NEW d \in new
        PROVE  /\ exec'[d].at = "chained" /\ exec'[d].task \in Tasks
               /\ exec'[d].forced = FALSE /\ rows'[d] \notin Active
    <3>1. PICK s \in chained : name[s] = d
      OBVIOUS
    <3>2. exec'[d] = Begun(s, "chained", FALSE) /\ rows'[d] = None
      BY <2>6, <3>1
    <3>3. s \in Tasks
      BY <2>2
    <3>4. exec'[d].at = "chained" /\ exec'[d].task = s /\ exec'[d].forced = FALSE
      BY <3>2 DEF Begun, NoExec
    <3>5. rows'[d] \notin Active
      BY <3>2
    <3> QED BY <3>3, <3>4, <3>5
  <2>8. \A d \in Execs \ new : exec'[d] = Gone(e)[d] /\ rows'[d] = rw[d]
    BY DEF Spawned
  <2>9. new \in SUBSET Free /\ e \notin new
    BY DEF Free
  <2>10. exec'[e].at = "free" /\ rows'[e] \notin Active
    BY <2>3, <2>4, <2>8, <2>9
  <2>11. \A d \in Execs \ (new \cup {e}) : exec'[d] = exec[d] /\ rows'[d] = rows[d]
    BY <2>3, <2>4, <2>8
  <2> HIDE DEF new
  <2> QED BY <2>1, <2>5, <2>7, <2>9, <2>10, <2>11, LeaveKeeps
<1> QED BY <1>3, <1>4

\* The work returns, raises, defers or finds nothing to do.
LEMMA ReturnKeeps ==
  ASSUME IndInv, NEW e \in Execs, Return(e)
  PROVE  IndInv'
<1> USE ConstantsAssumption DEF ConstantsAssumption
<1>1. up /\ exec[e].at = "work" /\ up' = up /\ spent' = spent
  BY DEF Return
<1>2. rows \in [Execs -> Rows]
  BY DEF IndInv, Shape
<1>3. CASE Defers(e)
  <2>1. rows' = [rows EXCEPT ![e] = None] /\ Retire(e)
    BY <1>3 DEF Defers
  <2>2. rows' \in [Execs -> Rows] /\ rows'[e] \notin Active
          /\ \A d \in Execs \ {e} : rows'[d] = rows[d]
    BY <1>2, <2>1 DEF Rows
  <2> QED BY <1>1, <2>1, <2>2, RetireKeeps
<1>4. CASE Noop(e)
  <2>1. rows' = [rows EXCEPT ![e] = "skipped"] /\ Retire(e)
    BY <1>4 DEF Noop
  <2>2. rows' \in [Execs -> Rows] /\ rows'[e] \notin Active
          /\ \A d \in Execs \ {e} : rows'[d] = rows[d]
    BY <1>2, <2>1 DEF Rows, Active
  <2> QED BY <1>1, <2>1, <2>2, RetireKeeps
<1>5. ASSUME NEW out \in {"success", "error", "raised"}, exec[e].forced /\ Finish(e, out)
      PROVE IndInv'
  BY <1>1, <1>5, FinishKeeps
<1>6. ASSUME NEW out \in {"success", "error", "raised"}, ~exec[e].forced,
             exec' = [exec EXCEPT ![e].at = "winding", ![e].out = out],
             UNCHANGED <<tasks, owed, rows, recent, handles, executing, slot, waiters>>
      PROVE IndInv'
  <2>1. /\ exec' \in [Execs -> Executions] /\ exec'[e].at = "winding"
        /\ exec'[e].task = TaskOf(e) /\ exec'[e].forced = exec[e].forced
        /\ exec'[e].out = out /\ \A d \in Execs \ {e} : exec'[d] = exec[d]
    <3> DEFINE y == [exec EXCEPT ![e].at = "winding"]
    <3>1. exec' = [y EXCEPT ![e].out = out]
      BY <1>6
    <3>2. /\ y \in [Execs -> Executions] /\ y[e].at = "winding"
          /\ y[e].task = TaskOf(e) /\ y[e].forced = exec[e].forced
          /\ \A d \in Execs \ {e} : y[d] = exec[d]
      BY DEF IndInv, Shape, Executions, TaskOf
    <3> HIDE DEF y
    <3> QED BY <3>1, <3>2 DEF Executions
  <2>2. handles' = HandlesOf(e) /\ executing' = JoinedBy(e)
    BY <1>1, <1>6 DEF HandlesOf, JoinedBy, First
  <2>3. Fits(exec[e], rows[e])
    BY DEF IndInv, RowsFit
  <2>4. rows' = rows /\ Fits(exec[e], rows[e])'
    BY <1>1, <1>6, <2>1, <2>3 DEF Fits
  <2> QED BY <1>1, <1>2, <2>1, <2>2, <2>4, MoveKeeps
<1> QED BY <1>3, <1>4, <1>5, <1>6 DEF Return

\* The foreground monitor it awaited has ended.
LEMMA UnwindKeeps ==
  ASSUME IndInv, NEW e \in Execs, Unwind(e)
  PROVE  IndInv'
<1>1. up /\ exec[e].at = "winding" /\ up' = up /\ spent' = spent
  BY DEF Unwind
<1>2. Fits(exec[e], rows[e]) /\ exec[e].out \in {"none", "success", "error", "raised", "left"}
  BY DEF IndInv, RowsFit, Shape, Executions
<1>3. CASE exec[e].out = "left" /\ End(e) /\ UNCHANGED <<tasks, owed, rows>>
  <2>1. rows' \in [Execs -> Rows] /\ rows'[e] \notin Active
          /\ \A d \in Execs \ {e} : rows'[d] = rows[d]
    BY <1>1, <1>2, <1>3 DEF IndInv, Shape, Fits, Active
  <2> QED BY <1>1, <1>3, <2>1, EndKeeps
<1>4. CASE exec[e].out # "left" /\ Finish(e, exec[e].out)
  <2>1. exec[e].out \in {"success", "error", "raised"}
    BY <1>1, <1>2, <1>4 DEF Fits
  <2> QED BY <1>1, <1>4, <2>1, FinishKeeps
<1> QED BY <1>3, <1>4 DEF Unwind

\* A cancellation reaches the execution.
LEMMA CancelledKeeps ==
  ASSUME IndInv, NEW e \in Execs, Cancelled(e)
  PROVE  IndInv'
<1>1. up /\ up' = up /\ spent' = spent
  BY DEF Cancelled
<1>2. rows \in [Execs -> Rows] /\ "aborted" \in Rows /\ "aborted" \notin Active
  BY DEF IndInv, Shape, Rows, Active
<1>3. CASE CancelledQueued(e)
  <2>1. exec[e].at \in {"slot", "gate"} /\ End(e)
          /\ rows' = Abort({e} \cap {x \in Execs : rows[x] \in Active})
    BY <1>3 DEF CancelledQueued
  <2>2. rows' \in [Execs -> Rows] /\ rows'[e] \notin Active
          /\ \A d \in Execs \ {e} : rows'[d] = rows[d]
    BY <1>2, <2>1 DEF Abort
  <2> QED BY <1>1, <2>1, <2>2, EndKeeps
<1>4. CASE CancelledWorking(e)
  <2>1. exec[e].at = "work" /\ Retire(e) /\ rows' = Abort({e})
    BY <1>4 DEF CancelledWorking
  <2>2. rows' \in [Execs -> Rows] /\ rows'[e] \notin Active
          /\ \A d \in Execs \ {e} : rows'[d] = rows[d]
    BY <1>2, <2>1 DEF Abort
  <2> QED BY <1>1, <2>1, <2>2, RetireKeeps
<1> QED BY <1>3, <1>4 DEF Cancelled

\* Counting a deed: a stop is remembered for good.
LEMMA SpendCounts ==
  ASSUME IndInv, NEW d \in Deeds, Spend(d)
  PROVE  /\ spent' \in [Deeds -> Nat]
         /\ spent'["stop"] = 0 => spent["stop"] = 0
         /\ d = "stop" => spent'["stop"] # 0
<1>1. spent \in [Deeds -> Nat] /\ spent' = [spent EXCEPT ![d] = @ + 1] /\ "stop" \in Deeds
  BY DEF IndInv, Shape, Spend, Deeds
<1> QED BY <1>1

\* A step that touches neither executions nor registries.
LEMMA ApartKeeps ==
  ASSUME IndInv, UNCHANGED <<exec, rows, handles, executing, up>>,
         spent' \in [Deeds -> Nat], spent'["stop"] = 0 => spent["stop"] = 0
  PROVE  IndInv'
<1>1. exec' \in [Execs -> Executions] /\ rows' \in [Execs -> Rows]
  BY DEF IndInv, Shape
<1> QED BY <1>1, MarkKeeps

\* The steps of an execution.
LEMMA StepKeeps ==
  ASSUME IndInv, NEW e \in Execs, Step(e)
  PROVE  IndInv'
<1>1. CASE Start(e)
  BY <1>1, StartKeeps
<1>2. CASE Acquire(e)
  <2>1. /\ up /\ exec[e].at = "slot" /\ Admit(e) /\ up' = up /\ spent' = spent
    BY <1>2 DEF Acquire
  <2> QED BY <2>1, AdmitKeeps
<1>3. CASE Quiet(e)
  <2>1. /\ up /\ exec[e].at = "gate" /\ Enter(e) /\ up' = up /\ spent' = spent
    BY <1>3 DEF Quiet
  <2> QED BY <2>1, EnterKeeps
<1>4. CASE Monitor(e)
  <2> DEFINE who == IF exec[e].cancel = "no" THEN "foreground" ELSE exec[e].cancel
             y == [exec EXCEPT ![e].hit = TRUE]
  <2>1. exec' = [y EXCEPT ![e].cancel = who]
    BY <1>4 DEF Monitor, IndInv, Shape, Executions
  <2>2. who \in {"no", "user", "foreground"}
    BY DEF IndInv, Shape, Executions
  <2>3. /\ y \in [Execs -> Executions] /\ y[e].at = exec[e].at
        /\ y[e].task = exec[e].task /\ y[e].forced = exec[e].forced
        /\ y[e].out = exec[e].out /\ \A d \in Execs \ {e} : y[d] = exec[d]
    BY DEF IndInv, Shape, Executions
  <2> HIDE DEF who, y
  <2>4. /\ exec' \in [Execs -> Executions]
        /\ \A d \in Execs : /\ exec'[d].at = exec[d].at /\ exec'[d].task = exec[d].task
                            /\ exec'[d].forced = exec[d].forced
                            /\ exec'[d].out = exec[d].out
    BY <2>1, <2>2, <2>3 DEF Executions
  <2>5. UNCHANGED <<rows, handles, executing, up, spent>>
    BY <1>4 DEF Monitor
  <2>6. rows' \in [Execs -> Rows] /\ spent' \in [Deeds -> Nat]
    BY <2>5 DEF IndInv, Shape
  <2> QED BY <2>4, <2>5, <2>6, MarkKeeps
<1>5. CASE Return(e)
  BY <1>5, ReturnKeeps
<1>6. CASE Unwind(e)
  BY <1>6, UnwindKeeps
<1>7. CASE Cancelled(e)
  BY <1>7, CancelledKeeps
<1> QED BY <1>1, <1>2, <1>3, <1>4, <1>5, <1>6, <1>7 DEF Step

\* run_task_now, by a user or for an event.
LEMMA RunNowKeeps ==
  ASSUME IndInv, up, NEW t \in Tasks, RunNow(t),
         handles' = handles, up' = up,
         spent' \in [Deeds -> Nat], spent'["stop"] = 0 => spent["stop"] = 0
  PROVE  IndInv'
<1>1. CASE t \in executing
  BY <1>1, ApartKeeps DEF RunNow
<1>2. CASE t \notin executing
  <2> DEFINE due == {t}
  <2>1. due \in SUBSET Tasks /\ due \cap executing = {} /\ FALSE \in BOOLEAN
    BY <1>2
  <2>2. executing' = executing \cup due /\ Spawn(due, "spawned", FALSE, exec, rows)
    BY <1>2 DEF RunNow
  <2>3. executing' = IF FALSE THEN executing ELSE executing \cup due
    BY <2>2
  <2> HIDE DEF due
  <2> QED BY <2>1, <2>2, <2>3, SpawnKeeps
<1> QED BY <1>1, <1>2

\* The loop, the triggers and the routes that start runs.
LEMMA DispatchKeeps ==
  ASSUME IndInv,
         Tick \/ \E t \in Tasks : Event(t) \/ Run(t) \/ ForceRun(t)
  PROVE  IndInv'
<1> USE DEF Deeds
<1>1. CASE Tick
  <2> DEFINE due == Due \ executing
  <2>1. up /\ up' = up /\ handles' = handles /\ spent' = spent
    BY <1>1 DEF Tick
  <2>2. spent' \in [Deeds -> Nat]
    BY <2>1 DEF IndInv, Shape
  <2>3. CASE UNCHANGED <<executing, exec, rows>>
    BY <2>1, <2>2, <2>3, ApartKeeps
  <2>4. CASE executing' = executing \cup due /\ Spawn(due, "spawned", FALSE, exec, rows)
    <3>1. due \in SUBSET Tasks /\ due \cap executing = {} /\ FALSE \in BOOLEAN
      BY DEF Due
    <3>2. executing' = IF FALSE THEN executing ELSE executing \cup due
      BY <2>4
    <3> HIDE DEF due
    <3> QED BY <2>1, <2>2, <2>4, <3>1, <3>2, SpawnKeeps
  <2> QED BY <1>1, <2>3, <2>4 DEF Tick
<1>2. ASSUME NEW t \in Tasks, Event(t) PROVE IndInv'
  <2>1. up /\ RunNow(t) /\ handles' = handles /\ up' = up /\ Spend("event")
    BY <1>2 DEF Event
  <2> QED BY <2>1, SpendCounts, RunNowKeeps
<1>3. ASSUME NEW t \in Tasks, Run(t) PROVE IndInv'
  <2>1. up /\ RunNow(t) /\ handles' = handles /\ up' = up /\ Spend("run")
    BY <1>3 DEF Run
  <2> QED BY <2>1, SpendCounts, RunNowKeeps
<1>4. ASSUME NEW t \in Tasks, ForceRun(t) PROVE IndInv'
  <2> DEFINE due == {t}
  <2>1. /\ up /\ handles' = handles /\ up' = up /\ Spend("force")
        /\ Spawn(due, "spawned", TRUE, exec, rows)
        /\ executing' = IF TRUE THEN executing ELSE executing \cup due
    BY <1>4 DEF ForceRun
  <2>2. due \in SUBSET Tasks /\ TRUE \in BOOLEAN
    OBVIOUS
  <2>3. spent' \in [Deeds -> Nat] /\ (spent'["stop"] = 0 => spent["stop"] = 0)
    BY <2>1, SpendCounts
  <2> HIDE DEF due
  <2> QED BY <2>1, <2>2, <2>3, SpawnKeeps
<1> QED BY <1>1, <1>2, <1>3, <1>4

\* The stops: an id leaves _executing only when a user's stop is counted.
LEMMA StopKeeps ==
  ASSUME IndInv, StopForForeground \/ \E t \in Tasks : Stop(t)
  PROVE  IndInv'
<1>1. exec \in [Execs -> Executions] /\ rows \in [Execs -> Rows]
        /\ handles \in [Tasks -> Execs \cup {None}] /\ spent \in [Deeds -> Nat]
  BY DEF IndInv, Shape
<1>2. \A es : Abort(es) \in [Execs -> Rows]
               /\ \A e \in Execs : Abort(es)[e] \in {rows[e], "aborted"}
  BY <1>1 DEF Abort, Rows
<1>3. CASE StopForForeground
  <2> DEFINE hit == {handles[t] : t \in executing}
  <2>1. /\ exec' = [e \in Execs |-> IF e \in hit /\ exec[e].cancel = "no"
                                   THEN [exec[e] EXCEPT !.cancel = "foreground"] ELSE exec[e]]
        /\ rows' = Abort(UNION {Newest(t) : t \in executing})
        /\ UNCHANGED <<handles, executing, up, spent>>
    BY <1>3 DEF StopForForeground
  <2> HIDE DEF hit
  <2>2. /\ exec' \in [Execs -> Executions]
        /\ \A d \in Execs : /\ exec'[d].at = exec[d].at /\ exec'[d].task = exec[d].task
                            /\ exec'[d].forced = exec[d].forced
                            /\ exec'[d].out = exec[d].out
    BY <1>1, <2>1 DEF Executions
  <2>3. rows' \in [Execs -> Rows] /\ \A e \in Execs : rows'[e] \in {rows[e], "aborted"}
    BY <1>2, <2>1
  <2> QED BY <1>1, <2>1, <2>2, <2>3, MarkKeeps
<1>4. ASSUME NEW t \in Tasks, Stop(t) PROVE IndInv'
  <2>1. /\ exec' = IF handles[t] = None THEN exec ELSE [exec EXCEPT ![handles[t]].cancel = "user"]
        /\ executing' = executing \ {t} /\ rows' = Abort(Newest(t))
        /\ handles' = handles /\ up' = up /\ Spend("stop")
    BY <1>4 DEF Stop
  <2>2. /\ exec' \in [Execs -> Executions]
        /\ \A d \in Execs : /\ exec'[d].at = exec[d].at /\ exec'[d].task = exec[d].task
                            /\ exec'[d].forced = exec[d].forced
                            /\ exec'[d].out = exec[d].out
    BY <1>1, <2>1 DEF Executions
  <2>3. rows' \in [Execs -> Rows] /\ \A e \in Execs : rows'[e] \in {rows[e], "aborted"}
    BY <1>2, <2>1
  <2>4. spent' \in [Deeds -> Nat] /\ spent'["stop"] # 0
    BY <2>1, SpendCounts DEF Deeds
  <2> QED BY <2>1, <2>2, <2>3, <2>4, MarkKeeps
<1> QED BY <1>3, <1>4

\* The foreground, the clock and the routes that change a task.
LEMMA OutsideKeeps ==
  ASSUME IndInv,
         Request \/ Stream \/ Hush \/ \E t \in Tasks : TimePasses(t) \/ Pause(t) \/ Resume(t)
  PROVE  IndInv'
<1>1. UNCHANGED <<exec, rows, handles, executing, up>>
  BY DEF Request, Stream, Hush, TimePasses, Pause, Resume
<1>2. spent' = spent \/ \E d \in Deeds : Spend(d)
  BY DEF Request, Stream, Hush, TimePasses, Pause, Resume, Deeds
<1>3. spent \in [Deeds -> Nat]
  BY DEF IndInv, Shape
<1>4. spent' \in [Deeds -> Nat] /\ (spent'["stop"] = 0 => spent["stop"] = 0)
  BY <1>2, <1>3, SpendCounts
<1> QED BY <1>1, <1>4, ApartKeeps

\* A crash takes executions and registries along, the restart closes the rows.
LEMMA CrashKeeps ==
  ASSUME IndInv, Crash \/ Restart
  PROVE  IndInv'
<1> USE ConstantsAssumption DEF ConstantsAssumption
<1>1. CASE Crash
  <2>1. /\ up' = FALSE /\ exec' = [e \in Execs |-> NoExec] /\ rows' = rows
        /\ handles' = [t \in Tasks |-> None] /\ executing' = {} /\ Spend("crash")
    BY <1>1 DEF Crash
  <2>2. NoExec \in Executions /\ NoExec.at = "free"
    BY DEF NoExec, Executions
  <2>3. spent' \in [Deeds -> Nat]
    BY <2>1, SpendCounts DEF Deeds
  <2>4. Live' = {}
    BY <2>1, <2>2 DEF Live, Free
  <2>5. Shape'
    BY <2>1, <2>2, <2>3, <2>4 DEF IndInv, Shape
  <2>6. RowsFit'
    BY <2>1, <2>2 DEF RowsFit, Fits
  <2>7. DownIsEmpty' /\ ExecutingIsLive' /\ HandleIsLive'
    BY <2>1, <2>4 DEF DownIsEmpty, ExecutingIsLive, HandleIsLive
  <2>8. CountedIsExecuting' /\ OneRunUnlessStopped' /\ ChainedUnforced'
    BY <2>1, <2>2, <2>4
       DEF CountedIsExecuting, Counted, OneRunUnlessStopped, OneRunPerTask, ChainedUnforced
  <2> QED BY <2>5, <2>6, <2>7, <2>8 DEF IndInv
<1>2. CASE Restart
  <2>1. /\ ~up /\ up' = TRUE /\ UNCHANGED <<exec, handles, executing, spent>>
        /\ rows' = Abort({e \in Execs : rows[e] \in Active})
    BY <1>2 DEF Restart
  <2>2. Live = {} /\ executing = {} /\ \A t \in Tasks : handles[t] = None
    BY <2>1 DEF IndInv, DownIsEmpty
  <2>3. rows' \in [Execs -> Rows] /\ \A e \in Execs : rows'[e] \notin Active
    BY <2>1 DEF IndInv, Shape, Abort, Rows, Active
  <2>4. \A e \in Execs : exec[e].at = "free"
    BY <2>2 DEF Live, Free
  <2>5. Shape'
    BY <2>1, <2>3 DEF IndInv, Shape, Live, Free, TaskOf
  <2>6. RowsFit'
    BY <2>1, <2>3, <2>4 DEF RowsFit, Fits
  <2>7. DownIsEmpty' /\ ExecutingIsLive' /\ HandleIsLive'
    BY <2>1, <2>2 DEF DownIsEmpty, ExecutingIsLive, HandleIsLive
  <2>8. CountedIsExecuting' /\ OneRunUnlessStopped' /\ ChainedUnforced'
    BY <2>1, <2>4
       DEF CountedIsExecuting, Counted, OneRunUnlessStopped, OneRunPerTask, ChainedUnforced,
           Live, Free
  <2> QED BY <2>5, <2>6, <2>7, <2>8 DEF IndInv
<1> QED BY <1>1, <1>2

\* The invariant holds at the start and every step keeps it, those of
\* cancellations, crashes and forced runs included.
THEOREM Inductive == Spec => []IndInv
<1>1. Init => IndInv
  <2> SUFFICES ASSUME Init PROVE IndInv
    OBVIOUS
  <2> USE ConstantsAssumption DEF ConstantsAssumption
  <2>1. /\ exec = [e \in Execs |-> NoExec] /\ rows = [e \in Execs |-> None]
        /\ handles = [t \in Tasks |-> None] /\ executing = {}
        /\ up = TRUE /\ spent = [d \in Deeds |-> 0]
    BY DEF Init
  <2>2. NoExec \in Executions /\ NoExec.at = "free"
    BY DEF NoExec, Executions
  <2>3. Live = {}
    BY <2>1, <2>2 DEF Live, Free
  <2>4. Shape
    BY <2>1, <2>2, <2>3 DEF Shape, Rows
  <2>5. RowsFit
    BY <2>1, <2>2 DEF RowsFit, Fits
  <2>6. DownIsEmpty /\ ExecutingIsLive /\ HandleIsLive
    BY <2>1, <2>3 DEF DownIsEmpty, ExecutingIsLive, HandleIsLive
  <2>7. CountedIsExecuting /\ OneRunUnlessStopped /\ ChainedUnforced
    BY <2>1, <2>2, <2>3
       DEF CountedIsExecuting, Counted, OneRunUnlessStopped, OneRunPerTask, ChainedUnforced
  <2> QED BY <2>4, <2>5, <2>6, <2>7 DEF IndInv
<1>2. IndInv /\ [Next]_vars => IndInv'
  <2> SUFFICES ASSUME IndInv, [Next]_vars PROVE IndInv'
    OBVIOUS
  <2>1. CASE UNCHANGED vars
    <3>1. UNCHANGED <<exec, rows, handles, executing, up>> /\ spent' = spent
      BY <2>1 DEF vars
    <3>2. spent' \in [Deeds -> Nat]
      BY <3>1 DEF IndInv, Shape
    <3> QED BY <3>1, <3>2, ApartKeeps
  <2>2. CASE \E e \in Execs : Step(e)
    BY <2>2, StepKeeps
  <2>3. CASE Tick \/ \E t \in Tasks : Event(t) \/ Run(t) \/ ForceRun(t)
    BY <2>3, DispatchKeeps
  <2>4. CASE StopForForeground \/ \E t \in Tasks : Stop(t)
    BY <2>4, StopKeeps
  <2>5. CASE Request \/ Stream \/ Hush
                \/ \E t \in Tasks : TimePasses(t) \/ Pause(t) \/ Resume(t)
    BY <2>5, OutsideKeeps
  <2>6. CASE Crash \/ Restart
    BY <2>6, CrashKeeps
  <2> QED BY <2>1, <2>2, <2>3, <2>4, <2>5, <2>6 DEF Next
<1> QED BY <1>1, <1>2, PTL DEF Spec

\* No task is dispatched twice while nobody stops one, whatever the loop, the
\* routes, the events and the chains do between two suspensions.
THEOREM DispatchedOnce == Spec => []OneRunUnlessStopped
<1>1. IndInv => OneRunUnlessStopped
  BY DEF IndInv
<1> QED BY <1>1, Inductive, PTL

\* No id in _executing and no handle outlives its execution, cancellations and
\* stops included.
THEOREM RegistriesStayLive == Spec => []RegistriesAreLive
<1>1. IndInv => RegistriesAreLive
  BY DEF IndInv, RegistriesAreLive
<1> QED BY <1>1, Inductive, PTL

\* While the server runs no row says queued or running without a live execution,
\* whatever crashed before.
THEOREM NoRunIsPhantom == Spec => []NoPhantomRun
<1>1. IndInv => NoPhantomRun
  <2> SUFFICES ASSUME IndInv, up, NEW e \in Execs, rows[e] \in Active PROVE e \in Live
    BY DEF NoPhantomRun
  <2>1. Fits(exec[e], rows[e])
    BY DEF IndInv, RowsFit
  <2> QED BY <2>1 DEF Fits, Live, Free
<1> QED BY <1>1, Inductive, PTL

-----------------------------------------------------------------------------
(* No trigger is lost while the scheduler is not disturbed.                 *)

TaskRow == [status : {"active", "paused", "completed"}, next : {"unset", "past", "future"}]

Owing == {"no", "waiting", "running"}

\* What an undisturbed scheduler's budgets allow.
LEMMA SpentQuietly ==
  ASSUME Undisturbed, NEW s \in [Deeds -> Nat], Within(s)
  PROVE  /\ s["event"] <= 1
         /\ s["run"] = 0 /\ s["force"] = 0 /\ s["stop"] = 0 /\ s["request"] = 0
<1> USE ConstantsAssumption DEF ConstantsAssumption
<1>1. PICK b \in Budgets : \A d \in Deeds : s[d] <= b[d]
  BY DEF Within
<1>2. /\ b \in [Deeds -> Nat] /\ b["event"] <= 1
      /\ b["run"] = 0 /\ b["force"] = 0 /\ b["stop"] = 0 /\ b["request"] = 0
  BY DEF Undisturbed
<1>3. /\ s["event"] <= b["event"] /\ s["run"] <= b["run"] /\ s["force"] <= b["force"]
      /\ s["stop"] <= b["stop"] /\ s["request"] <= b["request"]
  BY <1>1 DEF Deeds
<1>4. /\ s["event"] \in Nat /\ s["run"] \in Nat /\ s["force"] \in Nat
      /\ s["stop"] \in Nat /\ s["request"] \in Nat
      /\ b["event"] \in Nat
  BY <1>2 DEF Deeds
<1>5. s["event"] <= 1
  BY <1>2, <1>3, <1>4
<1> QED BY <1>2, <1>3, <1>4, <1>5

\* What the invariant says of a live execution and of its task.
LEMMA LiveServes ==
  ASSUME IndInv, TriggersKept, NEW e \in Execs, exec[e].at # "free"
  PROVE  /\ TaskOf(e) \in Tasks /\ exec[e] \in Executions
         /\ tasks[TaskOf(e)] \in TaskRow /\ owed[TaskOf(e)] \in Owing
         /\ Holds(Kind[TaskOf(e)], tasks[TaskOf(e)], owed[TaskOf(e)], spent["event"])
         /\ Serves(Kind[TaskOf(e)], exec[e], tasks[TaskOf(e)].next, owed[TaskOf(e)],
                   spent["event"])
<1>1. e \in Live /\ TaskOf(e) \in Tasks /\ exec[e] \in Executions
  BY DEF IndInv, Shape, Live, Free
<1> QED BY <1>1 DEF TriggersKept, TaskRow, Owing

\* A task that does not come back by itself has one execution at most.
LEMMA ServesAlone ==
  ASSUME Undisturbed, IndInv, TriggersKept,
         NEW e \in Execs, exec[e].at # "free", NEW d \in Execs, exec[d].at # "free",
         TaskOf(d) = TaskOf(e), Kind[TaskOf(e)] # "repeat"
  PROVE  d = e
<1>1. /\ exec[e].at # "chained" /\ ~exec[e].forced
      /\ exec[d].at # "chained" /\ ~exec[d].forced
  BY LiveServes DEF Serves
<1>2. Counted(e) /\ Counted(d)
  BY <1>1 DEF Counted
<1>3. spent["stop"] = 0
  BY SpentQuietly DEF IndInv, Shape, TriggersKept
<1>4. OneRunPerTask
  BY <1>3 DEF IndInv, OneRunUnlessStopped
<1> QED BY <1>2, <1>4, CountedAlone

\* ... and it has none when its id is not in _executing.
LEMMA IdleServesNone ==
  ASSUME Undisturbed, IndInv, TriggersKept, NEW e \in Execs, exec[e].at # "free",
         Kind[TaskOf(e)] # "repeat"
  PROVE  TaskOf(e) \in executing
<1>1. exec[e].at # "chained" /\ ~exec[e].forced
  BY LiveServes DEF Serves
<1>2. Counted(e)
  BY <1>1 DEF Counted
<1>3. spent["stop"] = 0
  BY SpentQuietly DEF IndInv, Shape, TriggersKept
<1> QED BY <1>2, <1>3 DEF IndInv, CountedIsExecuting

\* An execution of a task that comes back by itself serves it whatever becomes of
\* the row and of the trigger.
LEMMA RepeatServes ==
  ASSUME NEW x, NEW next, NEW owing, NEW events, NEW next2, NEW owing2,
         Serves("repeat", x, next, owing, events)
  PROVE  Serves("repeat", x, next2, owing2, events)
BY DEF Serves

\* A step of e changes its task's row and trigger, those of no other task, and e
\* itself; it may start executions of tasks that come back by themselves.
Moves(e, new) ==
  /\ tasks' \in [Tasks -> TaskRow] /\ owed' \in [Tasks -> Owing]
  /\ \A t \in Tasks \ {TaskOf(e)} : tasks'[t] = tasks[t] /\ owed'[t] = owed[t]
  /\ \A d \in new : /\ exec'[d].at = "chained" /\ exec'[d].task \in Tasks
                    /\ Kind[exec'[d].task] = "repeat"
                    /\ exec'[d].forced = FALSE /\ exec'[d].cancel = "no"
  /\ \A d \in Execs \ (new \cup {e}) : exec'[d] = exec[d]
  /\ stopper' = stopper /\ spent' = spent

LEMMA MovesKeeps ==
  ASSUME Undisturbed, IndInv, TriggersKept, NEW e \in Execs, exec[e].at # "free",
         NEW new \in SUBSET (Execs \ {e}), Moves(e, new),
         Holds(Kind[TaskOf(e)], tasks'[TaskOf(e)], owed'[TaskOf(e)], spent["event"]),
         exec'[e].at # "free" =>
           /\ exec'[e].task = TaskOf(e)
           /\ Serves(Kind[TaskOf(e)], exec'[e], tasks'[TaskOf(e)].next,
                     owed'[TaskOf(e)], spent["event"])
  PROVE  TriggersKept'
<1>1. \A t \in Tasks : Holds(Kind[t], tasks[t], owed[t], spent["event"])'
  BY DEF Moves, TriggersKept, Holds
<1>2. ASSUME NEW d \in Execs, exec'[d].at # "free"
      PROVE  Serves(Kind[exec'[d].task], exec'[d], tasks'[exec'[d].task].next,
                    owed'[exec'[d].task], spent["event"])
  <2>1. CASE d = e
    BY <1>2, <2>1
  <2>2. CASE d \in new
    BY <2>2 DEF Moves, Serves
  <2>3. CASE d # e /\ d \notin new
    <3>1. exec'[d] = exec[d] /\ exec[d].at # "free"
      BY <1>2, <2>3 DEF Moves
    <3>2. /\ TaskOf(d) \in Tasks
          /\ Serves(Kind[TaskOf(d)], exec[d], tasks[TaskOf(d)].next, owed[TaskOf(d)],
                    spent["event"])
      BY <3>1, LiveServes
    <3>3. CASE TaskOf(d) # TaskOf(e)
      BY <3>1, <3>2, <3>3 DEF Moves, TaskOf
    <3>4. CASE TaskOf(d) = TaskOf(e)
      <4>1. Kind[TaskOf(d)] = "repeat"
        BY <2>3, <3>1, <3>4, ServesAlone
      <4> QED BY <3>1, <3>2, <4>1, RepeatServes DEF TaskOf
    <3> QED BY <3>3, <3>4
  <2> QED BY <2>1, <2>2, <2>3
<1>3. \A d \in Live' : Serves(Kind[TaskOf(d)'], exec'[d], tasks'[TaskOf(d)'].next,
                              owed'[TaskOf(d)'], spent'["event"])
  BY <1>2 DEF Moves, Live, Free, TaskOf
<1> QED BY <1>1, <1>3 DEF Moves, TriggersKept, TaskRow, Owing

\* A step of e that leaves its task and the trigger alone.
LEMMA StaysKeeps ==
  ASSUME Undisturbed, IndInv, TriggersKept, NEW e \in Execs, exec[e].at # "free",
         UNCHANGED <<tasks, owed, stopper, spent>>,
         \A d \in Execs \ {e} : exec'[d] = exec[d],
         exec'[e].at # "free" =>
           /\ exec'[e].task = TaskOf(e)
           /\ Serves(Kind[TaskOf(e)], exec'[e], tasks[TaskOf(e)].next, owed[TaskOf(e)],
                     spent["event"])
  PROVE  TriggersKept'
<1>1. Moves(e, {})
  BY DEF Moves, TriggersKept, TaskRow, Owing
<1>2. Holds(Kind[TaskOf(e)], tasks'[TaskOf(e)], owed'[TaskOf(e)], spent["event"])
  BY LiveServes
<1> QED BY <1>1, <1>2, MovesKeeps

\* An execution that keeps on before its work.
LEMMA WaitServes ==
  ASSUME NEW kind, NEW x, NEW y, NEW next, NEW owing, NEW events,
         Serves(kind, x, next, owing, events),
         x.at \in {"spawned", "chained", "slot", "gate"}, y.at \in {"slot", "gate"},
         y.forced = x.forced, y.cancel = x.cancel
  PROVE  Serves(kind, y, next, owing, events)
BY DEF Serves, Working

\* An execution that is over is nowhere.
LEMMA GoneIs ==
  ASSUME IndInv, NEW e \in Execs
  PROVE  /\ Gone(e)[e].at = "free"
         /\ \A d \in Execs \ {e} : Gone(e)[d] = exec[d]
BY DEF IndInv, Shape, Gone, NoExec

\* e begins its work: a trigger that waited has its run.
LEMMA EnterServes ==
  ASSUME Undisturbed, IndInv, TriggersKept, NEW e \in Execs,
         exec[e].at \in {"spawned", "chained", "slot", "gate"},
         Enter(e), stopper' = stopper, spent' = spent
  PROVE  TriggersKept'
<1> DEFINE t == TaskOf(e)
           y == [exec EXCEPT ![e].at = "work"]
           o == IF owed[t] = "waiting" THEN "running" ELSE owed[t]
<1>1. /\ exec' = [y EXCEPT ![e].unset = tasks[TaskOf(e)].next = "unset"]
      /\ owed' = [owed EXCEPT ![t] = o] /\ tasks' = tasks
  BY DEF Enter
<1>2. /\ t \in Tasks /\ exec[e] \in Executions /\ tasks[t] \in TaskRow /\ owed[t] \in Owing
      /\ Holds(Kind[t], tasks[t], owed[t], spent["event"])
      /\ Serves(Kind[t], exec[e], tasks[t].next, owed[t], spent["event"])
  BY LiveServes
<1>3. /\ y[e].at = "work" /\ y[e].task = t /\ y[e].forced = exec[e].forced
      /\ y[e].cancel = exec[e].cancel /\ y[e].out = exec[e].out
      /\ y \in [Execs -> Executions] /\ \A d \in Execs \ {e} : y[d] = exec[d]
  BY DEF IndInv, Shape, Executions, TaskOf
<1> HIDE DEF y
<1>4. /\ exec'[e].at = "work" /\ exec'[e].task = t /\ exec'[e].forced = exec[e].forced
      /\ exec'[e].cancel = exec[e].cancel /\ exec'[e].out = exec[e].out
      /\ \A d \in Execs \ {e} : exec'[d] = exec[d]
  BY <1>1, <1>3 DEF Executions
<1>5. owed \in [Tasks -> Owing] /\ tasks \in [Tasks -> TaskRow]
  BY DEF TriggersKept, Owing, TaskRow
<1>6. /\ owed' \in [Tasks -> Owing] /\ owed'[t] = o /\ tasks'[t] = tasks[t]
      /\ \A s \in Tasks \ {t} : owed'[s] = owed[s]
  BY <1>1, <1>2, <1>5 DEF Owing
<1>7. Moves(e, {})
  BY <1>1, <1>4, <1>5, <1>6 DEF Moves
<1>8. Holds(Kind[t], tasks[t], o, spent["event"])
  BY <1>2 DEF Holds
<1>9. Serves(Kind[t], exec'[e], tasks[t].next, o, spent["event"])
  BY <1>2, <1>4 DEF Serves, Working
<1> HIDE DEF o
<1>10. Holds(Kind[t], tasks'[t], owed'[t], spent["event"])
  BY <1>6, <1>8
<1>11. Serves(Kind[t], exec'[e], tasks'[t].next, owed'[t], spent["event"])
  BY <1>6, <1>9
<1> QED BY <1>2, <1>4, <1>7, <1>10, <1>11, MovesKeeps

\* e is suspended before its work, in the queue or at the gate.
LEMMA SuspendServes ==
  ASSUME Undisturbed, IndInv, TriggersKept, NEW e \in Execs,
         exec[e].at \in {"spawned", "chained", "slot", "gate"},
         NEW at \in {"slot", "gate"}, exec' = [exec EXCEPT ![e].at = at],
         UNCHANGED <<tasks, owed, stopper, spent>>
  PROVE  TriggersKept'
<1>1. /\ exec'[e].at = at /\ exec'[e].task = TaskOf(e)
      /\ exec'[e].forced = exec[e].forced /\ exec'[e].cancel = exec[e].cancel
      /\ \A d \in Execs \ {e} : exec'[d] = exec[d]
  BY DEF IndInv, Shape, Executions, TaskOf
<1>2. Serves(Kind[TaskOf(e)], exec'[e], tasks[TaskOf(e)].next, owed[TaskOf(e)],
             spent["event"])
  BY <1>1, LiveServes, WaitServes
<1> QED BY <1>1, <1>2, StaysKeeps

\* The admission to the work, or what stands before it.
LEMMA AdmitServes ==
  ASSUME Undisturbed, IndInv, TriggersKept, NEW e \in Execs,
         exec[e].at \in {"spawned", "chained", "slot", "gate"},
         Admit(e), stopper' = stopper, spent' = spent
  PROVE  TriggersKept'
<1> DEFINE t == TaskOf(e)
<1>1. /\ t \in Tasks /\ tasks[t] \in TaskRow /\ owed[t] \in Owing
      /\ Holds(Kind[t], tasks[t], owed[t], spent["event"])
  BY LiveServes
<1>2. CASE Skip(e)
  BY <1>2, GoneIs, StaysKeeps DEF Skip, End
<1>3. CASE Block(e)
  <2> DEFINE row == [status |-> "paused", next |-> "unset"]
  <2>1. /\ tasks' = [tasks EXCEPT ![t] = row] /\ owed' = [owed EXCEPT ![t] = "no"]
        /\ exec' = Gone(e)
    BY <1>3 DEF Block, End
  <2>2. row \in TaskRow /\ Holds(Kind[t], row, "no", spent["event"])
    BY DEF TaskRow, Holds
  <2> HIDE DEF row
  <2>3. owed \in [Tasks -> Owing] /\ tasks \in [Tasks -> TaskRow]
    BY DEF TriggersKept, Owing, TaskRow
  <2>4. /\ tasks' \in [Tasks -> TaskRow] /\ owed' \in [Tasks -> Owing]
        /\ tasks'[t] = row /\ owed'[t] = "no"
        /\ \A s \in Tasks \ {t} : tasks'[s] = tasks[s] /\ owed'[s] = owed[s]
    BY <1>1, <2>1, <2>2, <2>3 DEF Owing
  <2>5. Moves(e, {}) /\ exec'[e].at = "free"
    BY <2>1, <2>4, GoneIs DEF Moves
  <2> QED BY <2>2, <2>4, <2>5, MovesKeeps
<1>4. CASE Gate(e)
  <2>1. exec' = [exec EXCEPT ![e].at = "gate"] /\ UNCHANGED <<tasks, owed>>
    BY <1>4 DEF Gate, Suspend
  <2> QED BY <2>1, SuspendServes
<1>5. CASE Enter(e)
  BY <1>5, EnterServes
<1> QED BY <1>2, <1>3, <1>4, <1>5 DEF Admit

\* The first step.
LEMMA StartServes ==
  ASSUME Undisturbed, IndInv, TriggersKept, NEW e \in Execs, Start(e)
  PROVE  TriggersKept'
<1>1. exec[e].at \in {"spawned", "chained"} /\ stopper' = stopper /\ spent' = spent
  BY DEF Start, First
<1>2. CASE Drop(e)
  BY <1>1, <1>2, GoneIs, StaysKeeps DEF Drop
<1>3. CASE Queue(e)
  BY <1>1, <1>3, SuspendServes DEF Queue
<1>4. CASE Admit(e)
  BY <1>1, <1>4, AdmitServes
<1> QED BY <1>2, <1>3, <1>4 DEF Start

\* e assigns its task's next_run, or leaves it as it was.
LEMMA NextSet ==
  ASSUME TriggersKept, NEW e \in Execs, TaskOf(e) \in Tasks,
         NEW next \in {"unset", "future"}
  PROVE  LET row == SetNext(e, next)[TaskOf(e)]
         IN  /\ SetNext(e, next) \in [Tasks -> TaskRow]
             /\ row.status = tasks[TaskOf(e)].status
             /\ next = "future" => row.next = "future"
             /\ \A t \in Tasks \ {TaskOf(e)} : SetNext(e, next)[t] = tasks[t]
<1>1. tasks \in [Tasks -> TaskRow]
  BY DEF TriggersKept, TaskRow
<1> DEFINE n == IF next = "unset" /\ exec[e].unset THEN tasks[TaskOf(e)].next ELSE next
<1>2. SetNext(e, next) = [tasks EXCEPT ![TaskOf(e)].next = n]
  BY DEF SetNext
<1>3. n \in {"unset", "past", "future"} /\ (next = "future" => n = "future")
  BY <1>1 DEF TaskRow
<1> HIDE DEF n
<1> QED BY <1>1, <1>2, <1>3 DEF TaskRow

\* What becomes of the trigger e answers.
Left(owing, how) == IF owing = "running" THEN how ELSE owing

LEMMA AnswerIs ==
  ASSUME TriggersKept, NEW e \in Execs, TaskOf(e) \in Tasks, NEW how \in {"no", "waiting"}
  PROVE  /\ Answer(e, how) \in [Tasks -> Owing]
         /\ Answer(e, how)[TaskOf(e)] = Left(owed[TaskOf(e)], how)
         /\ \A t \in Tasks \ {TaskOf(e)} : Answer(e, how)[t] = owed[t]
<1>1. owed \in [Tasks -> Owing]
  BY DEF TriggersKept, Owing
<1> DEFINE o == Left(owed[TaskOf(e)], how)
<1>2. Answer(e, how) = [owed EXCEPT ![TaskOf(e)] = o]
  BY DEF Answer, Left
<1>3. o \in Owing
  BY <1>1 DEF Left, Owing
<1> HIDE DEF o
<1>4. /\ Answer(e, how) \in [Tasks -> Owing] /\ Answer(e, how)[TaskOf(e)] = o
      /\ \A t \in Tasks \ {TaskOf(e)} : Answer(e, how)[t] = owed[t]
  BY <1>1, <1>2, <1>3
<1> QED BY <1>4 DEF o

\* A run that is put off leaves a task that comes back.
LEMMA LaterHolds ==
  ASSUME NEW kind, NEW x, NEW task, NEW owing \in Owing, NEW events, NEW row,
         NEW how \in {"no", "waiting"},
         Serves(kind, x, task.next, owing, events), Holds(kind, task, owing, events),
         row.status = task.status, row.next = "future"
  PROVE  Holds(kind, row, Left(owing, how), events)
BY DEF Serves, Holds, Left, Owing

\* A run that ends has answered the trigger, and no newer one waits for a task
\* whose next_run it may clear.
LEMMA OverHolds ==
  ASSUME NEW kind, NEW x, NEW task, NEW owing \in Owing, NEW events, NEW row,
         Serves(kind, x, task.next, owing, events), Holds(kind, task, owing, events),
         Working(x),
         kind = "repeat" => row.status = task.status /\ row.next = "future"
  PROVE  Holds(kind, row, Left(owing, "no"), events)
BY DEF Serves, Holds, Left, Owing

\* e is through with its task and leaves, at once or after its monitor.
LEMMA RetireServes ==
  ASSUME Undisturbed, IndInv, TriggersKept, NEW e \in Execs, exec[e].at = "work",
         Retire(e),
         tasks' \in [Tasks -> TaskRow], owed' \in [Tasks -> Owing],
         \A t \in Tasks \ {TaskOf(e)} : tasks'[t] = tasks[t] /\ owed'[t] = owed[t],
         Holds(Kind[TaskOf(e)], tasks'[TaskOf(e)], owed'[TaskOf(e)], spent["event"]),
         stopper' = stopper, spent' = spent
  PROVE  TriggersKept'
<1>1. CASE exec[e].forced \/ exec[e].hit
  <2>1. exec' = Gone(e)
    BY <1>1 DEF Retire, End
  <2>2. Moves(e, {}) /\ exec'[e].at = "free"
    BY <2>1, GoneIs DEF Moves
  <2> QED BY <2>2, MovesKeeps
<1>2. CASE ~(exec[e].forced \/ exec[e].hit)
  <2> DEFINE y == [exec EXCEPT ![e].at = "winding"]
             z == [y EXCEPT ![e].out = "left"]
  <2>1. exec' = [z EXCEPT ![e].cancel = "no"]
    BY <1>2 DEF Retire
  <2>2. /\ y \in [Execs -> Executions] /\ y[e].at = "winding"
        /\ y[e].task = TaskOf(e) /\ y[e].forced = exec[e].forced
        /\ \A d \in Execs \ {e} : y[d] = exec[d]
    BY DEF IndInv, Shape, Executions, TaskOf
  <2> HIDE DEF y
  <2>3. /\ z \in [Execs -> Executions] /\ z[e].at = "winding"
        /\ z[e].task = TaskOf(e) /\ z[e].forced = exec[e].forced
        /\ z[e].out = "left" /\ \A d \in Execs \ {e} : z[d] = exec[d]
    BY <2>2 DEF Executions
  <2> HIDE DEF z
  <2>4. /\ exec'[e].at = "winding" /\ exec'[e].task = TaskOf(e)
        /\ exec'[e].forced = exec[e].forced /\ exec'[e].out = "left"
        /\ exec'[e].cancel = "no" /\ \A d \in Execs \ {e} : exec'[d] = exec[d]
    BY <2>1, <2>3 DEF Executions
  <2>5. Moves(e, {})
    BY <2>4 DEF Moves
  <2>6. Serves(Kind[TaskOf(e)], exec[e], tasks[TaskOf(e)].next, owed[TaskOf(e)],
               spent["event"])
    BY LiveServes
  <2>7. Serves(Kind[TaskOf(e)], exec'[e], tasks'[TaskOf(e)].next, owed'[TaskOf(e)],
               spent["event"])
    BY <2>4, <2>6 DEF Serves, Working
  <2> QED BY <2>4, <2>5, <2>7, MovesKeeps
<1> QED BY <1>1, <1>2

\* The work ends, and may chain to a task that comes back by itself.
LEMMA FinishServes ==
  ASSUME Undisturbed, IndInv, TriggersKept, NEW e \in Execs,
         exec[e].at # "free", Working(exec[e]),
         NEW out \in {"success", "error", "raised"}, Finish(e, out),
         stopper' = stopper, spent' = spent
  PROVE  TriggersKept'
<1> USE ConstantsAssumption DEF ConstantsAssumption
<1> DEFINE t == TaskOf(e)
<1>1. /\ t \in Tasks /\ tasks[t] \in TaskRow /\ owed[t] \in Owing
      /\ Holds(Kind[t], tasks[t], owed[t], spent["event"])
      /\ Serves(Kind[t], exec[e], tasks[t].next, owed[t], spent["event"])
  BY LiveServes
<1>2. /\ owed' \in [Tasks -> Owing] /\ owed'[t] = Left(owed[t], "no")
      /\ \A s \in Tasks \ {t} : owed'[s] = owed[s]
  BY <1>1, AnswerIs DEF Finish
<1>3. NextTime(t) \in {"unset", "future"} /\ (Kind[t] = "repeat" => NextTime(t) = "future")
  BY DEF NextTime
<1> DEFINE next == SetNext(e, NextTime(t))
<1>4. /\ next \in [Tasks -> TaskRow] /\ next[t].status = tasks[t].status
      /\ Kind[t] = "repeat" => next[t].next = "future"
      /\ \A s \in Tasks \ {t} : next[s] = tasks[s]
  BY <1>1, <1>3, NextSet
<1>5. tasks \in [Tasks -> TaskRow]
  BY DEF TriggersKept, TaskRow
<1>6. CASE out = "raised"
  <2>1. /\ tasks' = IF Kind[t] = "event" THEN tasks ELSE next
        /\ exec' = Gone(e)
    BY <1>6 DEF Finish, Raises
  <2> HIDE DEF next
  <2>2. /\ tasks' \in [Tasks -> TaskRow] /\ \A s \in Tasks \ {t} : tasks'[s] = tasks[s]
        /\ Kind[t] = "repeat" => tasks'[t].status = tasks[t].status
                                   /\ tasks'[t].next = "future"
    BY <1>4, <1>5, <2>1
  <2>3. Holds(Kind[t], tasks'[t], owed'[t], spent["event"])
    BY <1>1, <1>2, <2>2, OverHolds
  <2>4. Moves(e, {}) /\ exec'[e].at = "free"
    BY <1>2, <2>1, <2>2, GoneIs DEF Moves
  <2> QED BY <2>3, <2>4, MovesKeeps
<1>7. CASE out # "raised"
  <2> DEFINE chained == IF out = "success" /\ Then[t] # None /\ Chainable(Then[t])
                        THEN {Then[t]} ELSE {}
             rw == [rows EXCEPT ![e] = out]
  <2>1. /\ tasks' = IF Kind[t] = "once" THEN [next EXCEPT ![t].status = "completed"] ELSE next
        /\ Spawn(chained, "chained", FALSE, Gone(e), rw)
    BY <1>7 DEF Finish, Completes
  <2> HIDE DEF next
  <2>2. /\ tasks' \in [Tasks -> TaskRow] /\ \A s \in Tasks \ {t} : tasks'[s] = tasks[s]
        /\ Kind[t] = "repeat" => tasks'[t].status = tasks[t].status
                                   /\ tasks'[t].next = "future"
    <3>1. CASE Kind[t] = "once"
      BY <1>1, <1>4, <2>1, <3>1 DEF TaskRow
    <3>2. CASE Kind[t] # "once"
      BY <1>4, <2>1, <3>2
    <3> QED BY <3>1, <3>2
  <2>3. Holds(Kind[t], tasks'[t], owed'[t], spent["event"])
    BY <1>1, <1>2, <2>2, OverHolds
  <2>4. chained \in SUBSET Tasks /\ \A s \in chained : Kind[s] = "repeat"
    BY <1>1 DEF Undisturbed
  <2>5. Gone(e) \in [Execs -> Executions] /\ rw \in [Execs -> Rows]
    BY <1>7 DEF IndInv, Shape, Gone, NoExec, Executions, Rows
  <2> HIDE DEF chained, rw
  <2>6. \E name : Spawned(name, chained, "chained", FALSE, Gone(e), rw)
    BY <2>1, <2>4, <2>5, SpawnMakes
  <2> PICK name : Spawned(name, chained, "chained", FALSE, Gone(e), rw)
    BY <2>6
  <2> DEFINE new == {d \in Free : \E s \in chained : name[s] = d}
  <2>7. \A s \in chained : exec'[name[s]] = Begun(s, "chained", FALSE)
    BY DEF Spawned
  <2>8. ASSUME NEW d \in new
        PROVE  /\ exec'[d].at = "chained" /\ exec'[d].task \in Tasks
               /\ Kind[exec'[d].task] = "repeat"
               /\ exec'[d].forced = FALSE /\ exec'[d].cancel = "no"
    <3>1. PICK s \in chained : name[s] = d
      OBVIOUS
    <3>2. exec'[d] = Begun(s, "chained", FALSE)
      BY <2>7, <3>1
    <3>3. s \in Tasks /\ Kind[s] = "repeat"
      BY <2>4
    <3>4. /\ exec'[d].at = "chained" /\ exec'[d].task = s /\ exec'[d].forced = FALSE
          /\ exec'[d].cancel = "no"
      BY <3>2 DEF Begun, NoExec
    <3> QED BY <3>3, <3>4
  <2>9. \A d \in Execs \ new : exec'[d] = Gone(e)[d]
    BY DEF Spawned
  <2>10. new \in SUBSET (Execs \ {e})
    BY DEF Free
  <2>11. exec'[e].at = "free" /\ \A d \in Execs \ (new \cup {e}) : exec'[d] = exec[d]
    BY <2>9, <2>10, GoneIs
  <2> HIDE DEF new
  <2>12. Moves(e, new)
    BY <1>2, <2>2, <2>8, <2>11 DEF Moves
  <2> QED BY <2>3, <2>10, <2>11, <2>12, MovesKeeps
<1> QED BY <1>6, <1>7

\* The row and the trigger of a run that is put off, or over without an outcome.
LEMMA PutOffServes ==
  ASSUME Undisturbed, IndInv, TriggersKept, NEW e \in Execs, exec[e].at = "work",
         NEW how \in {"no", "waiting"},
         tasks' = SetNext(e, "future"), owed' = Answer(e, how), Retire(e),
         stopper' = stopper, spent' = spent
  PROVE  TriggersKept'
<1>1. /\ TaskOf(e) \in Tasks /\ owed[TaskOf(e)] \in Owing
      /\ Holds(Kind[TaskOf(e)], tasks[TaskOf(e)], owed[TaskOf(e)], spent["event"])
      /\ Serves(Kind[TaskOf(e)], exec[e], tasks[TaskOf(e)].next, owed[TaskOf(e)],
                spent["event"])
  BY LiveServes
<1>2. /\ tasks' \in [Tasks -> TaskRow]
      /\ tasks'[TaskOf(e)].status = tasks[TaskOf(e)].status
      /\ tasks'[TaskOf(e)].next = "future"
      /\ \A t \in Tasks \ {TaskOf(e)} : tasks'[t] = tasks[t]
  BY <1>1, NextSet
<1>3. /\ owed' \in [Tasks -> Owing]
      /\ owed'[TaskOf(e)] = Left(owed[TaskOf(e)], how)
      /\ \A t \in Tasks \ {TaskOf(e)} : owed'[t] = owed[t]
  BY <1>1, AnswerIs
<1>4. Holds(Kind[TaskOf(e)], tasks'[TaskOf(e)], owed'[TaskOf(e)], spent["event"])
  BY <1>1, <1>2, <1>3, LaterHolds
<1> QED BY <1>2, <1>3, <1>4, RetireServes

\* The work returns, raises, defers or finds nothing to do.
LEMMA ReturnServes ==
  ASSUME Undisturbed, IndInv, TriggersKept, NEW e \in Execs, Return(e)
  PROVE  TriggersKept'
<1>1. /\ exec[e].at = "work" /\ exec[e].cancel = "no" /\ Working(exec[e])
      /\ stopper' = stopper /\ spent' = spent
  BY DEF Return, Working
<1>2. /\ TaskOf(e) \in Tasks /\ owed[TaskOf(e)] \in Owing
      /\ Holds(Kind[TaskOf(e)], tasks[TaskOf(e)], owed[TaskOf(e)], spent["event"])
      /\ Serves(Kind[TaskOf(e)], exec[e], tasks[TaskOf(e)].next, owed[TaskOf(e)],
                spent["event"])
  BY <1>1, LiveServes
<1>3. CASE Defers(e)
  BY <1>1, <1>3, PutOffServes DEF Defers
<1>4. CASE Noop(e)
  <2>1. tasks' = SetNext(e, NextTime(TaskOf(e))) /\ owed' = Answer(e, "no") /\ Retire(e)
    BY <1>4 DEF Noop
  <2>2. /\ NextTime(TaskOf(e)) \in {"unset", "future"}
        /\ Kind[TaskOf(e)] = "repeat" => NextTime(TaskOf(e)) = "future"
    BY DEF NextTime
  <2>3. /\ tasks' \in [Tasks -> TaskRow]
        /\ tasks'[TaskOf(e)].status = tasks[TaskOf(e)].status
        /\ Kind[TaskOf(e)] = "repeat" => tasks'[TaskOf(e)].next = "future"
        /\ \A t \in Tasks \ {TaskOf(e)} : tasks'[t] = tasks[t]
    BY <1>2, <2>1, <2>2, NextSet
  <2>4. /\ owed' \in [Tasks -> Owing]
        /\ owed'[TaskOf(e)] = Left(owed[TaskOf(e)], "no")
        /\ \A t \in Tasks \ {TaskOf(e)} : owed'[t] = owed[t]
    BY <1>2, <2>1, AnswerIs
  <2>5. Holds(Kind[TaskOf(e)], tasks'[TaskOf(e)], owed'[TaskOf(e)], spent["event"])
    BY <1>1, <1>2, <2>3, <2>4, OverHolds
  <2> QED BY <1>1, <2>1, <2>3, <2>4, <2>5, RetireServes
<1>5. ASSUME NEW out \in {"success", "error", "raised"}, exec[e].forced /\ Finish(e, out)
      PROVE TriggersKept'
  BY <1>2, <1>5 DEF Serves
<1>6. ASSUME NEW out \in {"success", "error", "raised"},
             exec' = [exec EXCEPT ![e].at = "winding", ![e].out = out],
             UNCHANGED <<tasks, owed, rows, recent, handles, executing, slot, waiters>>
      PROVE TriggersKept'
  <2> DEFINE y == [exec EXCEPT ![e].at = "winding"]
  <2>1. exec' = [y EXCEPT ![e].out = out]
    BY <1>6
  <2>2. /\ y \in [Execs -> Executions] /\ y[e].at = "winding"
        /\ y[e].task = TaskOf(e) /\ y[e].forced = exec[e].forced
        /\ y[e].cancel = "no" /\ \A d \in Execs \ {e} : y[d] = exec[d]
    BY <1>1 DEF IndInv, Shape, Executions, TaskOf
  <2> HIDE DEF y
  <2>3. /\ exec'[e].at = "winding" /\ exec'[e].task = TaskOf(e)
        /\ exec'[e].forced = exec[e].forced /\ exec'[e].cancel = "no"
        /\ exec'[e].out = out /\ \A d \in Execs \ {e} : exec'[d] = exec[d]
    BY <2>1, <2>2 DEF Executions
  <2>4. Serves(Kind[TaskOf(e)], exec'[e], tasks[TaskOf(e)].next, owed[TaskOf(e)],
               spent["event"])
    BY <1>1, <1>2, <2>3 DEF Serves, Working
  <2> QED BY <1>1, <1>6, <2>3, <2>4, StaysKeeps
<1> QED BY <1>3, <1>4, <1>5, <1>6 DEF Return

\* The foreground monitor hits e.
LEMMA MonitorServes ==
  ASSUME Undisturbed, IndInv, TriggersKept, NEW e \in Execs, Monitor(e)
  PROVE  TriggersKept'
<1> DEFINE who == IF exec[e].cancel = "no" THEN "foreground" ELSE exec[e].cancel
           y == [exec EXCEPT ![e].hit = TRUE]
<1>1. exec' = [y EXCEPT ![e].cancel = who]
  BY DEF Monitor, IndInv, Shape, Executions
<1>2. /\ exec[e].at = "work" /\ UNCHANGED <<tasks, owed, stopper, spent>>
  BY DEF Monitor
<1>3. /\ y \in [Execs -> Executions] /\ y[e].at = "work" /\ y[e].hit = TRUE
      /\ y[e].task = TaskOf(e) /\ y[e].forced = exec[e].forced
      /\ y[e].out = exec[e].out /\ \A d \in Execs \ {e} : y[d] = exec[d]
  BY <1>2 DEF IndInv, Shape, Executions, TaskOf
<1> HIDE DEF who, y
<1>4. /\ exec'[e].at = "work" /\ exec'[e].hit = TRUE
      /\ exec'[e].task = TaskOf(e) /\ exec'[e].forced = exec[e].forced
      /\ exec'[e].out = exec[e].out /\ \A d \in Execs \ {e} : exec'[d] = exec[d]
  BY <1>1, <1>3 DEF Executions
<1>5. Serves(Kind[TaskOf(e)], exec[e], tasks[TaskOf(e)].next, owed[TaskOf(e)],
             spent["event"])
  BY <1>2, LiveServes
<1>6. Serves(Kind[TaskOf(e)], exec'[e], tasks[TaskOf(e)].next, owed[TaskOf(e)],
             spent["event"])
  BY <1>2, <1>4, <1>5 DEF Serves, Working
<1> QED BY <1>2, <1>4, <1>6, StaysKeeps

\* The steps of an execution.
LEMMA StepServes ==
  ASSUME Undisturbed, IndInv, TriggersKept, NEW e \in Execs, Step(e)
  PROVE  TriggersKept'
<1>1. CASE Start(e)
  BY <1>1, StartServes
<1>2. CASE Acquire(e)
  <2>1. exec[e].at = "slot" /\ Admit(e) /\ stopper' = stopper /\ spent' = spent
    BY <1>2 DEF Acquire
  <2> QED BY <2>1, AdmitServes
<1>3. CASE Quiet(e)
  <2>1. exec[e].at = "gate" /\ Enter(e) /\ stopper' = stopper /\ spent' = spent
    BY <1>3 DEF Quiet
  <2> QED BY <2>1, EnterServes
<1>4. CASE Monitor(e)
  BY <1>4, MonitorServes
<1>5. CASE Return(e)
  BY <1>5, ReturnServes
<1>6. CASE Unwind(e)
  <2>1. exec[e].at = "winding" /\ stopper' = stopper /\ spent' = spent
    BY <1>6 DEF Unwind
  <2>2. CASE exec[e].out = "left" /\ End(e) /\ UNCHANGED <<tasks, owed, rows>>
    BY <2>1, <2>2, GoneIs, StaysKeeps DEF End
  <2>3. CASE exec[e].out # "left" /\ Finish(e, exec[e].out)
    <3>1. Fits(exec[e], rows[e]) /\ exec[e] \in Executions
      BY DEF IndInv, RowsFit, Shape
    <3>2. exec[e].out \in {"success", "error", "raised"} /\ Working(exec[e])
      BY <2>1, <2>3, <3>1 DEF Fits, Executions, Working
    <3> QED BY <2>1, <2>3, <3>2, FinishServes
  <2> QED BY <1>6, <2>2, <2>3 DEF Unwind
<1>7. CASE Cancelled(e)
  <2>1. exec[e].cancel # "no" /\ stopper' = stopper /\ spent' = spent
    BY <1>7 DEF Cancelled
  <2>2. exec[e].at \in {"slot", "gate", "work"}
    BY <1>7 DEF Cancelled, CancelledQueued, CancelledWorking
  <2>3. exec[e].hit /\ exec[e].at = "work"
    BY <2>1, <2>2, LiveServes DEF Serves
  <2>4. CancelledWorking(e)
    BY <1>7, <2>3 DEF Cancelled, CancelledQueued
  <2> DEFINE how == IF exec[e].cancel = "user" THEN "no" ELSE "waiting"
  <2>5. /\ tasks' = SetNext(e, "future") /\ owed' = Answer(e, how) /\ Retire(e)
        /\ how \in {"no", "waiting"}
    BY <2>3, <2>4 DEF CancelledWorking
  <2> HIDE DEF how
  <2> QED BY <2>1, <2>3, <2>5, PutOffServes
<1> QED BY <1>1, <1>2, <1>3, <1>4, <1>5, <1>6, <1>7 DEF Step

\* After a dispatch an execution is as it was, or has just begun.
LEMMA DispatchedAre ==
  ASSUME IndInv, NEW due \in SUBSET Tasks, Spawn(due, "spawned", FALSE, exec, rows),
         NEW e \in Execs, exec'[e].at # "free"
  PROVE  \/ exec'[e] = exec[e]
         \/ /\ exec'[e].task \in due /\ exec'[e].at = "spawned"
            /\ exec'[e].forced = FALSE /\ exec'[e].cancel = "no"
<1>1. exec \in [Execs -> Executions] /\ rows \in [Execs -> Rows]
  BY DEF IndInv, Shape
<1>2. \E name : Spawned(name, due, "spawned", FALSE, exec, rows)
  BY <1>1, SpawnMakes
<1> PICK name : Spawned(name, due, "spawned", FALSE, exec, rows)
  BY <1>2
<1>3. CASE \E t \in due : name[t] = e
  <2>1. PICK t \in due : name[t] = e
    BY <1>3
  <2>2. exec'[e] = Begun(t, "spawned", FALSE)
    BY <2>1 DEF Spawned
  <2> QED BY <2>2 DEF Begun, NoExec
<1>4. CASE \A t \in due : name[t] # e
  BY <1>4 DEF Spawned
<1> QED BY <1>3, <1>4

\* The tasks, each with its trigger, and the executions, taken one by one.
LEMMA KeptOneByOne ==
  ASSUME tasks' \in [Tasks -> TaskRow], owed' \in [Tasks -> Owing],
         Within(spent'), stopper' = FALSE,
         \A t \in Tasks : Holds(Kind[t], tasks'[t], owed'[t], spent'["event"]),
         \A e \in Execs : exec'[e].at # "free" =>
           Serves(Kind[exec'[e].task], exec'[e], tasks'[exec'[e].task].next,
                  owed'[exec'[e].task], spent'["event"])
  PROVE  TriggersKept'
<1>1. \A e \in Live' : Serves(Kind[TaskOf(e)'], exec'[e], tasks'[TaskOf(e)'].next,
                              owed'[TaskOf(e)'], spent'["event"])
  BY DEF Live, Free, TaskOf
<1> QED BY <1>1 DEF TriggersKept, TaskRow, Owing

\* What the invariant says of the values.
LEMMA KeptValues ==
  ASSUME IndInv, TriggersKept
  PROVE  /\ tasks \in [Tasks -> TaskRow] /\ owed \in [Tasks -> Owing]
         /\ Within(spent) /\ stopper = FALSE
         /\ \A t \in Tasks : Holds(Kind[t], tasks[t], owed[t], spent["event"])
         /\ \A e \in Execs : exec[e].at # "free" =>
              /\ exec[e].task \in Tasks
              /\ Serves(Kind[exec[e].task], exec[e], tasks[exec[e].task].next,
                        owed[exec[e].task], spent["event"])
<1>1. \A e \in Execs : exec[e].at # "free" =>
        /\ exec[e].task \in Tasks
        /\ Serves(Kind[exec[e].task], exec[e], tasks[exec[e].task].next,
                  owed[exec[e].task], spent["event"])
  BY LiveServes DEF TaskOf
<1> QED BY <1>1 DEF TriggersKept, TaskRow, Owing

\* The loop: what is due is begun, or put off while the foreground is active.
LEMMA TickServes ==
  ASSUME Undisturbed, IndInv, TriggersKept, Tick
  PROVE  TriggersKept'
<1> DEFINE due == Due \ executing
<1>1. /\ owed' = owed /\ stopper' = stopper /\ spent' = spent
  BY DEF Tick
<1>2. \A t \in due : t \in Tasks /\ tasks[t].status = "active" /\ tasks[t].next = "past"
                       /\ t \notin executing
  BY DEF Due
<1>3. CASE /\ tasks' = [t \in Tasks |-> IF t \in due THEN [tasks[t] EXCEPT !.next = "future"]
                                        ELSE tasks[t]]
           /\ exec' = exec
  <2>1. \A t \in Tasks : /\ t \in due => /\ tasks'[t].status = "active"
                                         /\ tasks'[t].next = "future"
                                         /\ tasks'[t] \in TaskRow
                         /\ t \notin due => tasks'[t] = tasks[t]
    BY <1>2, <1>3, KeptValues DEF TaskRow
  <2>2. tasks' \in [Tasks -> TaskRow]
    BY <1>3, <2>1, KeptValues
  <2>3. ASSUME NEW t \in Tasks
        PROVE  Holds(Kind[t], tasks'[t], owed[t], spent["event"])
    <3>1. Holds(Kind[t], tasks[t], owed[t], spent["event"])
      BY KeptValues
    <3>2. CASE t \in due
      BY <1>2, <2>1, <3>1, <3>2 DEF Holds
    <3> QED BY <2>1, <3>1, <3>2
  <2>4. ASSUME NEW e \in Execs, exec[e].at # "free"
        PROVE  Serves(Kind[exec[e].task], exec[e], tasks'[exec[e].task].next,
                      owed[exec[e].task], spent["event"])
    <3>1. /\ exec[e].task \in Tasks
          /\ Serves(Kind[exec[e].task], exec[e], tasks[exec[e].task].next,
                    owed[exec[e].task], spent["event"])
      BY <2>4, KeptValues
    <3>2. CASE Kind[exec[e].task] = "repeat"
      BY <3>1, <3>2, RepeatServes
    <3>3. CASE Kind[exec[e].task] # "repeat"
      <4>1. exec[e].task \notin due
        BY <1>2, <2>4, <3>3, IdleServesNone DEF TaskOf
      <4> QED BY <2>1, <3>1, <4>1
    <3> QED BY <3>2, <3>3
  <2> HIDE DEF due
  <2> QED BY <1>1, <1>3, <2>2, <2>3, <2>4, KeptValues, KeptOneByOne
<1>4. CASE tasks' = tasks /\ Spawn(due, "spawned", FALSE, exec, rows)
  <2>1. due \in SUBSET Tasks
    BY DEF Due
  <2> HIDE DEF due
  <2>2. ASSUME NEW e \in Execs, exec'[e].at # "free"
        PROVE  Serves(Kind[exec'[e].task], exec'[e], tasks[exec'[e].task].next,
                      owed[exec'[e].task], spent["event"])
    <3>1. CASE exec'[e] = exec[e]
      BY <2>2, <3>1, KeptValues
    <3>2. CASE /\ exec'[e].task \in due /\ exec'[e].at = "spawned"
               /\ exec'[e].forced = FALSE /\ exec'[e].cancel = "no"
      <4>1. tasks[exec'[e].task].next = "past" /\ exec'[e].task \in Tasks
        BY <1>2, <3>2
      <4>2. Holds(Kind[exec'[e].task], tasks[exec'[e].task], owed[exec'[e].task],
                  spent["event"])
        BY <4>1, KeptValues
      <4> QED BY <3>2, <4>1, <4>2 DEF Holds, Serves, Working
    <3> QED BY <1>4, <2>1, <2>2, <3>1, <3>2, DispatchedAre
  <2> QED BY <1>1, <1>4, <2>2, KeptValues, KeptOneByOne
<1> QED BY <1>3, <1>4 DEF Tick

\* The one event finds no execution of its task, and starts one.
LEMMA EventServes ==
  ASSUME Undisturbed, IndInv, TriggersKept, NEW t \in Tasks, Event(t)
  PROVE  TriggersKept'
<1>1. /\ Kind[t] = "event" /\ tasks[t].status = "active" /\ Spend("event")
      /\ tasks' = [tasks EXCEPT ![t].next = "past"]
      /\ owed' = [owed EXCEPT ![t] = "waiting"]
      /\ RunNow(t) /\ stopper' = stopper
  BY DEF Event
<1>2. /\ spent \in [Deeds -> Nat] /\ spent' \in [Deeds -> Nat] /\ Within(spent')
      /\ spent' = [spent EXCEPT !["event"] = @ + 1] /\ "event" \in Deeds
  BY <1>1 DEF IndInv, Shape, Spend, Deeds
<1>3. spent["event"] = 0 /\ spent'["event"] = 1
  <2>1. spent'["event"] <= 1
    BY <1>2, SpentQuietly
  <2> QED BY <1>2, <2>1
<1>4. /\ tasks' \in [Tasks -> TaskRow] /\ owed' \in [Tasks -> Owing]
      /\ tasks'[t].status = "active" /\ tasks'[t].next = "past" /\ owed'[t] = "waiting"
      /\ \A s \in Tasks \ {t} : tasks'[s] = tasks[s] /\ owed'[s] = owed[s]
  BY <1>1, KeptValues DEF TaskRow, Owing
<1>5. ASSUME NEW s \in Tasks
      PROVE  Holds(Kind[s], tasks'[s], owed'[s], spent'["event"])
  <2>1. CASE s = t
    BY <1>1, <1>3, <1>4, <2>1 DEF Holds
  <2>2. CASE s # t
    <3>1. Holds(Kind[s], tasks[s], owed[s], spent["event"])
      BY KeptValues
    <3> QED BY <1>3, <1>4, <2>2, <3>1 DEF Holds
  <2> QED BY <2>1, <2>2
<1>6. ASSUME NEW e \in Execs, exec[e].at # "free"
      PROVE  Serves(Kind[exec[e].task], exec[e], tasks'[exec[e].task].next,
                    owed'[exec[e].task], spent'["event"])
  <2>1. /\ exec[e].task \in Tasks
        /\ Serves(Kind[exec[e].task], exec[e], tasks[exec[e].task].next,
                  owed[exec[e].task], spent["event"])
    BY <1>6, KeptValues
  <2>2. exec[e].task # t
    BY <1>1, <1>3, <2>1 DEF Serves
  <2> QED BY <1>3, <1>4, <2>1, <2>2 DEF Serves
<1>7. ASSUME NEW e \in Execs, exec'[e].at # "free"
      PROVE  Serves(Kind[exec'[e].task], exec'[e], tasks'[exec'[e].task].next,
                    owed'[exec'[e].task], spent'["event"])
  <2>1. CASE exec'[e] = exec[e]
    BY <1>6, <1>7, <2>1
  <2>2. CASE /\ exec'[e].task = t /\ exec'[e].at = "spawned"
             /\ exec'[e].forced = FALSE /\ exec'[e].cancel = "no"
    BY <1>1, <1>3, <2>2 DEF Serves, Working
  <2>3. CASE exec' = exec
    BY <2>1, <2>3
  <2>4. CASE exec' # exec
    <3> DEFINE due == {t}
    <3>1. Spawn(due, "spawned", FALSE, exec, rows) /\ due \in SUBSET Tasks
      BY <1>1, <2>4 DEF RunNow
    <3>2. \A s \in due : s = t
      OBVIOUS
    <3> HIDE DEF due
    <3> QED BY <1>7, <2>1, <2>2, <3>1, <3>2, DispatchedAre
  <2> QED BY <2>3, <2>4
<1>8. stopper' = FALSE
  BY <1>1, KeptValues
<1> QED BY <1>2, <1>4, <1>5, <1>7, <1>8, KeptOneByOne

\* A deed that is not an event.
LEMMA SpendsNoEvent ==
  ASSUME IndInv, NEW d \in Deeds \ {"event"}, Spend(d)
  PROVE  /\ spent'["event"] = spent["event"] /\ Within(spent')
         /\ spent' \in [Deeds -> Nat] /\ spent'[d] # 0
<1>1. /\ spent \in [Deeds -> Nat] /\ spent' = [spent EXCEPT ![d] = @ + 1]
      /\ Within(spent') /\ "event" \in Deeds
  BY DEF IndInv, Shape, Spend, Deeds
<1> QED BY <1>1

\* A step that changes the row and the trigger of t and no execution.
LEMMA RowServes ==
  ASSUME IndInv, TriggersKept, NEW t \in Tasks,
         tasks' \in [Tasks -> TaskRow], owed' \in [Tasks -> Owing],
         \A s \in Tasks \ {t} : tasks'[s] = tasks[s] /\ owed'[s] = owed[s],
         exec' = exec, stopper' = stopper,
         Within(spent'), spent'["event"] = spent["event"],
         Holds(Kind[t], tasks'[t], owed'[t], spent["event"]),
         \A x : Serves(Kind[t], x, tasks[t].next, owed[t], spent["event"])
                  => Serves(Kind[t], x, tasks'[t].next, owed'[t], spent["event"])
  PROVE  TriggersKept'
<1>1. \A s \in Tasks : Holds(Kind[s], tasks'[s], owed'[s], spent'["event"])
  BY KeptValues
<1>2. ASSUME NEW e \in Execs, exec[e].at # "free"
      PROVE  Serves(Kind[exec[e].task], exec[e], tasks'[exec[e].task].next,
                    owed'[exec[e].task], spent["event"])
  <2>1. /\ exec[e].task \in Tasks
        /\ Serves(Kind[exec[e].task], exec[e], tasks[exec[e].task].next,
                  owed[exec[e].task], spent["event"])
    BY <1>2, KeptValues
  <2>2. CASE exec[e].task = t
    BY <2>1, <2>2
  <2>3. CASE exec[e].task # t
    BY <2>1, <2>3
  <2> QED BY <2>2, <2>3
<1>3. stopper' = FALSE
  BY KeptValues
<1> QED BY <1>1, <1>2, <1>3, KeptOneByOne

\* A time comes: of a task that runs once nothing is at work then.
LEMMA TimeServes ==
  ASSUME Undisturbed, IndInv, TriggersKept, NEW t \in Tasks, TimePasses(t)
  PROVE  TriggersKept'
<1> DEFINE o == IF Kind[t] = "event" THEN owed[t] ELSE "waiting"
<1>1. /\ tasks[t].status = "active" /\ tasks[t].next = "future"
      /\ tasks' = [tasks EXCEPT ![t].next = "past"] /\ exec' = exec
      /\ stopper' = stopper /\ spent' = spent
  BY DEF TimePasses
<1>2. /\ tasks \in [Tasks -> TaskRow] /\ owed \in [Tasks -> Owing]
      /\ Holds(Kind[t], tasks[t], owed[t], spent["event"])
  BY KeptValues
<1>3. owed' = [owed EXCEPT ![t] = o]
  BY <1>2 DEF TimePasses
<1>4. o \in Owing
  BY <1>2 DEF Owing
<1>5. /\ tasks'[t].status = "active" /\ tasks'[t].next = "past"
      /\ tasks' \in [Tasks -> TaskRow] /\ \A s \in Tasks \ {t} : tasks'[s] = tasks[s]
  BY <1>1, <1>2 DEF TaskRow
<1>6. Holds(Kind[t], tasks'[t], o, spent["event"])
  BY <1>1, <1>2, <1>5 DEF Holds
<1>7. ASSUME NEW x, Serves(Kind[t], x, tasks[t].next, owed[t], spent["event"])
      PROVE  Serves(Kind[t], x, tasks'[t].next, o, spent["event"])
  <2>1. Kind[t] \in {"event", "once", "repeat"}
    BY ConstantsAssumption DEF ConstantsAssumption
  <2>2. CASE Kind[t] = "event"
    BY <1>7, <2>2 DEF Serves
  <2>3. CASE Kind[t] = "once"
    BY <1>1, <1>5, <1>7, <2>3 DEF Serves, Working
  <2>4. CASE Kind[t] = "repeat"
    BY <1>7, <2>4, RepeatServes
  <2> QED BY <2>1, <2>2, <2>3, <2>4
<1> HIDE DEF o
<1>8. /\ owed' \in [Tasks -> Owing] /\ owed'[t] = o
      /\ \A s \in Tasks \ {t} : owed'[s] = owed[s]
  BY <1>2, <1>3, <1>4
<1>9. Within(spent')
  BY <1>1, KeptValues
<1> QED BY <1>1, <1>5, <1>6, <1>7, <1>8, <1>9, RowServes

\* A task is paused, its trigger is dropped; or it is resumed, with none.
LEMMA PauseServes ==
  ASSUME Undisturbed, IndInv, TriggersKept, NEW t \in Tasks, Pause(t) \/ Resume(t)
  PROVE  TriggersKept'
<1>1. /\ tasks \in [Tasks -> TaskRow] /\ owed \in [Tasks -> Owing]
      /\ Holds(Kind[t], tasks[t], owed[t], spent["event"])
  BY KeptValues
<1>2. exec' = exec /\ stopper' = stopper
  BY DEF Pause, Resume
<1>3. CASE Pause(t)
  <2>1. /\ tasks' = [tasks EXCEPT ![t].status = "paused"]
        /\ owed' = [owed EXCEPT ![t] = "no"] /\ Spend("pause")
    BY <1>3 DEF Pause
  <2>2. /\ tasks' \in [Tasks -> TaskRow] /\ owed' \in [Tasks -> Owing]
        /\ tasks'[t].status = "paused" /\ tasks'[t].next = tasks[t].next
        /\ owed'[t] = "no"
        /\ \A s \in Tasks \ {t} : tasks'[s] = tasks[s] /\ owed'[s] = owed[s]
    BY <1>1, <2>1 DEF TaskRow, Owing
  <2>3. Holds(Kind[t], tasks'[t], owed'[t], spent["event"])
    BY <1>1, <2>2 DEF Holds
  <2>4. \A x : Serves(Kind[t], x, tasks[t].next, owed[t], spent["event"])
                 => Serves(Kind[t], x, tasks'[t].next, owed'[t], spent["event"])
    BY <2>2 DEF Serves
  <2>5. spent'["event"] = spent["event"] /\ Within(spent')
    BY <2>1, SpendsNoEvent DEF Deeds
  <2> QED BY <1>2, <2>2, <2>3, <2>4, <2>5, RowServes
<1>4. CASE Resume(t)
  <2> DEFINE n == IF Kind[t] = "event" THEN tasks[t].next ELSE NextTime(t)
             row == [status |-> "active", next |-> n]
  <2>1. /\ tasks[t].status # "active" /\ tasks' = [tasks EXCEPT ![t] = row]
        /\ owed' = owed /\ spent' = spent
    BY <1>1, <1>4 DEF Resume
  <2>2. n \in {"unset", "past", "future"}
    BY <1>1 DEF TaskRow, NextTime
  <2>3. /\ Kind[t] = "repeat" => n = "future"
        /\ Kind[t] = "event" => n = tasks[t].next
        /\ Kind[t] = "once" => n = "unset"
    BY DEF NextTime
  <2> HIDE DEF n
  <2>4. row \in TaskRow
    BY <2>2 DEF TaskRow
  <2>5. /\ tasks' \in [Tasks -> TaskRow] /\ tasks'[t] = row /\ owed' \in [Tasks -> Owing]
        /\ \A s \in Tasks \ {t} : tasks'[s] = tasks[s] /\ owed'[s] = owed[s]
    BY <1>1, <2>1, <2>4
  <2>6. owed[t] = "no"
    BY <1>1, <2>1 DEF Holds
  <2>7. Holds(Kind[t], row, owed[t], spent["event"])
    BY <1>1, <2>3, <2>6 DEF Holds
  <2>8. \A x : Serves(Kind[t], x, tasks[t].next, owed[t], spent["event"])
                 => Serves(Kind[t], x, row.next, owed[t], spent["event"])
    BY <2>3 DEF Serves
  <2>9. Within(spent')
    BY <2>1, KeptValues
  <2> HIDE DEF row
  <2> QED BY <1>2, <2>1, <2>5, <2>7, <2>8, <2>9, RowServes
<1> QED BY <1>3, <1>4

\* A crash ends every execution; the trigger a run was to answer waits again.
LEMMA CrashServes ==
  ASSUME Undisturbed, IndInv, TriggersKept, Crash
  PROVE  TriggersKept'
<1>1. /\ tasks' = tasks /\ stopper' = FALSE /\ Spend("crash")
      /\ exec' = [e \in Execs |-> NoExec]
      /\ owed' = [t \in Tasks |-> IF owed[t] = "running" THEN "waiting" ELSE owed[t]]
  BY DEF Crash
<1>2. spent'["event"] = spent["event"] /\ Within(spent')
  BY <1>1, SpendsNoEvent DEF Deeds
<1>3. owed' \in [Tasks -> Owing]
  BY <1>1, KeptValues DEF Owing
<1>4. \A t \in Tasks : Holds(Kind[t], tasks'[t], owed'[t], spent'["event"])
  <2> SUFFICES ASSUME NEW t \in Tasks
               PROVE Holds(Kind[t], tasks[t], owed'[t], spent["event"])
    BY <1>1, <1>2
  <2>1. Holds(Kind[t], tasks[t], owed[t], spent["event"])
    BY KeptValues
  <2> QED BY <1>1, <2>1 DEF Holds
<1>5. \A e \in Execs : exec'[e].at = "free"
  BY <1>1 DEF NoExec
<1> QED BY <1>1, <1>2, <1>3, <1>4, <1>5, KeptValues, KeptOneByOne

\* The restart puts off what is overdue, and nothing is alive yet.
LEMMA RestartServes ==
  ASSUME Undisturbed, IndInv, TriggersKept, Restart
  PROVE  TriggersKept'
<1>1. /\ ~up /\ exec' = exec /\ owed' = owed /\ stopper' = stopper /\ spent' = spent
      /\ tasks' = [t \in Tasks |-> IF t \in Due THEN [tasks[t] EXCEPT !.next = "future"]
                                   ELSE tasks[t]]
  BY DEF Restart
<1>2. \A e \in Execs : exec'[e].at = "free"
  BY <1>1 DEF IndInv, DownIsEmpty, Live, Free
<1>3. \A t \in Tasks : /\ t \in Due => /\ tasks[t].status = "active"
                                       /\ tasks[t].next = "past"
                                       /\ tasks'[t].status = "active"
                                       /\ tasks'[t].next = "future"
                                       /\ tasks'[t] \in TaskRow
                       /\ t \notin Due => tasks'[t] = tasks[t]
  BY <1>1, KeptValues DEF Due, TaskRow
<1>4. tasks' \in [Tasks -> TaskRow]
  BY <1>1, <1>3, KeptValues
<1>5. \A t \in Tasks : Holds(Kind[t], tasks'[t], owed'[t], spent'["event"])
  <2> SUFFICES ASSUME NEW t \in Tasks
               PROVE Holds(Kind[t], tasks'[t], owed[t], spent["event"])
    BY <1>1
  <2>1. Holds(Kind[t], tasks[t], owed[t], spent["event"])
    BY KeptValues
  <2> QED BY <1>3, <2>1 DEF Holds
<1> QED BY <1>1, <1>2, <1>4, <1>5, KeptValues, KeptOneByOne

\* The foreground comes and goes without a request.
LEMMA QuietServes ==
  ASSUME IndInv, TriggersKept, UNCHANGED <<tasks, owed, exec, stopper>>,
         Within(spent'), spent'["event"] = spent["event"]
  PROVE  TriggersKept'
BY KeptValues, KeptOneByOne

\* The invariant behind TriggerSurvives.
THEOREM TriggersAreKept == Undisturbed => (Spec => []TriggersKept)
<1> SUFFICES ASSUME Undisturbed PROVE Spec => []TriggersKept
  OBVIOUS
<1>1. Init => TriggersKept
  <2> SUFFICES ASSUME Init PROVE TriggersKept
    OBVIOUS
  <2> USE ConstantsAssumption DEF ConstantsAssumption
  <2>1. /\ tasks = [t \in Tasks |-> [status |-> "active",
                                     next |-> IF Kind[t] = "event" THEN "unset" ELSE "future"]]
        /\ owed = [t \in Tasks |-> "no"] /\ stopper = FALSE
        /\ exec = [e \in Execs |-> NoExec] /\ spent = [d \in Deeds |-> 0]
    BY DEF Init
  <2>2. Live = {}
    BY <2>1 DEF Live, Free, NoExec
  <2>3. \A t \in Tasks : Holds(Kind[t], tasks[t], owed[t], spent["event"])
    BY <2>1 DEF Holds
  <2>4. Within(spent)
    <3>1. PICK b \in Budgets : b \in [Deeds -> Nat]
      OBVIOUS
    <3>2. \A d \in Deeds : spent[d] <= b[d]
      BY <2>1, <3>1
    <3> QED BY <3>2 DEF Within
  <2> QED BY <2>1, <2>2, <2>3, <2>4 DEF TriggersKept
<1>2. Undisturbed /\ IndInv /\ TriggersKept /\ [Next]_vars => TriggersKept'
  <2> SUFFICES ASSUME IndInv, TriggersKept, [Next]_vars PROVE TriggersKept'
    OBVIOUS
  <2>1. CASE UNCHANGED vars
    BY <2>1, KeptValues, QuietServes DEF vars
  <2>2. CASE Tick
    BY <2>2, TickServes
  <2>3. CASE Crash
    BY <2>3, CrashServes
  <2>4. CASE Restart
    BY <2>4, RestartServes
  <2>5. CASE Stream
    <3>1. Spend("stream") /\ UNCHANGED <<tasks, owed, exec, stopper>>
      BY <2>5 DEF Stream
    <3>2. spent'["event"] = spent["event"] /\ Within(spent')
      BY <3>1, SpendsNoEvent DEF Deeds
    <3> QED BY <3>1, <3>2, QuietServes
  <2>6. CASE Hush
    BY <2>6, KeptValues, QuietServes DEF Hush
  <2>7. CASE StopForForeground
    BY <2>7, KeptValues DEF StopForForeground
  <2>8. ASSUME NEW d \in {"run", "force", "stop", "request"}, Spend(d) PROVE FALSE
    <3>1. spent' \in [Deeds -> Nat] /\ Within(spent') /\ spent'[d] # 0
      BY <2>8, SpendsNoEvent DEF Deeds
    <3> QED BY <3>1, SpentQuietly
  <2>9. CASE Request
    BY <2>8, <2>9 DEF Request
  <2>10. ASSUME NEW t \in Tasks, Run(t) \/ ForceRun(t) \/ Stop(t) PROVE FALSE
    BY <2>8, <2>10 DEF Run, ForceRun, Stop
  <2>11. CASE \E e \in Execs : Step(e)
    BY <2>11, StepServes
  <2>12. ASSUME NEW t \in Tasks, TimePasses(t) \/ Event(t) \/ Pause(t) \/ Resume(t)
         PROVE TriggersKept'
    BY <2>12, TimeServes, EventServes, PauseServes
  <2> QED
    BY <2>1, <2>2, <2>3, <2>4, <2>5, <2>6, <2>7, <2>9, <2>10, <2>11, <2>12 DEF Next
<1> QED BY <1>1, <1>2, Inductive, PTL DEF Spec

\* A trigger that no run has answered keeps its task's next_run set: neither a
\* deferral, a pause, a failure nor a crash loses it, as long as nothing disturbs
\* the scheduler.
THEOREM NoTriggerIsLost == Undisturbed => (Spec => []TriggerSurvives)
<1> SUFFICES ASSUME Undisturbed PROVE Spec => []TriggerSurvives
  OBVIOUS
<1>1. IndInv /\ TriggersKept => TriggerSurvives
  BY KeptValues DEF TriggerSurvives, Holds
<1> QED BY <1>1, Inductive, TriggersAreKept, PTL

-----------------------------------------------------------------------------
(* The shared cache.                                                        *)

\* What OneFetch needs to be inductive: whoever fetches owns the registered
\* future, and a caller never finds a registered future it could replace.
Owns == \A c \in Callers : call[c] = "fetching" => pending = c

CacheInv == CacheTypeOK /\ Owns /\ WaitersShareTheFuture

\* The invariant holds at the start and is kept by every step of _cached.
THEOREM CacheInductive == CacheSpec => []CacheInv
<1>1. CacheInit => CacheInv
  <2> SUFFICES ASSUME CacheInit PROVE CacheInv
    OBVIOUS
  <2>1. cancels \in 0..MaxCancels /\ failures \in 0..MaxFailures
    BY CacheAssumption DEF CacheAssumption, CacheInit
  <2>2. CacheTypeOK
    BY <2>1 DEF CacheInit, CacheTypeOK
  <2>3. \A c \in Callers : call[c] = "idle"
    BY DEF CacheInit
  <2>4. Owns /\ WaitersShareTheFuture
    BY <2>3 DEF Owns, WaitersShareTheFuture, Waiting
  <2> QED BY <2>2, <2>4 DEF CacheInv
<1>2. CacheInv /\ [CacheNext]_cacheVars => CacheInv'
  <2> SUFFICES ASSUME CacheInv, [CacheNext]_cacheVars PROVE CacheInv'
    OBVIOUS
  <2> USE CacheAssumption DEF CacheAssumption, CacheInv, CacheTypeOK, Owns, WaitersShareTheFuture, Waiting, Over
  <2>1. CASE Expire
    BY <2>1 DEF Expire
  <2>2. ASSUME NEW c \in Callers, Call(c) PROVE CacheInv'
    <3>1. CASE entry = "fresh" /\ call' = [call EXCEPT ![c] = "returned"] /\ UNCHANGED pending
      BY <2>2, <3>1 DEF Call
    <3>2. CASE /\ entry # "fresh" /\ pending # NoCaller
               /\ call' = [call EXCEPT ![c] = IF dead THEN "cancelled" ELSE "waiting"]
               /\ UNCHANGED pending
      BY <2>2, <3>2 DEF Call
    <3>3. CASE /\ entry # "fresh" /\ pending = NoCaller
               /\ call' = [call EXCEPT ![c] = "fetching"] /\ pending' = c
      BY <2>2, <3>3 DEF Call
    <3> QED BY <2>2, <3>1, <3>2, <3>3 DEF Call, Lookup
  <2>3. ASSUME NEW c \in Callers, FetchReturns(c) PROVE CacheInv'
    BY <2>3 DEF FetchReturns, Settled
  <2>4. ASSUME NEW c \in Callers, FetchRaises(c) PROVE CacheInv'
    <3>1. failures' \in 0..MaxFailures
      BY <2>4 DEF FetchRaises
    <3>2. /\ entry' = entry /\ cancels' = cancels /\ pending' = NoCaller /\ dead' = FALSE
          /\ call[c] = "fetching"
          /\ call' = [d \in Callers |-> IF d = c \/ (~dead /\ d \in Waiting) THEN "raised" ELSE call[d]]
      BY <2>4 DEF FetchRaises, Settled
    <3>3. \A d \in Callers : call'[d] # "waiting" /\ call'[d] # "fetching"
      BY <3>2
    <3>4. CacheTypeOK'
      BY <3>1, <3>2
    <3> QED BY <3>3, <3>4
  <2>5. ASSUME NEW c \in Callers, CancelOwner(c) PROVE CacheInv'
    BY <2>5 DEF CancelOwner
  <2>6. ASSUME NEW c \in Callers, CancelWaiter(c) PROVE CacheInv'
    BY <2>6 DEF CancelWaiter
  <2>7. ASSUME NEW c \in Callers, Again(c) PROVE CacheInv'
    BY <2>7 DEF Again
  <2>8. CASE UNCHANGED cacheVars
    BY <2>8 DEF cacheVars
  <2> QED BY <2>1, <2>2, <2>3, <2>4, <2>5, <2>6, <2>7, <2>8 DEF CacheNext
<1> QED BY <1>1, <1>2, PTL DEF CacheSpec

\* Concurrent callers never run two fetches at a time, whoever is cancelled.
THEOREM SingleFlight == CacheSpec => []OneFetch
<1>1. CacheInv => OneFetch
  BY DEF CacheInv, Owns, OneFetch
<1> QED BY <1>1, CacheInductive, PTL

\* A caller that waits, waits on the registered future, and it is not cancelled.
THEOREM SharedFuture == CacheSpec => []WaitersShareTheFuture
<1>1. CacheInv => WaitersShareTheFuture
  BY DEF CacheInv
<1> QED BY <1>1, CacheInductive, PTL
=============================================================================
