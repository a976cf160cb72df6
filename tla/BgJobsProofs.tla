---------------------------- MODULE BgJobsProofs ----------------------------
(***************************************************************************)
(* Proofs about BgJobs, for any number of jobs, pids, sessions, turns,     *)
(* failures and crashes.                                                   *)
(***************************************************************************)
EXTENDS BgJobs, TLAPS

(* The inductive invariant.                                                 *)

\* What a record r may say of job j: its pid is the wrapper's own while that
\* lives, and the outcome and the flag are true.
OutcomeOf(status, why, j) ==
  /\ why = "died" => exitFile[j] = "absent" /\ proc[j] = "gone"
  /\ why = "exit" => command[j] \in {"ok", "bad"} /\ (status = "done" => command[j] = "ok")
  /\ why \in {"killed", "timed_out"} => term[j] \/ ~Alive(j)

TruthOf(r, j) ==
  /\ proc[j] # "none" /\ (Alive(j) => holder[r.pid] = j)
  /\ r.status # "running" => OutcomeOf(r.status, r.why, j)
  /\ r.followed => r.status # "running" /\ (answers[j] > 0 \/ r.why = "killed")
  /\ ~r.followed /\ ~(thread.op = "mark" /\ thread.job = j) => answers[j] <= crashes

\* ... and what a store d may say, on disk or in a function's hands.
Truthful(d) == \A j \in Recorded(d) : TruthOf(d[j], j)

\* A job that was never started has left no trace, and an exit file means that
\* the command is over; what is written in it is how it ended.
ProcInv ==
  \A j \in Jobs :
    /\ proc[j] = "writing" => command[j] \in {"ok", "bad"}
    /\ exitFile[j] # "absent" => proc[j] \in {"writing", "gone"} /\ command[j] \in {"ok", "bad"}
    /\ exitFile[j] = "ok" => command[j] = "ok"
    /\ proc[j] = "none" => answers[j] = 0 /\ disk[j] = None
    /\ answers[j] <= 1 + crashes

\* refresh() knows every record, changes none that was finished, and has still
\* to examine records that are running.
RefreshInv ==
  Refreshing =>
    /\ \A j \in Jobs : /\ mem[j] = None <=> disk[j] = None
                       /\ j \in Finished(disk) => mem[j] = disk[j]
    /\ todo \subseteq Running(mem)
    /\ probe.saw # "nothing" => probe.job \in todo
    /\ probe.saw = "no process" => ~Alive(probe.job)

\* The other functions: what they hold true of the job they work on.
ThreadInv ==
  /\ ~Refreshing => todo = {} /\ probe = NoProbe
  /\ ~up => thread = Free
  /\ thread.op = "launch" =>
       /\ thread.job \in Jobs /\ disk[thread.job] = None /\ mem[thread.job] # None
       /\ \A k \in Jobs \ {thread.job} : mem[k] = disk[k]
  /\ thread.op \in {"signal", "killed"} => thread.job \in Running(disk)
  /\ thread.op = "killed" => term[thread.job] \/ ~Alive(thread.job)
  /\ thread.op = "mark" =>
       thread.job \in Pending(disk) /\ thread.job \notin pend /\ answers[thread.job] > 0

MonitorInv ==
  /\ thread.op = "poll" <=> monitor.at = "refresh"
  /\ thread.op = "mark" => monitor.at = "tick"
  /\ ~up => monitor.at = "sleep"
  /\ monitor.at = "agent" => monitor.job \notin pend
  /\ ListStaysValid

StoresInv == Truthful(disk) /\ (Refreshing \/ thread.op = "launch" => Truthful(mem))

IndInv == TypeOK /\ StoresInv /\ ProcInv /\ RefreshInv /\ ThreadInv /\ MonitorInv

\* The absence of a record is not a record.
LEMMA NoneIsNoRecord == None \notin Records
BY ConstantsAssumption DEF ConstantsAssumption

-----------------------------------------------------------------------------
(* Records and the stores that hold them.                                   *)

\* What refresh() writes when it settles a record.
LEMMA SettleFacts ==
  ASSUME NEW j \in Jobs, mem \in Stores, mem[j] # None,
         NEW st \in {"running", "done", "failed"},
         NEW w \in {"none", "exit", "timed_out", "died", "killed"}, Settle(j, st, w)
  PROVE  /\ mem' \in Stores /\ mem'[j] \in Records
         /\ mem'[j].session = mem[j].session /\ mem'[j].pid = mem[j].pid
         /\ mem'[j].status = st /\ mem'[j].why = w /\ mem'[j].followed = mem[j].followed
         /\ \A k \in Jobs \ {j} : mem'[k] = mem[k]
         /\ todo' = todo \ {j} /\ probe' = NoProbe
<1>1. PICK r \in Records : r = mem[j]
  BY DEF Stores
<1>2. PICK e : e = [r EXCEPT !.status = st, !.why = w]
  OBVIOUS
<1>3. /\ e \in Records /\ e.session = r.session /\ e.pid = r.pid
      /\ e.status = st /\ e.why = w /\ e.followed = r.followed
  BY <1>2 DEF Records
<1>4. mem' = [mem EXCEPT ![j] = e] /\ todo' = todo \ {j} /\ probe' = NoProbe
  BY <1>1, <1>2 DEF Settle
<1>5. mem' \in Stores /\ mem'[j] = e /\ \A k \in Jobs \ {j} : mem'[k] = mem[k]
  BY <1>3, <1>4 DEF Stores
<1> QED BY <1>1, <1>3, <1>4, <1>5

\* What kill() writes.
LEMMA KillSaveFacts ==
  ASSUME TypeOK, ThreadInv, KillSave
  PROVE  LET j == thread.job IN
         /\ j \in Jobs /\ disk' \in Stores /\ disk'[j] \in Records
         /\ disk'[j].session = disk[j].session /\ disk'[j].pid = disk[j].pid
         /\ disk'[j].status = "failed" /\ disk'[j].why = "killed" /\ disk'[j].followed
         /\ \A k \in Jobs \ {j} : disk'[k] = disk[k]
<1>1. PICK j \in Jobs : j = thread.job
  BY DEF KillSave, ThreadInv, Running, Recorded
<1>2. PICK r \in Records : r = disk[j]
  BY <1>1 DEF KillSave, ThreadInv, Running, Recorded, TypeOK, StoreTypes, Stores
<1>3. PICK e : e = [r EXCEPT !.status = "failed", !.why = "killed", !.followed = TRUE]
  OBVIOUS
<1>4. /\ e \in Records /\ e.session = r.session /\ e.pid = r.pid
      /\ e.status = "failed" /\ e.why = "killed" /\ e.followed = TRUE
  BY <1>3 DEF Records
<1>5. disk' = [disk EXCEPT ![j] = e]
  BY <1>1, <1>2, <1>3 DEF KillSave
<1>6. disk' \in Stores /\ disk'[j] = e /\ \A k \in Jobs \ {j} : disk'[k] = disk[k]
  BY <1>4, <1>5 DEF TypeOK, StoreTypes, Stores
<1> QED BY <1>1, <1>2, <1>4, <1>6

\* What mark_followed_up() writes.
LEMMA MarkFacts ==
  ASSUME TypeOK, ThreadInv, Mark
  PROVE  LET j == thread.job IN
         /\ j \in Jobs /\ disk' \in Stores /\ disk'[j] \in Records
         /\ disk'[j].session = disk[j].session /\ disk'[j].pid = disk[j].pid
         /\ disk'[j].status = disk[j].status /\ disk'[j].why = disk[j].why /\ disk'[j].followed
         /\ \A k \in Jobs \ {j} : disk'[k] = disk[k]
<1>1. PICK j \in Jobs : j = thread.job
  BY DEF Mark, ThreadInv, Pending, Finished, Recorded
<1>2. PICK r \in Records : r = disk[j] /\ disk[j] # None
  BY <1>1 DEF Mark, ThreadInv, Pending, Finished, Recorded, TypeOK, StoreTypes, Stores
<1>3. PICK e : e = [r EXCEPT !.followed = TRUE]
  OBVIOUS
<1>4. /\ e \in Records /\ e.session = r.session /\ e.pid = r.pid
      /\ e.status = r.status /\ e.why = r.why /\ e.followed = TRUE
  BY <1>3 DEF Records
<1>5. disk' = [disk EXCEPT ![j] = e]
  BY <1>1, <1>2, <1>3 DEF Mark
<1>6. disk' \in Stores /\ disk'[j] = e /\ \A k \in Jobs \ {j} : disk'[k] = disk[k]
  BY <1>4, <1>5 DEF TypeOK, StoreTypes, Stores
<1> QED BY <1>1, <1>2, <1>4, <1>6

-----------------------------------------------------------------------------
(* One test of refresh().                                                   *)

Test(j) == ProbeExit(j) \/ ProbeProcess(j) \/ ProbeAgain(j)

\* What a test may do to the record: go on to the next test, keep the record
\* as it is, or settle it with an outcome that is true.
Looked(j) ==
  /\ mem' = mem /\ todo' = todo
  /\ \/ probe' = [job |-> j, saw |-> "no exit"]
     \/ probe' = [job |-> j, saw |-> "no process"] /\ ~Alive(j)

Kept(j) == mem' = mem /\ todo' = todo \ {j} /\ probe' = NoProbe

Settled(j) ==
  /\ mem' \in Stores /\ mem'[j] \in Records /\ mem'[j] # None
  /\ mem'[j].session = mem[j].session /\ mem'[j].pid = mem[j].pid
  /\ mem'[j].status \in {"done", "failed"} /\ mem'[j].followed = mem[j].followed
  /\ \A k \in Jobs \ {j} : mem'[k] = mem[k]
  /\ todo' = todo \ {j} /\ probe' = NoProbe
  /\ OutcomeOf(mem[j].status, mem[j].why, j)'

\* A signal reaches the group whose leader has the pid, and is not taken back.
LEMMA KillFacts ==
  ASSUME ProcTypes, NEW p, KillPid(p)
  PROVE  /\ term' \in [Jobs -> BOOLEAN]
         /\ \A k \in Jobs : /\ term[k] => term'[k]
                            /\ holder[p] = k => term'[k]
BY DEF KillPid, ProcTypes

\* Every test of refresh(), and what it may change.
LEMMA TestFacts ==
  ASSUME IndInv, NEW j \in Jobs, Test(j)
  PROVE  /\ Refreshing /\ j \in todo /\ j \in Running(mem)
         /\ UNCHANGED <<disk, thread, proc, command, exitFile, holder, clockVars, up, monitorVars,
                        chatVars, crashes>>
         /\ term' \in [Jobs -> BOOLEAN]
         /\ \A k \in Jobs : term[k] => term'[k]
         /\ Looked(j) \/ Kept(j) \/ Settled(j)
<1>1. Refreshing /\ j \in todo
  <2>1. CASE ProbeExit(j)
    BY <2>1 DEF ProbeExit
  <2>2. NoProbe.saw = "nothing"
    BY DEF NoProbe
  <2>3. CASE ProbeProcess(j)
    <3>1. probe.job = j /\ probe.saw = "no exit"
      BY <2>3 DEF ProbeProcess
    <3> QED BY <2>2, <3>1 DEF IndInv, ThreadInv, RefreshInv
  <2>4. CASE ProbeAgain(j)
    <3>1. probe.job = j /\ probe.saw = "no process"
      BY <2>4 DEF ProbeAgain
    <3> QED BY <2>2, <3>1 DEF IndInv, ThreadInv, RefreshInv
  <2> QED BY <2>1, <2>3, <2>4 DEF Test
<1>2. mem \in Stores /\ j \in Running(mem) /\ mem[j] # None /\ mem[j] \in Records
  BY <1>1 DEF IndInv, TypeOK, StoreTypes, Stores, RefreshInv, Running, Recorded
<1>3. proc[j] # "none" /\ (Alive(j) => holder[mem[j].pid] = j)
  BY <1>1, <1>2 DEF IndInv, StoresInv, Truthful, TruthOf, Recorded
<1>4. ProcTypes /\ ProcInv
  BY DEF IndInv, TypeOK
<1>5. CASE ProbeExit(j)
  <2>1. UNCHANGED <<disk, thread, jobVars, clockVars, up, monitorVars, chatVars, crashes>>
    BY <1>5 DEF ProbeExit
  <2>2. CASE exitFile[j] = "absent"
    BY <1>1, <1>2, <1>4, <1>5, <2>1, <2>2 DEF ProbeExit, Looked, ProcTypes, jobVars
  <2>3. CASE exitFile[j] # "absent"
    <3>1. PICK st \in {"done", "failed"} :
            Settle(j, st, "exit") /\ (st = "done" => exitFile[j] = "ok")
      BY <1>5, <2>3 DEF ProbeExit
    <3>2. OutcomeOf(st, "exit", j)'
      BY <1>4, <2>1, <2>3, <3>1 DEF OutcomeOf, ProcInv, jobVars
    <3>3. Settled(j)
      BY <1>2, <3>1, <3>2, SettleFacts, NoneIsNoRecord DEF Settled, OutcomeOf, Alive
    <3> QED BY <1>1, <1>2, <1>4, <2>1, <3>3 DEF ProcTypes, jobVars
  <2> QED BY <2>2, <2>3
<1>6. CASE ProbeProcess(j)
  <2>1. UNCHANGED <<disk, thread, proc, command, exitFile, holder, clockVars, up, monitorVars,
                    chatVars, crashes>>
    BY <1>6 DEF ProbeProcess
  <2>2. CASE overdue[j]
    <3>1. KillPid(mem[j].pid) /\ Settle(j, "failed", "timed_out")
      BY <1>6, <2>2 DEF ProbeProcess
    <3>2. /\ term' \in [Jobs -> BOOLEAN] /\ \A k \in Jobs : term[k] => term'[k]
          /\ OutcomeOf("failed", "timed_out", j)'
      BY <1>3, <1>4, <2>1, <3>1, KillFacts DEF Alive, OutcomeOf
    <3>3. Settled(j)
      BY <1>2, <3>1, <3>2, SettleFacts, NoneIsNoRecord DEF Settled, OutcomeOf, Alive
    <3> QED BY <1>1, <1>2, <2>1, <3>2, <3>3
  <2>3. CASE ~overdue[j] /\ holder[mem[j].pid] # None
    BY <1>1, <1>2, <1>4, <1>6, <2>1, <2>3 DEF ProbeProcess, Keep, Kept, ProcTypes
  <2>4. CASE ~overdue[j] /\ holder[mem[j].pid] = None
    <3>1. ~Alive(j)
      BY <1>3, <2>4, ConstantsAssumption DEF ConstantsAssumption
    <3>2. mem' = mem /\ todo' = todo /\ term' = term /\ probe' = [job |-> j, saw |-> "no process"]
      BY <1>6, <2>4 DEF ProbeProcess
    <3> QED BY <1>1, <1>2, <1>4, <2>1, <3>1, <3>2 DEF Looked, ProcTypes
  <2> QED BY <2>2, <2>3, <2>4
<1>7. CASE ProbeAgain(j)
  <2>1. UNCHANGED <<disk, thread, jobVars, clockVars, up, monitorVars, chatVars, crashes>>
    BY <1>7 DEF ProbeAgain
  <2>2. CASE exitFile[j] # "absent"
    BY <1>1, <1>2, <1>4, <1>7, <2>1, <2>2 DEF ProbeAgain, Keep, Kept, ProcTypes, jobVars
  <2>3. CASE exitFile[j] = "absent"
    <3>1. Settle(j, "failed", "died")
      BY <1>7, <2>3 DEF ProbeAgain
    <3>2. proc[j] = "gone"
      <4>1. ~Alive(j)
        BY <1>1, <1>7 DEF ProbeAgain, IndInv, RefreshInv
      <4> QED BY <1>3, <1>4, <4>1 DEF Alive, ProcTypes
    <3>3. OutcomeOf("failed", "died", j)'
      BY <2>1, <2>3, <3>2 DEF OutcomeOf, jobVars
    <3>4. Settled(j)
      BY <1>2, <3>1, <3>3, SettleFacts, NoneIsNoRecord DEF Settled, OutcomeOf, Alive
    <3> QED BY <1>1, <1>2, <1>4, <2>1, <3>4 DEF ProcTypes, jobVars
  <2> QED BY <2>2, <2>3
<1> QED BY <1>5, <1>6, <1>7 DEF Test

-----------------------------------------------------------------------------
(* Type correctness: one lemma per group of variables, one step per action   *)
(* that changes one of the group.                                           *)

\* The store on disk and the copy of it.
LEMMA StoreTypesNext == IndInv /\ [Next]_vars => StoreTypes'
<1> SUFFICES ASSUME IndInv, [Next]_vars PROVE StoreTypes'
  OBVIOUS
<1> USE DEF IndInv, TypeOK, StoreTypes, Stores
<1>0. ASSUME UNCHANGED <<disk, mem>> PROVE StoreTypes'
  BY <1>0
<1>1. ASSUME NEW j \in Jobs, NEW s \in Sessions, NEW p \in Pids, Launch(j, s, p) PROVE StoreTypes'
  BY <1>1 DEF Launch, Records
<1>2. CASE LaunchSave
  BY <1>2 DEF LaunchSave, Dropped
<1>3. CASE Tick
  BY <1>3 DEF Tick, Refresh
<1>4. CASE ToolLists
  BY <1>4 DEF ToolLists, Refresh
<1>5. ASSUME NEW j \in Jobs, ToolKills(j) PROVE StoreTypes'
  BY <1>5 DEF ToolKills, Refresh
<1>6. ASSUME NEW j \in Jobs, Test(j) PROVE StoreTypes'
  BY <1>6, TestFacts DEF Looked, Kept, Settled
<1>7. CASE RefreshEnd
  BY <1>7 DEF RefreshEnd, Prune, Dropped
<1>8. CASE KillSave
  <2>1. disk' \in Stores
    BY <1>8, KillSaveFacts DEF IndInv
  <2> QED BY <1>8, <2>1 DEF KillSave
<1>9. CASE Mark
  <2>1. disk' \in Stores
    BY <1>9, MarkFacts DEF IndInv
  <2> QED BY <1>9, <2>1 DEF Mark
<1>10. CASE Crash
  BY <1>10 DEF Crash, Dropped
<1>11. CASE KillSignal
  <2>1. UNCHANGED <<disk, mem>>
    BY <1>11 DEF KillSignal, jobVars, clockVars, threadVars, monitorVars, chatVars
  <2> QED BY <2>1, <1>0
<1>12. CASE (\E j \in Jobs : Follow(j)) \/ FollowFails \/ FollowEnds \/ EndTick
  <2>1. UNCHANGED <<disk, mem>>
    BY <1>12 DEF Follow, FollowFails, FollowEnds, EndTick, jobVars, clockVars,
       threadVars, monitorVars, chatVars
  <2> QED BY <2>1, <1>0
<1>13. CASE ProcessStep
  <2>1. UNCHANGED <<disk, mem>>
    BY <1>13 DEF ProcessStep, ExitWritten, Vanish, CommandEnds, Reap, jobVars, clockVars,
       threadVars, monitorVars, chatVars
  <2> QED BY <2>1, <1>0
<1>14. CASE ClockStep
  <2>1. UNCHANGED <<disk, mem>>
    BY <1>14 DEF ClockStep, Overdue, Age, jobVars, clockVars, threadVars, monitorVars,
       chatVars
  <2> QED BY <2>1, <1>0
<1>15. CASE SessionStep
  <2>1. UNCHANGED <<disk, mem>>
    BY <1>15 DEF SessionStep, TurnStarts, TurnEnds, Delete, jobVars, clockVars,
       threadVars, monitorVars, chatVars
  <2> QED BY <2>1, <1>0
<1>16. CASE Restart
  <2>1. UNCHANGED <<disk, mem>>
    BY <1>16 DEF Restart, jobVars, clockVars, threadVars, monitorVars, chatVars
  <2> QED BY <2>1, <1>0
<1>17. CASE UNCHANGED vars
  <2>1. UNCHANGED <<disk, mem>>
    BY <1>17 DEF vars, jobVars, clockVars, threadVars, monitorVars, chatVars
  <2> QED BY <2>1, <1>0
<1> QED BY <1>0, <1>1, <1>2, <1>3, <1>4, <1>5, <1>6, <1>7, <1>8, <1>9, <1>10, <1>11, <1>12,
       <1>13, <1>14, <1>15, <1>16, <1>17
       DEF Next, ThreadStep, MonitorStep, ToolStep, ProcessStep, ClockStep, SessionStep, Test

\* Processes, exit files, pids and clocks.
LEMMA ProcTypesNext == IndInv /\ [Next]_vars => ProcTypes'
<1> SUFFICES ASSUME IndInv, [Next]_vars PROVE ProcTypes'
  OBVIOUS
<1> USE ConstantsAssumption DEF ConstantsAssumption, IndInv, TypeOK, ProcTypes, jobVars, clockVars
<1>0. ASSUME UNCHANGED <<proc, command, exitFile, holder, term, overdue, old, up>> PROVE ProcTypes'
  BY <1>0
<1>1. ASSUME NEW j \in Jobs, ExitWritten(j) PROVE ProcTypes'
  BY <1>1 DEF ExitWritten, ProcInv
<1>2. ASSUME NEW j \in Jobs, Vanish(j) PROVE ProcTypes'
  BY <1>2 DEF Vanish
<1>3. ASSUME NEW j \in Jobs, NEW c \in Outcomes, CommandEnds(j, c) PROVE ProcTypes'
  BY <1>3 DEF CommandEnds
<1>4. ASSUME NEW p \in Pids, Reap(p) PROVE ProcTypes'
  BY <1>4 DEF Reap
<1>5. ASSUME NEW j \in Jobs, Overdue(j) PROVE ProcTypes'
  BY <1>5 DEF Overdue
<1>6. ASSUME NEW j \in Jobs, Age(j) PROVE ProcTypes'
  BY <1>6 DEF Age
<1>7. ASSUME NEW j \in Jobs, NEW s \in Sessions, NEW p \in Pids, Launch(j, s, p) PROVE ProcTypes'
  BY <1>7 DEF Launch
<1>8. ASSUME NEW j \in Jobs, Test(j) PROVE ProcTypes'
  BY <1>8, TestFacts
<1>9. CASE KillSignal
  BY <1>9, KillFacts DEF KillSignal
<1>10. CASE Crash
  BY <1>10 DEF Crash
<1>11. CASE Restart
  BY <1>11 DEF Restart
<1>12. CASE LaunchSave \/ RefreshEnd \/ KillSave \/ Mark
  <2>1. UNCHANGED <<proc, command, exitFile, holder, term, overdue, old, up>>
    BY <1>12 DEF LaunchSave, RefreshEnd, KillSave, Mark, threadVars, monitorVars,
       chatVars
  <2> QED BY <2>1, <1>0
<1>13. CASE MonitorStep
  <2>1. UNCHANGED <<proc, command, exitFile, holder, term, overdue, old, up>>
    BY <1>13 DEF MonitorStep, Tick, Follow, FollowFails, FollowEnds, EndTick, Refresh,
       threadVars, monitorVars, chatVars
  <2> QED BY <2>1, <1>0
<1>14. CASE ToolLists \/ (\E j \in Jobs : ToolKills(j))
  <2>1. UNCHANGED <<proc, command, exitFile, holder, term, overdue, old, up>>
    BY <1>14 DEF ToolLists, ToolKills, Refresh, threadVars, monitorVars, chatVars
  <2> QED BY <2>1, <1>0
<1>15. CASE SessionStep
  <2>1. UNCHANGED <<proc, command, exitFile, holder, term, overdue, old, up>>
    BY <1>15 DEF SessionStep, TurnStarts, TurnEnds, Delete, threadVars, monitorVars,
       chatVars
  <2> QED BY <2>1, <1>0
<1>16. CASE UNCHANGED vars
  <2>1. UNCHANGED <<proc, command, exitFile, holder, term, overdue, old, up>>
    BY <1>16 DEF vars, threadVars, monitorVars, chatVars
  <2> QED BY <2>1, <1>0
<1> QED BY <1>0, <1>1, <1>2, <1>3, <1>4, <1>5, <1>6, <1>7, <1>8, <1>9, <1>10, <1>11, <1>12,
       <1>13, <1>14, <1>15, <1>16
       DEF Next, ThreadStep, MonitorStep, ToolStep, ProcessStep, ClockStep, SessionStep, Test

\* The function in progress.
LEMMA ThreadTypesNext == IndInv /\ [Next]_vars => ThreadTypes'
<1> SUFFICES ASSUME IndInv, [Next]_vars PROVE ThreadTypes'
  OBVIOUS
<1> USE DEF IndInv, TypeOK, ThreadTypes, threadVars
<1>0. ASSUME UNCHANGED <<thread, todo, probe>> PROVE ThreadTypes'
  BY <1>0
<1>1. ASSUME NEW j \in Jobs, NEW s \in Sessions, NEW p \in Pids, Launch(j, s, p) PROVE ThreadTypes'
  BY <1>1 DEF Launch
<1>2. CASE LaunchSave
  BY <1>2 DEF LaunchSave, Free
<1>3. CASE Tick
  BY <1>3 DEF Tick, Refresh, Running, Recorded
<1>4. CASE ToolLists
  BY <1>4 DEF ToolLists, Refresh, Running, Recorded
<1>5. ASSUME NEW j \in Jobs, ToolKills(j) PROVE ThreadTypes'
  BY <1>5 DEF ToolKills, Refresh, Running, Recorded
<1>6. ASSUME NEW j \in Jobs, Test(j) PROVE ThreadTypes'
  <2>1. thread' = thread
    BY <1>6, TestFacts
  <2>2. todo' \subseteq todo
    BY <1>6, TestFacts DEF Looked, Kept, Settled
  <2>3. CASE probe' = NoProbe
    BY <2>1, <2>2, <2>3 DEF NoProbe
  <2>4. CASE probe' = [job |-> j, saw |-> "no exit"]
    BY <2>1, <2>2, <2>4
  <2>5. CASE probe' = [job |-> j, saw |-> "no process"]
    BY <2>1, <2>2, <2>5
  <2> QED BY <1>6, <2>3, <2>4, <2>5, TestFacts DEF Looked, Kept, Settled
<1>7. CASE RefreshEnd
  BY <1>7 DEF RefreshEnd, Free, Running, Recorded
<1>8. CASE KillSignal
  BY <1>8 DEF KillSignal
<1>9. CASE KillSave
  BY <1>9 DEF KillSave, Free
<1>10. CASE FollowEnds
  <2>1. thread' = [op |-> "mark", job |-> monitor.job] /\ UNCHANGED <<todo, probe>>
    BY <1>10 DEF FollowEnds
  <2>2. monitor.job \in Jobs \cup {None}
    BY DEF MonitorTypes
  <2> QED BY <2>1, <2>2
<1>11. CASE Mark
  BY <1>11 DEF Mark, Free
<1>12. CASE Crash
  BY <1>12 DEF Crash, Free, NoProbe
<1>13. CASE (\E j \in Jobs : Follow(j)) \/ FollowFails \/ EndTick
  <2>1. UNCHANGED <<thread, todo, probe>>
    BY <1>13 DEF Follow, FollowFails, EndTick, jobVars, clockVars, monitorVars, chatVars
  <2> QED BY <2>1, <1>0
<1>14. CASE ProcessStep
  <2>1. UNCHANGED <<thread, todo, probe>>
    BY <1>14 DEF ProcessStep, ExitWritten, Vanish, CommandEnds, Reap, jobVars, clockVars,
       monitorVars, chatVars
  <2> QED BY <2>1, <1>0
<1>15. CASE ClockStep
  <2>1. UNCHANGED <<thread, todo, probe>>
    BY <1>15 DEF ClockStep, Overdue, Age, jobVars, clockVars, monitorVars, chatVars
  <2> QED BY <2>1, <1>0
<1>16. CASE SessionStep
  <2>1. UNCHANGED <<thread, todo, probe>>
    BY <1>16 DEF SessionStep, TurnStarts, TurnEnds, Delete, jobVars, clockVars,
       monitorVars, chatVars
  <2> QED BY <2>1, <1>0
<1>17. CASE Restart
  <2>1. UNCHANGED <<thread, todo, probe>>
    BY <1>17 DEF Restart, jobVars, clockVars, monitorVars, chatVars
  <2> QED BY <2>1, <1>0
<1>18. CASE UNCHANGED vars
  <2>1. UNCHANGED <<thread, todo, probe>>
    BY <1>18 DEF vars, jobVars, clockVars, monitorVars, chatVars
  <2> QED BY <2>1, <1>0
<1> QED BY <1>0, <1>1, <1>2, <1>3, <1>4, <1>5, <1>6, <1>7, <1>8, <1>9, <1>10, <1>11, <1>12,
       <1>13, <1>14, <1>15, <1>16, <1>17, <1>18
       DEF Next, ThreadStep, MonitorStep, ToolStep, ProcessStep, ClockStep, SessionStep, Test

\* The monitor, the sessions and the counters.
LEMMA MonitorTypesNext == IndInv /\ [Next]_vars => MonitorTypes'
<1> SUFFICES ASSUME IndInv, [Next]_vars PROVE MonitorTypes'
  OBVIOUS
<1> USE ConstantsAssumption
        DEF ConstantsAssumption, IndInv, TypeOK, MonitorTypes, monitorVars, chatVars
<1>0. ASSUME UNCHANGED <<monitor, pend, turn, exists, answers, continued, turns, failures, crashes>>
      PROVE  MonitorTypes'
  BY <1>0
<1>1. CASE Tick
  BY <1>1 DEF Tick, Refresh
<1>2. ASSUME NEW j \in Jobs, Test(j) PROVE MonitorTypes'
  BY <1>2, TestFacts
<1>3. CASE RefreshEnd
  BY <1>3 DEF RefreshEnd, Pending, Finished, Recorded
<1>4. ASSUME NEW j \in Jobs, Follow(j) PROVE MonitorTypes'
  BY <1>4 DEF Follow
<1>5. CASE FollowFails
  BY <1>5 DEF FollowFails
<1>6. CASE FollowEnds
  <2>1. monitor.job \in Jobs
    BY <1>6 DEF FollowEnds, MonitorInv, ListStaysValid, Pending, Finished, Recorded
  <2>2. /\ answers' \in [Jobs -> Nat] /\ monitor' = [at |-> "tick", job |-> None]
        /\ continued' \in SUBSET Jobs /\ failures' \in 0..MaxFailures
    BY <1>6, <2>1 DEF FollowEnds
  <2> QED BY <1>6, <2>2 DEF FollowEnds
<1>7. CASE EndTick
  BY <1>7 DEF EndTick, Sleeping
<1>8. ASSUME NEW s \in Sessions, TurnStarts(s) PROVE MonitorTypes'
  BY <1>8 DEF TurnStarts
<1>9. ASSUME NEW s \in Sessions, TurnEnds(s) PROVE MonitorTypes'
  BY <1>9 DEF TurnEnds
<1>10. ASSUME NEW s \in Sessions, Delete(s) PROVE MonitorTypes'
  BY <1>10 DEF Delete
<1>11. CASE Crash
  BY <1>11 DEF Crash, Sleeping
<1>12. CASE LaunchSave \/ KillSignal \/ KillSave \/ Mark
  <2>1. UNCHANGED <<monitor, pend, turn, exists, answers, continued, turns, failures, crashes>>
    BY <1>12 DEF LaunchSave, KillSignal, KillSave, Mark, jobVars, clockVars, threadVars
  <2> QED BY <2>1, <1>0
<1>13. CASE ToolStep
  <2>1. UNCHANGED <<monitor, pend, turn, exists, answers, continued, turns, failures, crashes>>
    BY <1>13 DEF ToolStep, Launch, ToolLists, ToolKills, Refresh, jobVars, clockVars,
       threadVars
  <2> QED BY <2>1, <1>0
<1>14. CASE ProcessStep
  <2>1. UNCHANGED <<monitor, pend, turn, exists, answers, continued, turns, failures, crashes>>
    BY <1>14 DEF ProcessStep, ExitWritten, Vanish, CommandEnds, Reap, jobVars, clockVars,
       threadVars
  <2> QED BY <2>1, <1>0
<1>15. CASE ClockStep
  <2>1. UNCHANGED <<monitor, pend, turn, exists, answers, continued, turns, failures, crashes>>
    BY <1>15 DEF ClockStep, Overdue, Age, jobVars, clockVars, threadVars
  <2> QED BY <2>1, <1>0
<1>16. CASE Restart
  <2>1. UNCHANGED <<monitor, pend, turn, exists, answers, continued, turns, failures, crashes>>
    BY <1>16 DEF Restart, jobVars, clockVars, threadVars
  <2> QED BY <2>1, <1>0
<1>17. CASE UNCHANGED vars
  <2>1. UNCHANGED <<monitor, pend, turn, exists, answers, continued, turns, failures, crashes>>
    BY <1>17 DEF vars, jobVars, clockVars, threadVars
  <2> QED BY <2>1, <1>0
<1> QED BY <1>0, <1>1, <1>2, <1>3, <1>4, <1>5, <1>6, <1>7, <1>8, <1>9, <1>10, <1>11, <1>12,
       <1>13, <1>14, <1>15, <1>16, <1>17
       DEF Next, ThreadStep, MonitorStep, ToolStep, ProcessStep, ClockStep, SessionStep, Test

-----------------------------------------------------------------------------
(* What is true of a record stays true.                                     *)

\* A record in a store stays true through every step; only the flag has to be
\* set once the answer was given.
LEMMA TruthStays ==
  ASSUME IndInv, [Next]_vars, NEW k \in Jobs, NEW r \in Records, TruthOf(r, k),
         Mark => r.followed \/ k # thread.job
  PROVE  TruthOf(r, k)'
<1> r.pid \in Pids /\ r.status \in {"running", "done", "failed"} /\ r.followed \in BOOLEAN
  BY DEF Records
<1> USE DEF IndInv, TypeOK, ProcTypes, TruthOf, OutcomeOf, Alive, jobVars, threadVars, monitorVars
<1>0. ASSUME UNCHANGED <<jobVars, answers, thread, crashes>> PROVE TruthOf(r, k)'
  BY <1>0
<1>1. ASSUME NEW j \in Jobs, ExitWritten(j) PROVE TruthOf(r, k)'
  BY <1>1 DEF ExitWritten
<1>2. ASSUME NEW j \in Jobs, Vanish(j) PROVE TruthOf(r, k)'
  BY <1>2 DEF Vanish
<1>3. ASSUME NEW j \in Jobs, NEW c \in Outcomes, CommandEnds(j, c) PROVE TruthOf(r, k)'
  BY <1>3 DEF CommandEnds
<1>4. ASSUME NEW p \in Pids, Reap(p) PROVE TruthOf(r, k)'
  BY <1>4 DEF Reap
<1>5. ASSUME NEW j \in Jobs, NEW s \in Sessions, NEW p \in Pids, Launch(j, s, p)
      PROVE  TruthOf(r, k)'
  BY <1>5, ConstantsAssumption DEF Launch, Free, ConstantsAssumption
<1>6. CASE LaunchSave
  BY <1>6 DEF LaunchSave
<1>7. CASE Tick
  BY <1>7 DEF Tick, Refresh, Free
<1>8. CASE ToolLists
  BY <1>8 DEF ToolLists, Refresh, Free
<1>9. ASSUME NEW j \in Jobs, ToolKills(j) PROVE TruthOf(r, k)'
  BY <1>9 DEF ToolKills, Refresh, Free
<1>10. ASSUME NEW j \in Jobs, Test(j) PROVE TruthOf(r, k)'
  BY <1>10, TestFacts
<1>11. CASE RefreshEnd
  BY <1>11 DEF RefreshEnd, Refreshing
<1>12. CASE KillSignal
  BY <1>12 DEF KillSignal, KillPid
<1>13. CASE KillSave
  BY <1>13 DEF KillSave
<1>14. CASE FollowEnds
  BY <1>14 DEF FollowEnds, Free, MonitorTypes
<1>15. CASE Mark
  BY <1>15 DEF Mark
<1>16. CASE Crash
  BY <1>16 DEF Crash, ProcInv, MonitorTypes
<1>17. CASE (\E j \in Jobs : Follow(j)) \/ FollowFails \/ EndTick
  <2>1. UNCHANGED <<jobVars, answers, thread, crashes>>
    BY <1>17 DEF Follow, FollowFails, EndTick, clockVars, chatVars
  <2> QED BY <2>1, <1>0
<1>18. CASE ClockStep
  <2>1. UNCHANGED <<jobVars, answers, thread, crashes>>
    BY <1>18 DEF ClockStep, Overdue, Age, clockVars, chatVars
  <2> QED BY <2>1, <1>0
<1>19. CASE SessionStep
  <2>1. UNCHANGED <<jobVars, answers, thread, crashes>>
    BY <1>19 DEF SessionStep, TurnStarts, TurnEnds, Delete, clockVars, chatVars
  <2> QED BY <2>1, <1>0
<1>20. CASE Restart
  <2>1. UNCHANGED <<jobVars, answers, thread, crashes>>
    BY <1>20 DEF Restart, clockVars, chatVars
  <2> QED BY <2>1, <1>0
<1>21. CASE UNCHANGED vars
  <2>1. UNCHANGED <<jobVars, answers, thread, crashes>>
    BY <1>21 DEF vars, clockVars, chatVars
  <2> QED BY <2>1, <1>0
<1> QED BY <1>0, <1>1, <1>2, <1>3, <1>4, <1>5, <1>6, <1>7, <1>8, <1>9, <1>10, <1>11, <1>12,
       <1>13, <1>14, <1>15, <1>16, <1>17, <1>18, <1>19, <1>20, <1>21
       DEF Next, ThreadStep, MonitorStep, ToolStep, ProcessStep, ClockStep, SessionStep, Test

-----------------------------------------------------------------------------
(* What the stores hold after a step.                                       *)

\* A function has a copy of the store in its hands.
HasCopy == Refreshing \/ thread.op = "launch"

\* Where the records on disk come from after a step.
LEMMA DiskOrigin ==
  ASSUME IndInv, [Next]_vars, NEW k \in Jobs
  PROVE  \/ disk'[k] = None \/ disk'[k] = disk[k] \/ (HasCopy /\ disk'[k] = mem[k])
         \/ (KillSave \/ Mark) /\ k = thread.job
<1> DEFINE Origin ==
      \/ disk'[k] = None \/ disk'[k] = disk[k] \/ (HasCopy /\ disk'[k] = mem[k])
      \/ (KillSave \/ Mark) /\ k = thread.job
<1> SUFFICES Origin
  OBVIOUS
<1> USE DEF IndInv, TypeOK, StoreTypes, Stores
<1>0. ASSUME UNCHANGED <<disk>> PROVE Origin
  BY <1>0
<1>1. CASE LaunchSave
  BY <1>1 DEF LaunchSave, HasCopy
<1>2. ASSUME NEW j \in Jobs, Test(j) PROVE Origin
  BY <1>2, TestFacts
<1>3. CASE RefreshEnd
  BY <1>3 DEF RefreshEnd, Prune, HasCopy
<1>4. CASE KillSave
  BY <1>4 DEF KillSave
<1>5. CASE Mark
  BY <1>5 DEF Mark
<1>6. CASE KillSignal
  <2>1. UNCHANGED <<disk>>
    BY <1>6 DEF KillSignal, jobVars, clockVars, threadVars, monitorVars, chatVars
  <2> QED BY <2>1, <1>0
<1>7. CASE MonitorStep
  <2>1. UNCHANGED <<disk>>
    BY <1>7 DEF MonitorStep, Tick, Follow, FollowFails, FollowEnds, EndTick, Refresh,
       jobVars, clockVars, threadVars, monitorVars, chatVars
  <2> QED BY <2>1, <1>0
<1>8. CASE ToolStep
  <2>1. UNCHANGED <<disk>>
    BY <1>8 DEF ToolStep, Launch, ToolLists, ToolKills, Refresh, jobVars, clockVars,
       threadVars, monitorVars, chatVars
  <2> QED BY <2>1, <1>0
<1>9. CASE ProcessStep
  <2>1. UNCHANGED <<disk>>
    BY <1>9 DEF ProcessStep, ExitWritten, Vanish, CommandEnds, Reap, jobVars, clockVars,
       threadVars, monitorVars, chatVars
  <2> QED BY <2>1, <1>0
<1>10. CASE ClockStep
  <2>1. UNCHANGED <<disk>>
    BY <1>10 DEF ClockStep, Overdue, Age, jobVars, clockVars, threadVars, monitorVars,
       chatVars
  <2> QED BY <2>1, <1>0
<1>11. CASE SessionStep
  <2>1. UNCHANGED <<disk>>
    BY <1>11 DEF SessionStep, TurnStarts, TurnEnds, Delete, jobVars, clockVars,
       threadVars, monitorVars, chatVars
  <2> QED BY <2>1, <1>0
<1>12. CASE Restart
  <2>1. UNCHANGED <<disk>>
    BY <1>12 DEF Restart, jobVars, clockVars, threadVars, monitorVars, chatVars
  <2> QED BY <2>1, <1>0
<1>13. CASE Crash
  <2>1. UNCHANGED <<disk>>
    BY <1>13 DEF Crash, jobVars, clockVars, threadVars, monitorVars, chatVars
  <2> QED BY <2>1, <1>0
<1>14. CASE UNCHANGED vars
  <2>1. UNCHANGED <<disk>>
    BY <1>14 DEF vars, jobVars, clockVars, threadVars, monitorVars, chatVars
  <2> QED BY <2>1, <1>0
<1> QED BY <1>0, <1>1, <1>2, <1>3, <1>4, <1>5, <1>6, <1>7, <1>8, <1>9, <1>10, <1>11, <1>12,
       <1>13, <1>14
       DEF Next, ThreadStep, MonitorStep, ToolStep, ProcessStep, ClockStep, SessionStep, Test

\* Where the records in a copy come from.
LEMMA CopyOrigin ==
  ASSUME IndInv, [Next]_vars, NEW k \in Jobs, HasCopy'
  PROVE  \/ mem'[k] = disk[k] \/ (HasCopy /\ mem'[k] = mem[k])
         \/ \E s \in Sessions, p \in Pids : Launch(k, s, p)
         \/ Test(k) /\ Settled(k)
<1> DEFINE Origin ==
      \/ mem'[k] = disk[k] \/ (HasCopy /\ mem'[k] = mem[k])
      \/ \E s \in Sessions, p \in Pids : Launch(k, s, p)
      \/ Test(k) /\ Settled(k)
<1> SUFFICES Origin
  OBVIOUS
<1> USE DEF IndInv, TypeOK, StoreTypes, Stores
<1>0. ASSUME UNCHANGED <<mem, thread>> PROVE Origin
  BY <1>0 DEF HasCopy, Refreshing
<1>1. ASSUME NEW j \in Jobs, NEW s \in Sessions, NEW p \in Pids, Launch(j, s, p) PROVE Origin
  <2>1. k # j => mem'[k] = disk[k]
    BY <1>1 DEF Launch
  <2> QED BY <1>1, <2>1
<1>2. CASE LaunchSave
  BY <1>2 DEF LaunchSave, HasCopy, Refreshing, Free
<1>3. CASE Tick
  BY <1>3 DEF Tick, Refresh
<1>4. CASE ToolLists
  BY <1>4 DEF ToolLists, Refresh
<1>5. ASSUME NEW j \in Jobs, ToolKills(j) PROVE Origin
  BY <1>5 DEF ToolKills, Refresh
<1>6. ASSUME NEW j \in Jobs, Test(j) PROVE Origin
  <2>1. Refreshing /\ (mem' = mem \/ Settled(j))
    BY <1>6, TestFacts DEF Looked, Kept
  <2>2. CASE mem' = mem
    BY <2>1, <2>2 DEF HasCopy
  <2>3. CASE Settled(j) /\ k # j
    BY <2>1, <2>3 DEF HasCopy, Settled
  <2> QED BY <1>6, <2>1, <2>2, <2>3
<1>7. CASE RefreshEnd
  <2>1. thread'.op \in {"free", "signal"}
    BY <1>7 DEF RefreshEnd, Free
  <2> QED BY <2>1 DEF HasCopy, Refreshing
<1>8. CASE KillSignal
  <2>1. thread'.op = "killed"
    BY <1>8 DEF KillSignal, ThreadTypes
  <2> QED BY <2>1 DEF HasCopy, Refreshing
<1>9. CASE KillSave
  BY <1>9 DEF KillSave, HasCopy, Refreshing, Free
<1>10. CASE FollowEnds
  BY <1>10 DEF FollowEnds, HasCopy, Refreshing
<1>11. CASE Mark
  BY <1>11 DEF Mark, HasCopy, Refreshing, Free
<1>12. CASE Crash
  BY <1>12 DEF Crash, HasCopy, Refreshing, Free
<1>13. CASE (\E j \in Jobs : Follow(j)) \/ FollowFails \/ EndTick
  <2>1. UNCHANGED <<mem, thread>>
    BY <1>13 DEF Follow, FollowFails, EndTick, jobVars, clockVars, threadVars,
       monitorVars, chatVars
  <2> QED BY <2>1, <1>0
<1>14. CASE ProcessStep
  <2>1. UNCHANGED <<mem, thread>>
    BY <1>14 DEF ProcessStep, ExitWritten, Vanish, CommandEnds, Reap, jobVars, clockVars,
       threadVars, monitorVars, chatVars
  <2> QED BY <2>1, <1>0
<1>15. CASE ClockStep
  <2>1. UNCHANGED <<mem, thread>>
    BY <1>15 DEF ClockStep, Overdue, Age, jobVars, clockVars, threadVars, monitorVars,
       chatVars
  <2> QED BY <2>1, <1>0
<1>16. CASE SessionStep
  <2>1. UNCHANGED <<mem, thread>>
    BY <1>16 DEF SessionStep, TurnStarts, TurnEnds, Delete, jobVars, clockVars,
       threadVars, monitorVars, chatVars
  <2> QED BY <2>1, <1>0
<1>17. CASE Restart
  <2>1. UNCHANGED <<mem, thread>>
    BY <1>17 DEF Restart, jobVars, clockVars, threadVars, monitorVars, chatVars
  <2> QED BY <2>1, <1>0
<1>18. CASE UNCHANGED vars
  <2>1. UNCHANGED <<mem, thread>>
    BY <1>18 DEF vars, jobVars, clockVars, threadVars, monitorVars, chatVars
  <2> QED BY <2>1, <1>0
<1> QED BY <1>0, <1>1, <1>2, <1>3, <1>4, <1>5, <1>6, <1>7, <1>8, <1>9, <1>10, <1>11, <1>12,
       <1>13, <1>14, <1>15, <1>16, <1>17, <1>18
       DEF Next, ThreadStep, MonitorStep, ToolStep, ProcessStep, ClockStep, SessionStep, Test

\* Both stores stay truthful.
LEMMA StoresNext ==
  ASSUME IndInv, [Next]_vars
  PROVE  StoresInv'
<1> USE DEF IndInv, TypeOK
<1>1. ASSUME NEW k \in Jobs, NEW r \in Records, r # None, r = disk[k] \/ (HasCopy /\ r = mem[k]),
             Mark => k # thread.job
      PROVE  TruthOf(r, k)'
  <2>1. TruthOf(r, k)
    BY <1>1 DEF StoresInv, Truthful, Recorded, HasCopy
  <2> QED BY <1>1, <2>1, TruthStays
<1>2. ASSUME NEW k \in Jobs, NEW r \in Records, r # None, disk'[k] = r
      PROVE  TruthOf(r, k)'
  <2>1. CASE KillSave /\ k = thread.job
    <3>1. r.status = "failed" /\ r.why = "killed" /\ r.followed
      BY <1>2, <2>1, KillSaveFacts
    <3>2. UNCHANGED jobVars /\ thread.op = "killed" /\ r.pid = disk[k].pid
      BY <1>2, <2>1, KillSaveFacts DEF KillSave
    <3>3. (term[k] \/ ~Alive(k)) /\ k \in Recorded(disk)
      BY <2>1, <3>2 DEF ThreadInv, Running
    <3>4. proc[k] # "none" /\ (Alive(k) => holder[r.pid] = k)
      BY <3>2, <3>3 DEF StoresInv, Truthful, TruthOf
    <3> QED BY <3>1, <3>2, <3>3, <3>4 DEF TruthOf, OutcomeOf, Alive, jobVars
  <2>2. CASE Mark /\ k = thread.job
    <3>1. PICK q : q = disk[k]
      OBVIOUS
    <3>2. /\ q.pid = r.pid /\ q.status = r.status /\ q.why = r.why /\ r.followed
          /\ q # None /\ q.status # "running" /\ answers[k] > 0
      BY <1>2, <2>2, <3>1, MarkFacts DEF Mark, ThreadInv, Pending, Finished, Running, Recorded
    <3>3. TruthOf(q, k)
      BY <3>1, <3>2 DEF StoresInv, Truthful, Recorded
    <3>4. UNCHANGED <<jobVars, answers>>
      BY <2>2 DEF Mark, monitorVars
    <3> QED BY <3>2, <3>3, <3>4 DEF TruthOf, OutcomeOf, Alive, jobVars
  <2>3. CASE r = disk[k] /\ ~(Mark /\ k = thread.job)
    BY <1>1, <1>2, <2>3
  <2>4. CASE HasCopy /\ r = mem[k]
    <3>1. ~Mark
      BY <2>4 DEF HasCopy, Refreshing, Mark
    <3> QED BY <1>1, <1>2, <2>4, <3>1
  <2> QED BY <1>2, <2>1, <2>2, <2>3, <2>4, DiskOrigin
<1>3. ASSUME NEW k \in Jobs, NEW r \in Records, r # None, mem'[k] = r, HasCopy'
      PROVE  TruthOf(r, k)'
  <2>1. ~Mark
    BY <1>3 DEF Mark, Free, HasCopy, Refreshing
  <2>2. ASSUME NEW s \in Sessions, NEW p \in Pids, Launch(k, s, p) PROVE TruthOf(r, k)'
    <3>1. r = [session |-> s, pid |-> p, status |-> "running", why |-> "none", followed |-> FALSE]
      BY <1>3, <2>2 DEF Launch, StoreTypes, Stores
    <3>2. /\ proc'[k] = "running" /\ holder'[p] = k /\ answers' = answers /\ answers[k] = 0
          /\ crashes' = crashes
      BY <2>2 DEF Launch, ProcTypes, ProcInv, monitorVars
    <3> QED BY <3>1, <3>2 DEF TruthOf, MonitorTypes
  <2>3. CASE Test(k) /\ Settled(k)
    <3>1. PICK q : q = mem[k]
      OBVIOUS
    <3>2. /\ Refreshing /\ q # None /\ q.status = "running"
          /\ UNCHANGED <<proc, exitFile, holder, answers, thread, crashes>>
      BY <2>3, <3>1, TestFacts DEF Running, Recorded, monitorVars
    <3>3. TruthOf(q, k)
      BY <3>1, <3>2 DEF StoresInv, Truthful, Recorded
    <3>4. /\ r.pid = q.pid /\ r.status \in {"done", "failed"} /\ r.followed = q.followed
          /\ OutcomeOf(r.status, r.why, k)'
      BY <1>3, <2>3, <3>1 DEF Settled
    <3> QED BY <3>2, <3>3, <3>4 DEF TruthOf, Alive
  <2>4. CASE r = disk[k] \/ (HasCopy /\ r = mem[k])
    BY <1>1, <1>3, <2>1, <2>4
  <2> QED BY <1>3, <2>2, <2>3, <2>4, CopyOrigin
<1>4. StoreTypes'
  BY StoreTypesNext
<1>5. ASSUME NEW k \in Recorded(disk)' PROVE TruthOf(disk[k], k)'
  <2>1. PICK r \in Records : r = disk'[k] /\ r # None /\ k \in Jobs
    BY <1>4, <1>5 DEF StoreTypes, Stores, Recorded
  <2> QED BY <1>2, <2>1 DEF TruthOf
<1>6. ASSUME NEW k \in Recorded(mem)', HasCopy' PROVE TruthOf(mem[k], k)'
  <2>1. PICK r \in Records : r = mem'[k] /\ r # None /\ k \in Jobs
    BY <1>4, <1>6 DEF StoreTypes, Stores, Recorded
  <2> QED BY <1>3, <1>6, <2>1 DEF TruthOf
<1> QED BY <1>5, <1>6 DEF StoresInv, Truthful, HasCopy

-----------------------------------------------------------------------------
(* The other parts of the invariant.                                        *)

\* No function but refresh() tests a record.
LEMMA IdleProbe == IndInv /\ ~Refreshing => probe = NoProbe /\ todo = {}
BY DEF IndInv, ThreadInv

\* What a process leaves behind.
LEMMA ProcInvNext == IndInv /\ [Next]_vars => ProcInv'
<1> SUFFICES ASSUME IndInv, [Next]_vars PROVE ProcInv'
  OBVIOUS
<1> USE DEF IndInv, TypeOK, StoreTypes, Stores, ProcTypes, ProcInv, jobVars, monitorVars
<1>0. ASSUME UNCHANGED <<proc, command, exitFile, disk, answers, crashes>> PROVE ProcInv'
  BY <1>0
<1>1. ASSUME NEW j \in Jobs, ExitWritten(j) PROVE ProcInv'
  BY <1>1 DEF ExitWritten
<1>2. ASSUME NEW j \in Jobs, Vanish(j) PROVE ProcInv'
  BY <1>2 DEF Vanish, Alive
<1>3. ASSUME NEW j \in Jobs, NEW c \in Outcomes, CommandEnds(j, c) PROVE ProcInv'
  BY <1>3, ConstantsAssumption DEF CommandEnds, ConstantsAssumption
<1>4. ASSUME NEW j \in Jobs, NEW s \in Sessions, NEW p \in Pids, Launch(j, s, p) PROVE ProcInv'
  BY <1>4 DEF Launch
<1>5. CASE LaunchSave
  <2>1. ASSUME NEW k \in Jobs, proc[k] = "none" PROVE mem[k] = None
    BY <1>5, <2>1 DEF LaunchSave, ThreadInv, StoresInv, Truthful, TruthOf, Recorded
  <2> QED BY <1>5, <2>1 DEF LaunchSave
<1>6. ASSUME NEW j \in Jobs, Test(j) PROVE ProcInv'
  BY <1>6, TestFacts
<1>7. CASE RefreshEnd
  <2>1. ASSUME NEW k \in Jobs, disk[k] = None PROVE disk'[k] = None
    BY <1>7, <2>1 DEF RefreshEnd, RefreshInv, Prune
  <2> QED BY <1>7, <2>1 DEF RefreshEnd
<1>8. CASE KillSignal
  BY <1>8 DEF KillSignal
<1>9. CASE KillSave
  <2>1. ASSUME NEW k \in Jobs, disk[k] = None PROVE disk'[k] = None
    BY <1>9, <2>1, KillSaveFacts DEF KillSave, ThreadInv, Running, Recorded
  <2> QED BY <1>9, <2>1 DEF KillSave
<1>10. CASE FollowEnds
  <2>1. PICK m \in Jobs : m = monitor.job /\ m \in Pending(disk)
    BY <1>10 DEF FollowEnds, MonitorInv, ListStaysValid, Pending, Finished, Recorded
  <2>2. proc[m] # "none" /\ answers[m] <= crashes
    BY <1>10, <2>1
        DEF FollowEnds, Free, StoresInv, Truthful, TruthOf, Pending, Finished, Recorded
  <2>3. answers' = [answers EXCEPT ![m] = @ + 1] /\ answers \in [Jobs -> Nat] /\ crashes \in Nat
    BY <1>10, <2>1 DEF FollowEnds, MonitorTypes
  <2>4. \A k \in Jobs : answers'[k] <= 1 + crashes
    BY <2>2, <2>3
  <2> QED BY <1>10, <2>2, <2>3, <2>4 DEF FollowEnds
<1>11. CASE Mark
  <2>1. ASSUME NEW k \in Jobs, disk[k] = None PROVE disk'[k] = None
    BY <1>11, <2>1 DEF Mark
  <2> QED BY <1>11, <2>1 DEF Mark
<1>12. CASE Crash
  BY <1>12 DEF Crash, MonitorTypes
<1>13. CASE Tick \/ (\E j \in Jobs : Follow(j)) \/ FollowFails \/ EndTick
  <2>1. UNCHANGED <<proc, command, exitFile, disk, answers, crashes>>
    BY <1>13 DEF Tick, Follow, FollowFails, EndTick, Refresh, clockVars, threadVars,
       chatVars
  <2> QED BY <2>1, <1>0
<1>14. CASE ToolLists \/ (\E j \in Jobs : ToolKills(j))
  <2>1. UNCHANGED <<proc, command, exitFile, disk, answers, crashes>>
    BY <1>14 DEF ToolLists, ToolKills, Refresh, clockVars, threadVars, chatVars
  <2> QED BY <2>1, <1>0
<1>15. CASE \E p \in Pids : Reap(p)
  <2>1. UNCHANGED <<proc, command, exitFile, disk, answers, crashes>>
    BY <1>15 DEF Reap, clockVars, threadVars, chatVars
  <2> QED BY <2>1, <1>0
<1>16. CASE ClockStep
  <2>1. UNCHANGED <<proc, command, exitFile, disk, answers, crashes>>
    BY <1>16 DEF ClockStep, Overdue, Age, clockVars, threadVars, chatVars
  <2> QED BY <2>1, <1>0
<1>17. CASE SessionStep
  <2>1. UNCHANGED <<proc, command, exitFile, disk, answers, crashes>>
    BY <1>17 DEF SessionStep, TurnStarts, TurnEnds, Delete, clockVars, threadVars,
       chatVars
  <2> QED BY <2>1, <1>0
<1>18. CASE Restart
  <2>1. UNCHANGED <<proc, command, exitFile, disk, answers, crashes>>
    BY <1>18 DEF Restart, clockVars, threadVars, chatVars
  <2> QED BY <2>1, <1>0
<1>19. CASE UNCHANGED vars
  <2>1. UNCHANGED <<proc, command, exitFile, disk, answers, crashes>>
    BY <1>19 DEF vars, clockVars, threadVars, chatVars
  <2> QED BY <2>1, <1>0
<1> QED BY <1>0, <1>1, <1>2, <1>3, <1>4, <1>5, <1>6, <1>7, <1>8, <1>9, <1>10, <1>11, <1>12,
       <1>13, <1>14, <1>15, <1>16, <1>17, <1>18, <1>19
       DEF Next, ThreadStep, MonitorStep, ToolStep, ProcessStep, ClockStep, SessionStep, Test

\* What refresh() knows.
LEMMA RefreshInvNext == IndInv /\ [Next]_vars => RefreshInv'
<1> SUFFICES ASSUME IndInv, [Next]_vars PROVE RefreshInv'
  OBVIOUS
<1> USE DEF IndInv, TypeOK, RefreshInv, Refreshing, jobVars, threadVars
<1>00. ASSUME UNCHANGED <<disk, mem, thread, todo, probe>>,
              \A k \in Jobs : ~Alive(k) => ~Alive(k)'
       PROVE  RefreshInv'
  BY <1>00 DEF ThreadTypes
<1>0. ASSUME UNCHANGED <<disk, mem, thread, todo, probe, proc>> PROVE RefreshInv'
  BY <1>0, <1>00 DEF Alive
<1>1. ASSUME NEW j \in Jobs, ExitWritten(j) PROVE RefreshInv'
  <2>1. \A k \in Jobs : ~Alive(k) => ~Alive(k)'
    BY <1>1 DEF ExitWritten, Alive, ProcTypes
  <2>2. UNCHANGED <<disk, mem, thread, todo, probe>>
    BY <1>1 DEF ExitWritten
  <2> QED BY <2>1, <2>2, <1>00
<1>2. ASSUME NEW j \in Jobs, Vanish(j) PROVE RefreshInv'
  <2>1. \A k \in Jobs : ~Alive(k) => ~Alive(k)'
    BY <1>2 DEF Vanish, Alive, ProcTypes
  <2>2. UNCHANGED <<disk, mem, thread, todo, probe>>
    BY <1>2 DEF Vanish
  <2> QED BY <2>1, <2>2, <1>00
<1>3. ASSUME NEW j \in Jobs, NEW c \in Outcomes, CommandEnds(j, c) PROVE RefreshInv'
  <2>1. \A k \in Jobs : ~Alive(k) => ~Alive(k)'
    BY <1>3 DEF CommandEnds, Alive, ProcTypes
  <2>2. UNCHANGED <<disk, mem, thread, todo, probe>>
    BY <1>3 DEF CommandEnds
  <2> QED BY <2>1, <2>2, <1>00
<1>4. ASSUME NEW j \in Jobs, NEW s \in Sessions, NEW p \in Pids, Launch(j, s, p) PROVE RefreshInv'
  BY <1>4 DEF Launch
<1>5. CASE LaunchSave
  BY <1>5 DEF LaunchSave, Free
<1>6. CASE Tick
  <2>1. mem' = disk /\ disk' = disk /\ todo' = Running(disk) /\ probe' = probe /\ ~Refreshing
    BY <1>6 DEF Tick, Refresh, Free
  <2>2. probe = NoProbe /\ NoProbe.saw = "nothing"
    BY <2>1, IdleProbe DEF NoProbe
  <2> QED BY <2>1, <2>2 DEF Running, Finished, Recorded
<1>7. CASE ToolLists
  <2>1. mem' = disk /\ disk' = disk /\ todo' = Running(disk) /\ probe' = probe /\ ~Refreshing
    BY <1>7 DEF ToolLists, Refresh, Free
  <2>2. probe = NoProbe /\ NoProbe.saw = "nothing"
    BY <2>1, IdleProbe DEF NoProbe
  <2> QED BY <2>1, <2>2 DEF Running, Finished, Recorded
<1>8. ASSUME NEW j \in Jobs, ToolKills(j) PROVE RefreshInv'
  <2>1. mem' = disk /\ disk' = disk /\ todo' = Running(disk) /\ probe' = probe /\ ~Refreshing
    BY <1>8 DEF ToolKills, Refresh, Free
  <2>2. probe = NoProbe /\ NoProbe.saw = "nothing"
    BY <2>1, IdleProbe DEF NoProbe
  <2> QED BY <2>1, <2>2 DEF Running, Finished, Recorded
<1>9. ASSUME NEW j \in Jobs, Test(j) PROVE RefreshInv'
  <2>1. /\ Refreshing /\ j \in todo /\ j \in Running(mem) /\ UNCHANGED <<disk, thread>>
        /\ proc' = proc
    BY <1>9, TestFacts
  <2>2. CASE Looked(j)
    <3>1. mem' = mem /\ todo' = todo
      BY <2>2 DEF Looked
    <3>2. CASE probe' = [job |-> j, saw |-> "no exit"]
      <4>1. probe'.saw = "no exit" /\ probe'.job = j
        BY <3>2
      <4> QED BY <2>1, <3>1, <4>1 DEF Running, Finished, Recorded
    <3>3. CASE probe' = [job |-> j, saw |-> "no process"] /\ ~Alive(j)
      <4>1. probe'.saw = "no process" /\ probe'.job = j
        BY <3>3
      <4> QED BY <2>1, <3>1, <3>3, <4>1 DEF Alive, Running, Finished, Recorded
    <3> QED BY <2>2, <3>2, <3>3 DEF Looked
  <2>3. CASE Kept(j)
    <3>1. mem' = mem /\ todo' = todo \ {j} /\ probe'.saw = "nothing"
      BY <2>3 DEF Kept, NoProbe
    <3> QED BY <2>1, <3>1 DEF Running, Finished, Recorded
  <2>4. CASE Settled(j)
    <3>1. todo' = todo \ {j} /\ probe'.saw = "nothing" /\ mem'[j] # None
          /\ \A k \in Jobs \ {j} : mem'[k] = mem[k]
      BY <2>4 DEF Settled, NoProbe
    <3>2. disk[j] # None /\ mem[j] # None /\ j \notin Finished(disk)
      BY <2>1 DEF Running, Finished, Recorded
    <3> QED BY <2>1, <3>1, <3>2 DEF Running, Finished, Recorded
  <2> QED BY <1>9, <2>2, <2>3, <2>4, TestFacts
<1>10. CASE RefreshEnd
  BY <1>10 DEF RefreshEnd, Free
<1>11. CASE KillSignal
  <2>1. thread'.op = "killed"
    BY <1>11 DEF KillSignal, ThreadTypes
  <2> QED BY <2>1
<1>12. CASE KillSave
  BY <1>12 DEF KillSave, Free
<1>13. CASE FollowEnds
  BY <1>13 DEF FollowEnds
<1>14. CASE Mark
  BY <1>14 DEF Mark, Free
<1>15. CASE Crash
  BY <1>15 DEF Crash, Free
<1>16. CASE (\E j \in Jobs : Follow(j)) \/ FollowFails \/ EndTick
  <2>1. UNCHANGED <<disk, mem, thread, todo, probe, proc>>
    BY <1>16 DEF Follow, FollowFails, EndTick, clockVars, monitorVars, chatVars
  <2> QED BY <2>1, <1>0
<1>17. CASE \E p \in Pids : Reap(p)
  <2>1. UNCHANGED <<disk, mem, thread, todo, probe, proc>>
    BY <1>17 DEF Reap, clockVars, monitorVars, chatVars
  <2> QED BY <2>1, <1>0
<1>18. CASE ClockStep
  <2>1. UNCHANGED <<disk, mem, thread, todo, probe, proc>>
    BY <1>18 DEF ClockStep, Overdue, Age, clockVars, monitorVars, chatVars
  <2> QED BY <2>1, <1>0
<1>19. CASE SessionStep
  <2>1. UNCHANGED <<disk, mem, thread, todo, probe, proc>>
    BY <1>19 DEF SessionStep, TurnStarts, TurnEnds, Delete, clockVars, monitorVars,
       chatVars
  <2> QED BY <2>1, <1>0
<1>20. CASE Restart
  <2>1. UNCHANGED <<disk, mem, thread, todo, probe, proc>>
    BY <1>20 DEF Restart, clockVars, monitorVars, chatVars
  <2> QED BY <2>1, <1>0
<1>21. CASE UNCHANGED vars
  <2>1. UNCHANGED <<disk, mem, thread, todo, probe, proc>>
    BY <1>21 DEF vars, clockVars, monitorVars, chatVars
  <2> QED BY <2>1, <1>0
<1> QED BY <1>0, <1>1, <1>2, <1>3, <1>4, <1>5, <1>6, <1>7, <1>8, <1>9, <1>10, <1>11, <1>12,
       <1>13, <1>14, <1>15, <1>16, <1>17, <1>18, <1>19, <1>20, <1>21
       DEF Next, ThreadStep, MonitorStep, ToolStep, ProcessStep, ClockStep, SessionStep, Test

\* What the other functions know of their job.
LEMMA ThreadInvNext ==
  ASSUME IndInv, [Next]_vars
  PROVE  ThreadInv'
<1> USE DEF IndInv, TypeOK, jobVars, threadVars, monitorVars
<1>a. ASSUME thread' = Free, todo' = {}, probe' = NoProbe PROVE ThreadInv'
  BY <1>a DEF ThreadInv, Refreshing, Free
<1>b. ASSUME thread = Free, UNCHANGED <<thread, todo, probe>> PROVE ThreadInv'
  <2>1. ~Refreshing
    BY <1>b DEF Refreshing, Free
  <2> QED BY <1>a, <1>b, <2>1, IdleProbe
<1>c. ASSUME UNCHANGED <<disk, mem, up, thread, todo, probe, pend, answers>>,
             \A k \in Jobs : (~Alive(k) => ~Alive(k)') /\ (term[k] => term'[k])
      PROVE  ThreadInv'
  BY <1>c DEF ThreadInv, Refreshing, Running, Pending, Finished, Recorded
<1>0. ASSUME UNCHANGED <<disk, mem, up, thread, todo, probe, pend, answers, proc, term>>
      PROVE  ThreadInv'
  BY <1>0, <1>c DEF Alive
<1>1. ASSUME NEW j \in Jobs, ExitWritten(j) PROVE ThreadInv'
  <2>1. UNCHANGED <<disk, mem, up, thread, todo, probe, pend, answers>>
    BY <1>1 DEF ExitWritten
  <2>2. \A k \in Jobs : (~Alive(k) => ~Alive(k)') /\ (term[k] => term'[k])
    BY <1>1 DEF ExitWritten, Alive, ProcTypes
  <2> QED BY <2>1, <2>2, <1>c
<1>2. ASSUME NEW j \in Jobs, Vanish(j) PROVE ThreadInv'
  <2>1. UNCHANGED <<disk, mem, up, thread, todo, probe, pend, answers>>
    BY <1>2 DEF Vanish
  <2>2. \A k \in Jobs : (~Alive(k) => ~Alive(k)') /\ (term[k] => term'[k])
    BY <1>2 DEF Vanish, Alive, ProcTypes
  <2> QED BY <2>1, <2>2, <1>c
<1>3. ASSUME NEW j \in Jobs, NEW c \in Outcomes, CommandEnds(j, c) PROVE ThreadInv'
  <2>1. UNCHANGED <<disk, mem, up, thread, todo, probe, pend, answers>>
    BY <1>3 DEF CommandEnds
  <2>2. \A k \in Jobs : (~Alive(k) => ~Alive(k)') /\ (term[k] => term'[k])
    BY <1>3 DEF CommandEnds, Alive, ProcTypes
  <2> QED BY <2>1, <2>2, <1>c
<1>4. ASSUME NEW j \in Jobs, NEW s \in Sessions, NEW p \in Pids, Launch(j, s, p) PROVE ThreadInv'
  <2>1. /\ thread = Free /\ up' = up /\ up /\ UNCHANGED <<disk, todo, probe>>
    BY <1>4 DEF Launch
  <2>2. todo = {} /\ probe = NoProbe
    BY <2>1, IdleProbe DEF Refreshing, Free
  <2>3. thread'.op = "launch" /\ thread'.job = j
    BY <1>4 DEF Launch
  <2>4. disk[j] = None
    BY <1>4 DEF Launch, ProcInv
  <2>5. mem'[j] \in Records /\ \A k \in Jobs \ {j} : mem'[k] = disk[k]
    BY <1>4 DEF Launch, Records, StoreTypes, Stores
  <2>6. mem'[j] # None
    BY <2>5, NoneIsNoRecord
  <2> QED BY <2>1, <2>2, <2>3, <2>4, <2>5, <2>6 DEF ThreadInv, Refreshing
<1>5. CASE LaunchSave
  <2>1. thread' = Free /\ ~Refreshing /\ UNCHANGED <<todo, probe>>
    BY <1>5 DEF LaunchSave, Refreshing
  <2> QED BY <2>1, IdleProbe, <1>a
<1>6. CASE Tick
  <2>1. /\ thread'.op \in {"poll", "list", "kill"} /\ up' = up /\ up
    BY <1>6 DEF Tick, Refresh
  <2> QED BY <2>1 DEF ThreadInv, Refreshing, ProcTypes
<1>7. CASE ToolLists
  <2>1. /\ thread'.op \in {"poll", "list", "kill"} /\ up' = up /\ up
    BY <1>7 DEF ToolLists, Refresh
  <2> QED BY <2>1 DEF ThreadInv, Refreshing, ProcTypes
<1>8. ASSUME NEW j \in Jobs, ToolKills(j) PROVE ThreadInv'
  <2>1. /\ thread'.op \in {"poll", "list", "kill"} /\ up' = up /\ up
    BY <1>8 DEF ToolKills, Refresh
  <2> QED BY <2>1 DEF ThreadInv, Refreshing, ProcTypes
<1>9. ASSUME NEW j \in Jobs, Test(j) PROVE ThreadInv'
  <2>1. Refreshing /\ UNCHANGED <<thread, up>>
    BY <1>9, TestFacts
  <2> QED BY <2>1 DEF ThreadInv, Refreshing, Free
<1>10. CASE RefreshEnd
  <2>1. todo' = {} /\ probe' = NoProbe /\ up' = up /\ up
    BY <1>10 DEF RefreshEnd, ThreadInv, Refreshing, Free
  <2>2. PICK i : i = thread.job
    OBVIOUS
  <2>3. CASE thread' = [op |-> "signal", job |-> i] /\ i \in Running(disk')
    <3>1. thread'.op = "signal" /\ thread'.job = i
      BY <2>3
    <3> QED BY <2>1, <2>3, <3>1 DEF ThreadInv, Refreshing, Running, Recorded
  <2> QED BY <1>10, <2>1, <2>2, <2>3, <1>a DEF RefreshEnd
<1>11. CASE KillSignal
  <2>1. PICK i \in Jobs : i = thread.job /\ i \in Running(disk)
    BY <1>11 DEF KillSignal, ThreadInv, Running, Recorded
  <2>2. thread'.op = "killed" /\ thread'.job = i
    BY <1>11, <2>1 DEF KillSignal, ThreadTypes
  <2>3. UNCHANGED <<disk, up, todo, probe>> /\ thread.op = "signal"
    BY <1>11 DEF KillSignal
  <2>4. KillPid(disk[i].pid) /\ (Alive(i) => holder[disk[i].pid] = i)
    BY <1>11, <2>1 DEF KillSignal, StoresInv, Truthful, TruthOf, Running
  <2>5. (term[i] \/ ~Alive(i))'
    <3>1. proc' = proc
      BY <1>11 DEF KillSignal
    <3> QED BY <2>1, <2>4, <3>1, KillFacts DEF Alive
  <2>6. up /\ todo = {} /\ probe = NoProbe
    BY <2>3, IdleProbe DEF Refreshing, ThreadInv, Free
  <2> QED BY <2>1, <2>2, <2>3, <2>5, <2>6 DEF ThreadInv, Running, Recorded
<1>12. CASE KillSave
  <2>1. thread' = Free /\ ~Refreshing /\ UNCHANGED <<todo, probe>>
    BY <1>12 DEF KillSave, Refreshing
  <2> QED BY <2>1, IdleProbe, <1>a
<1>13. ASSUME NEW j \in Jobs, Follow(j) PROVE ThreadInv'
  <2>1. thread = Free /\ UNCHANGED <<thread, todo, probe>>
    BY <1>13 DEF Follow
  <2> QED BY <2>1, <1>b
<1>14. CASE FollowFails
  <2>1. thread = Free /\ UNCHANGED <<thread, todo, probe>>
    BY <1>14 DEF FollowFails
  <2> QED BY <2>1, <1>b
<1>15. CASE FollowEnds
  <2>1. PICK m \in Jobs : m = monitor.job /\ m \in Pending(disk) /\ m \notin pend
    BY <1>15 DEF FollowEnds, MonitorInv, ListStaysValid, Pending, Finished, Recorded
  <2>2. thread'.op = "mark" /\ thread'.job = m
    BY <1>15, <2>1 DEF FollowEnds
  <2>3. /\ thread = Free /\ UNCHANGED <<disk, up, todo, probe, pend>>
        /\ answers' = [answers EXCEPT ![m] = @ + 1]
    BY <1>15, <2>1 DEF FollowEnds
  <2>4. todo = {} /\ probe = NoProbe
    BY <2>3, IdleProbe DEF Refreshing, Free
  <2>5. answers'[m] > 0
    BY <2>1, <2>3 DEF MonitorTypes
  <2>6. up
    BY <1>15 DEF FollowEnds, MonitorInv
  <2> QED BY <2>1, <2>2, <2>3, <2>4, <2>5, <2>6
          DEF ThreadInv, Refreshing, Pending, Finished, Running, Recorded
<1>16. CASE Mark
  <2>1. thread' = Free /\ ~Refreshing /\ UNCHANGED <<todo, probe>>
    BY <1>16 DEF Mark, Refreshing
  <2> QED BY <2>1, IdleProbe, <1>a
<1>17. CASE EndTick
  <2>1. thread = Free /\ UNCHANGED <<thread, todo, probe>>
    BY <1>17 DEF EndTick
  <2> QED BY <2>1, <1>b
<1>18. ASSUME NEW s \in Sessions, TurnStarts(s) PROVE ThreadInv'
  <2>1. thread = Free /\ UNCHANGED <<thread, todo, probe>>
    BY <1>18 DEF TurnStarts
  <2> QED BY <2>1, <1>b
<1>19. ASSUME NEW s \in Sessions, TurnEnds(s) PROVE ThreadInv'
  <2>1. thread = Free /\ UNCHANGED <<thread, todo, probe>>
    BY <1>19 DEF TurnEnds
  <2> QED BY <2>1, <1>b
<1>20. ASSUME NEW s \in Sessions, Delete(s) PROVE ThreadInv'
  <2>1. thread = Free /\ UNCHANGED <<thread, todo, probe>>
    BY <1>20 DEF Delete
  <2> QED BY <2>1, <1>b
<1>21. CASE Crash
  BY <1>21, <1>a DEF Crash
<1>22. CASE Restart
  <2>1. thread = Free /\ UNCHANGED <<thread, todo, probe>>
    BY <1>22 DEF Restart, ThreadInv
  <2> QED BY <2>1, <1>b
<1>23. CASE \E p \in Pids : Reap(p)
  <2>1. UNCHANGED <<disk, mem, up, thread, todo, probe, pend, answers, proc, term>>
    BY <1>23 DEF Reap, jobVars, clockVars, threadVars, monitorVars, chatVars
  <2> QED BY <2>1, <1>0
<1>24. CASE ClockStep
  <2>1. UNCHANGED <<disk, mem, up, thread, todo, probe, pend, answers, proc, term>>
    BY <1>24 DEF ClockStep, Overdue, Age, jobVars, clockVars, threadVars, monitorVars,
       chatVars
  <2> QED BY <2>1, <1>0
<1>25. CASE UNCHANGED vars
  <2>1. UNCHANGED <<disk, mem, up, thread, todo, probe, pend, answers, proc, term>>
    BY <1>25 DEF vars, jobVars, clockVars, threadVars, monitorVars, chatVars
  <2> QED BY <2>1, <1>0
<1> QED BY <1>0, <1>1, <1>2, <1>3, <1>4, <1>5, <1>6, <1>7, <1>8, <1>9, <1>10, <1>11, <1>12,
       <1>13, <1>14, <1>15, <1>16, <1>17, <1>18, <1>19, <1>20, <1>21, <1>22, <1>23, <1>24,
       <1>25
       DEF Next, ThreadStep, MonitorStep, ToolStep, ProcessStep, ClockStep, SessionStep, Test

\* The list stays valid when it does not grow and the jobs on it keep their
\* records.
LEMMA ListStays ==
  ASSUME IndInv, pend' \subseteq pend, monitor'.at = "agent" => monitor' = monitor,
         \A k \in pend : disk'[k] = disk[k],
         monitor.at = "agent" => disk'[monitor.job] = disk[monitor.job]
  PROVE  /\ monitor'.at = "agent" => monitor'.job \notin pend'
         /\ ListStaysValid'
BY DEF IndInv, MonitorInv, ListStaysValid, Pending, Finished, Running, Recorded

\* The monitor and its list.
LEMMA MonitorInvNext ==
  ASSUME IndInv, [Next]_vars
  PROVE  MonitorInv'
<1> USE DEF IndInv, TypeOK, jobVars, threadVars, monitorVars
<1>a. ASSUME UNCHANGED <<disk, monitor, pend>>
      PROVE  /\ monitor'.at = "agent" => monitor'.job \notin pend'
             /\ ListStaysValid'
  BY <1>a, ListStays
<1>0. ASSUME UNCHANGED <<disk, monitor, pend, thread, up>> PROVE MonitorInv'
  BY <1>0, <1>a DEF MonitorInv
<1>1. ASSUME NEW j \in Jobs, NEW s \in Sessions, NEW p \in Pids, Launch(j, s, p) PROVE MonitorInv'
  <2>1. UNCHANGED <<disk, monitor, pend, up>>
    BY <1>1 DEF Launch, Refresh
  <2>2. thread'.op \notin {"poll", "mark"} /\ thread.op # "poll"
    BY <1>1 DEF Launch, Refresh, Free
  <2> QED BY <2>1, <2>2, <1>a DEF MonitorInv
<1>2. CASE LaunchSave
  <2>1. UNCHANGED <<monitor, pend, up>> /\ thread.op = "launch" /\ thread'.op = "free"
    BY <1>2 DEF LaunchSave, Free
  <2>2. ASSUME NEW k \in Pending(disk) PROVE disk'[k] = disk[k]
    BY <1>2, <2>2 DEF LaunchSave, ThreadInv, Pending, Finished, Recorded
  <2>3. ListStaysValid' /\ (monitor'.at = "agent" => monitor'.job \notin pend')
    BY <2>1, <2>2, ListStays DEF MonitorInv, ListStaysValid
  <2> QED BY <2>1, <2>3 DEF MonitorInv
<1>3. CASE Tick
  <2>1. UNCHANGED <<disk, pend, up>> /\ up /\ thread'.op = "poll"
    BY <1>3 DEF Tick, Refresh
  <2>2. monitor'.at = "refresh"
    BY <1>3 DEF Tick, MonitorTypes
  <2>3. ListStaysValid'
    BY <2>1, <2>2, ListStays DEF MonitorInv, ListStaysValid
  <2> QED BY <2>1, <2>2, <2>3 DEF MonitorInv
<1>4. CASE ToolLists
  <2>1. UNCHANGED <<disk, monitor, pend, up>>
    BY <1>4 DEF ToolLists, Refresh
  <2>2. thread'.op \notin {"poll", "mark"} /\ thread.op # "poll"
    BY <1>4 DEF ToolLists, Refresh, Free
  <2> QED BY <2>1, <2>2, <1>a DEF MonitorInv
<1>5. ASSUME NEW j \in Jobs, ToolKills(j) PROVE MonitorInv'
  <2>1. UNCHANGED <<disk, monitor, pend, up>>
    BY <1>5 DEF ToolKills, Refresh
  <2>2. thread'.op \notin {"poll", "mark"} /\ thread.op # "poll"
    BY <1>5 DEF ToolKills, Refresh, Free
  <2> QED BY <2>1, <2>2, <1>a DEF MonitorInv
<1>6. ASSUME NEW j \in Jobs, Test(j) PROVE MonitorInv'
  <2>1. UNCHANGED <<disk, monitor, pend, up, thread>>
    BY <1>6, TestFacts
  <2> QED BY <2>1, <1>a DEF MonitorInv
<1>7. CASE RefreshEnd
  <2>1. /\ Refreshing /\ thread'.op \in {"free", "signal"} /\ up' = up /\ up
        /\ disk' = Prune(mem)
    BY <1>7 DEF RefreshEnd, Free, ThreadInv, Refreshing
  <2>2. ASSUME NEW k \in Pending(disk) PROVE disk'[k] = disk[k]
    <3>1. mem[k] = disk[k] /\ ~mem[k].followed /\ k \in Jobs
      BY <2>1, <2>2 DEF RefreshInv, Pending, Finished, Recorded
    <3> QED BY <2>1, <3>1 DEF Prune
  <2>3. CASE thread.op = "poll"
    <3>1. pend' = Pending(disk') /\ monitor'.at = "tick"
      BY <1>7, <2>1, <2>3 DEF RefreshEnd, MonitorTypes
    <3> QED BY <2>1, <3>1 DEF MonitorInv, ListStaysValid, Pending, Finished, Running, Recorded
  <2>4. CASE thread.op # "poll"
    <3>1. UNCHANGED <<pend, monitor>>
      BY <1>7, <2>4 DEF RefreshEnd
    <3>2. ListStaysValid' /\ (monitor'.at = "agent" => monitor'.job \notin pend')
      BY <2>2, <3>1, ListStays DEF MonitorInv, ListStaysValid
    <3> QED BY <2>1, <2>4, <3>1, <3>2 DEF MonitorInv
  <2> QED BY <2>3, <2>4
<1>8. CASE KillSignal
  <2>1. UNCHANGED <<disk, monitor, pend, up>> /\ thread.op = "signal" /\ thread'.op = "killed"
    BY <1>8 DEF KillSignal, ThreadTypes
  <2> QED BY <2>1, <1>a DEF MonitorInv
<1>9. CASE KillSave
  <2>1. UNCHANGED <<monitor, pend, up>> /\ thread.op = "killed" /\ thread'.op = "free"
    BY <1>9 DEF KillSave, Free
  <2>2. thread.job \notin Pending(disk)
    BY <2>1 DEF ThreadInv, Pending, Finished
  <2>3. ASSUME NEW k \in Pending(disk) PROVE disk'[k] = disk[k]
    BY <1>9, <2>2, <2>3, KillSaveFacts DEF Pending, Finished, Recorded
  <2>4. ListStaysValid' /\ (monitor'.at = "agent" => monitor'.job \notin pend')
    BY <2>1, <2>3, ListStays DEF MonitorInv, ListStaysValid
  <2> QED BY <2>1, <2>4 DEF MonitorInv
<1>10. ASSUME NEW j \in Jobs, Follow(j) PROVE MonitorInv'
  <2>1. thread' = thread /\ thread.op = "free" /\ up' = up /\ up /\ disk' = disk
        /\ monitor.at = "tick" /\ j \in pend /\ pend' = pend \ {j}
    BY <1>10 DEF Follow, Free
  <2>2. CASE monitor' = monitor
    BY <2>1, <2>2, ListStays DEF MonitorInv
  <2>3. CASE monitor' = [at |-> "agent", job |-> j]
    <3>1. monitor'.at = "agent" /\ monitor'.job = j
      BY <2>3
    <3> QED BY <2>1, <3>1 DEF MonitorInv, ListStaysValid, Pending, Finished, Running, Recorded
  <2> QED BY <1>10, <2>2, <2>3 DEF Follow
<1>11. CASE FollowFails
  <2>1. /\ UNCHANGED <<disk, thread, up, pend>> /\ thread.op = "free" /\ monitor'.at = "tick"
        /\ monitor.at = "agent"
    BY <1>11 DEF FollowFails, Free
  <2> QED BY <2>1, ListStays DEF MonitorInv
<1>12. CASE FollowEnds
  <2>1. /\ UNCHANGED <<disk, up, pend>> /\ thread'.op = "mark" /\ monitor'.at = "tick"
        /\ monitor.at = "agent"
    BY <1>12 DEF FollowEnds
  <2> QED BY <2>1, ListStays DEF MonitorInv
<1>13. CASE Mark
  <2>1. /\ UNCHANGED <<monitor, pend, up>> /\ thread.op = "mark" /\ thread'.op = "free"
        /\ monitor.at = "tick" /\ thread.job \notin pend
    BY <1>13 DEF Mark, Free, MonitorInv, ThreadInv
  <2>2. ASSUME NEW k \in pend PROVE disk'[k] = disk[k]
    BY <1>13, <2>1, <2>2, MarkFacts DEF MonitorTypes
  <2>3. ListStaysValid'
    BY <2>1, <2>2, ListStays
  <2> QED BY <2>1, <2>3 DEF MonitorInv
<1>14. CASE EndTick
  <2>1. /\ UNCHANGED <<disk, thread, up, pend>> /\ thread.op = "free" /\ monitor'.at = "sleep"
        /\ monitor.at = "tick"
    BY <1>14 DEF EndTick, Free, Sleeping
  <2> QED BY <2>1, ListStays DEF MonitorInv
<1>15. CASE Crash
  <2>1. thread'.op = "free" /\ monitor'.at = "sleep" /\ pend' = {}
    BY <1>15 DEF Crash, Free, Sleeping
  <2> QED BY <2>1 DEF MonitorInv, ListStaysValid
<1>16. CASE Restart
  <2>1. UNCHANGED <<disk, thread, monitor, pend>> /\ up'
    BY <1>16 DEF Restart
  <2> QED BY <2>1, <1>a DEF MonitorInv
<1>17. CASE ProcessStep
  <2>1. UNCHANGED <<disk, monitor, pend, thread, up>>
    BY <1>17 DEF ProcessStep, ExitWritten, Vanish, CommandEnds, Reap, jobVars, clockVars,
       threadVars, monitorVars, chatVars
  <2> QED BY <2>1, <1>0
<1>18. CASE ClockStep
  <2>1. UNCHANGED <<disk, monitor, pend, thread, up>>
    BY <1>18 DEF ClockStep, Overdue, Age, jobVars, clockVars, threadVars, monitorVars,
       chatVars
  <2> QED BY <2>1, <1>0
<1>19. CASE SessionStep
  <2>1. UNCHANGED <<disk, monitor, pend, thread, up>>
    BY <1>19 DEF SessionStep, TurnStarts, TurnEnds, Delete, jobVars, clockVars,
       threadVars, monitorVars, chatVars
  <2> QED BY <2>1, <1>0
<1>20. CASE UNCHANGED vars
  <2>1. UNCHANGED <<disk, monitor, pend, thread, up>>
    BY <1>20 DEF vars, jobVars, clockVars, threadVars, monitorVars, chatVars
  <2> QED BY <2>1, <1>0
<1> QED BY <1>0, <1>1, <1>2, <1>3, <1>4, <1>5, <1>6, <1>7, <1>8, <1>9, <1>10, <1>11, <1>12,
       <1>13, <1>14, <1>15, <1>16, <1>17, <1>18, <1>19, <1>20
       DEF Next, ThreadStep, MonitorStep, ToolStep, ProcessStep, ClockStep, SessionStep, Test

-----------------------------------------------------------------------------
(* The theorems.                                                            *)

\* The program starts in the invariant.
LEMMA InitInv == Init => IndInv
<1> SUFFICES ASSUME Init PROVE IndInv
  OBVIOUS
<1>1. TypeOK
  BY ConstantsAssumption DEF ConstantsAssumption, Init, TypeOK, StoreTypes, ProcTypes, ThreadTypes,
     MonitorTypes, Stores, Dropped, Free, NoProbe, Sleeping
<1>2. StoresInv /\ ProcInv /\ RefreshInv
  BY DEF Init, StoresInv, Truthful, Recorded, ProcInv, RefreshInv, Refreshing, Free
<1>3. ThreadInv /\ MonitorInv
  BY DEF Init, ThreadInv, MonitorInv, ListStaysValid, Refreshing, Free, Sleeping
<1> QED BY <1>1, <1>2, <1>3 DEF IndInv

\* The invariant that all the theorems below rest on: every reachable state of
\* bg_jobs and its monitor satisfies it.
THEOREM Inductive == Spec => []IndInv
<1>1. IndInv /\ [Next]_vars => IndInv'
  BY StoreTypesNext, ProcTypesNext, ThreadTypesNext, MonitorTypesNext, StoresNext, ProcInvNext,
     RefreshInvNext, ThreadInvNext, MonitorInvNext DEF IndInv, TypeOK
<1> QED BY InitInv, <1>1, PTL DEF Spec

\* The job store, the monitor and the processes keep their types.
THEOREM TypeCorrect == Spec => []TypeOK
<1>1. IndInv => TypeOK
  BY DEF IndInv
<1> QED BY <1>1, Inductive, PTL

\* No completion is dropped: mark_followed_up() and kill() set the flag only
\* where a message was added to the session, or the agent killed the job itself.
THEOREM NothingDropped == Spec => []FollowedMeansHeard
<1>1. IndInv => FollowedMeansHeard
  BY DEF IndInv, StoresInv, Truthful, TruthOf, FollowedMeansHeard
<1> QED BY <1>1, Inductive, PTL

\* The monitor adds one message about a job, and one more for each crash between a
\* message and the saved flag.
THEOREM AnswersBounded == Spec => []AnsweredOncePerLife
<1>1. IndInv => AnsweredOncePerLife
  BY DEF IndInv, ProcInv, AnsweredOncePerLife
<1> QED BY <1>1, Inductive, PTL

\* What refresh() and kill() write down of a job is true of its processes, at
\* whatever instants they made their observations: "died" only of a wrapper that
\* left no exit file, an exit status only of a command that ended with it, and
\* "killed" or "timed out" only of a job whose own group was sent the signal or
\* whose wrapper had gone.  (That the command has stopped does not follow.)
THEOREM OutcomeHolds == Spec => []OutcomeIsTrue
<1>1. ASSUME IndInv, NEW j \in Finished(disk)
      PROVE  OutcomeOf(disk[j].status, disk[j].why, j)
  <2>1. j \in Recorded(disk) /\ disk[j].status # "running"
    BY DEF Finished, Running
  <2> QED BY <1>1, <2>1 DEF IndInv, StoresInv, Truthful, TruthOf
<1>2. IndInv => OutcomeIsTrue
  BY <1>1 DEF OutcomeOf, OutcomeIsTrue, DiedMeansNoExit, ExitMeansEnded, KilledMeansSignalled
<1> QED BY <1>2, Inductive, PTL

\* What the monitor keeps across its awaits does not go stale: tools and kills
\* that run meanwhile leave the jobs of its list finished and not followed up.
THEOREM ListIsValid == Spec => []ListStaysValid
<1>1. IndInv => ListStaysValid
  BY DEF IndInv, MonitorInv
<1> QED BY <1>1, Inductive, PTL

\* The four functions that save the store leave the outcome of a finished job
\* alone, and only pruning drops its record.
LEMMA FinalStays ==
  ASSUME IndInv, [Next]_vars, NEW k \in Finished(disk)
  PROVE  IF disk'[k] = None THEN disk[k].followed
         ELSE /\ disk'[k].status = disk[k].status /\ disk'[k].why = disk[k].why
              /\ disk[k].followed => disk'[k].followed
<1> DEFINE Final ==
      IF disk'[k] = None THEN disk[k].followed
      ELSE /\ disk'[k].status = disk[k].status /\ disk'[k].why = disk[k].why
           /\ disk[k].followed => disk'[k].followed
<1> SUFFICES Final
  OBVIOUS
<1> k \in Jobs /\ disk[k] # None
  BY DEF Finished, Recorded
<1> USE DEF IndInv
<1>0. ASSUME UNCHANGED <<disk>> PROVE Final
  BY <1>0
<1>1. CASE LaunchSave
  <2>1. mem[k] = disk[k]
    BY <1>1 DEF LaunchSave, ThreadInv, Finished, Recorded
  <2> QED BY <1>1, <2>1 DEF LaunchSave
<1>2. ASSUME NEW j \in Jobs, Test(j) PROVE Final
  BY <1>2, TestFacts
<1>3. CASE RefreshEnd
  <2>1. mem[k] = disk[k] /\ k \in Jobs
    BY <1>3 DEF RefreshEnd, RefreshInv, Finished, Recorded
  <2>2. disk' = Prune(mem)
    BY <1>3 DEF RefreshEnd
  <2>3. disk'[k] = disk[k] \/ disk[k].followed
    BY <2>1, <2>2 DEF Prune
  <2>4. disk'[k] = disk[k] \/ disk'[k] = None
    BY <2>1, <2>2 DEF Prune
  <2> QED BY <2>3, <2>4
<1>4. CASE KillSave
  <2>1. k # thread.job
    BY <1>4 DEF KillSave, ThreadInv, Finished
  <2> QED BY <1>4, <2>1, KillSaveFacts
<1>5. CASE Mark
  <2>1. CASE k = thread.job
    BY <1>5, <2>1, MarkFacts, NoneIsNoRecord
  <2>2. CASE k # thread.job
    BY <1>5, <2>2, MarkFacts DEF Finished, Recorded
  <2> QED BY <2>1, <2>2
<1>6. CASE KillSignal
  <2>1. UNCHANGED <<disk>>
    BY <1>6 DEF KillSignal, jobVars, clockVars, threadVars, monitorVars, chatVars
  <2> QED BY <2>1, <1>0
<1>7. CASE MonitorStep
  <2>1. UNCHANGED <<disk>>
    BY <1>7 DEF MonitorStep, Tick, Follow, FollowFails, FollowEnds, EndTick, Refresh,
       jobVars, clockVars, threadVars, monitorVars, chatVars
  <2> QED BY <2>1, <1>0
<1>8. CASE ToolStep
  <2>1. UNCHANGED <<disk>>
    BY <1>8 DEF ToolStep, Launch, ToolLists, ToolKills, Refresh, jobVars, clockVars,
       threadVars, monitorVars, chatVars
  <2> QED BY <2>1, <1>0
<1>9. CASE ProcessStep
  <2>1. UNCHANGED <<disk>>
    BY <1>9 DEF ProcessStep, ExitWritten, Vanish, CommandEnds, Reap, jobVars, clockVars,
       threadVars, monitorVars, chatVars
  <2> QED BY <2>1, <1>0
<1>10. CASE ClockStep
  <2>1. UNCHANGED <<disk>>
    BY <1>10 DEF ClockStep, Overdue, Age, jobVars, clockVars, threadVars, monitorVars,
       chatVars
  <2> QED BY <2>1, <1>0
<1>11. CASE SessionStep
  <2>1. UNCHANGED <<disk>>
    BY <1>11 DEF SessionStep, TurnStarts, TurnEnds, Delete, jobVars, clockVars,
       threadVars, monitorVars, chatVars
  <2> QED BY <2>1, <1>0
<1>12. CASE Restart
  <2>1. UNCHANGED <<disk>>
    BY <1>12 DEF Restart, jobVars, clockVars, threadVars, monitorVars, chatVars
  <2> QED BY <2>1, <1>0
<1>13. CASE Crash
  <2>1. UNCHANGED <<disk>>
    BY <1>13 DEF Crash, jobVars, clockVars, threadVars, monitorVars, chatVars
  <2> QED BY <2>1, <1>0
<1>14. CASE UNCHANGED vars
  <2>1. UNCHANGED <<disk>>
    BY <1>14 DEF vars, jobVars, clockVars, threadVars, monitorVars, chatVars
  <2> QED BY <2>1, <1>0
<1> QED BY <1>0, <1>1, <1>2, <1>3, <1>4, <1>5, <1>6, <1>7, <1>8, <1>9, <1>10, <1>11, <1>12,
       <1>13, <1>14
       DEF Next, ThreadStep, MonitorStep, ToolStep, ProcessStep, ClockStep, SessionStep, Test

\* The outcome of a finished job never changes, whatever runs on: a kill, a
\* late exit file, a crash, or a refresh with an old copy of the store.
THEOREM OutcomeStays == Spec => OutcomeIsFinal
<1>1. IndInv /\ [Next]_vars =>
        [\A j \in Finished(disk) :
           IF disk'[j] = None THEN disk[j].followed
           ELSE /\ disk'[j].status = disk[j].status /\ disk'[j].why = disk[j].why
                /\ disk[j].followed => disk'[j].followed]_vars
  BY FinalStays
<1> QED BY <1>1, Inductive, PTL DEF Spec, OutcomeIsFinal
=============================================================================
