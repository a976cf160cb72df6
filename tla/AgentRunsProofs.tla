--------------------------- MODULE AgentRunsProofs ---------------------------
EXTENDS AgentRuns, TLAPS

LEMMA RunsAreNat == Runs \subseteq Nat /\ None \notin Runs
BY NoneAssumption, BoundsAssumption DEF Runs

(***************************************************************************)
(* Type correctness, one step per action.                                  *)
(***************************************************************************)
LEMMA EmptySeq == ASSUME NEW S PROVE <<>> \in Seq(S)
OBVIOUS

LEMMA PublishType ==
  ASSUME TypeOK, NEW r \in Runs, NEW evs \in Seq(Events), NEW tail \in Seq(Items),
         Publish(r, evs, tail)
  PROVE  buffer' \in [Runs -> Seq(Events)] /\ queue' \in [Conns -> Seq(Items)]
<1>1. buffer[r] \o evs \in Seq(Events)
  BY DEF TypeOK, RunTypes, TaskTypes, ConnTypes
<1>2. [i \in 1..Len(evs) |-> <<Len(buffer[r]) + i - 1, evs[i]>>] \in Seq(Items)
  <2>1. Len(evs) \in Nat /\ Len(buffer[r]) \in Nat
    BY DEF TypeOK, RunTypes, TaskTypes, ConnTypes
  <2>2. \A i \in 1..Len(evs) : <<Len(buffer[r]) + i - 1, evs[i]>> \in Items
    BY <2>1 DEF Items
  <2> QED BY <2>1, <2>2
<1>3. ASSUME NEW c \in Conns
      PROVE  queue[c] \o [i \in 1..Len(evs) |-> <<Len(buffer[r]) + i - 1, evs[i]>>] \o tail
               \in Seq(Items)
  BY <1>2 DEF TypeOK, RunTypes, TaskTypes, ConnTypes
<1> QED BY <1>1, <1>3 DEF TypeOK, RunTypes, TaskTypes, ConnTypes, Publish

LEMMA TypeInit == Init => TypeOK
BY BoundsAssumption, EmptySeq DEF Init, TypeOK, RunTypes, TaskTypes, ConnTypes, Runs

LEMMA TypeNext == TypeOK /\ TaskInv /\ SubscribersInv /\ QueueInv /\ [Next]_vars => TypeOK'
<1> SUFFICES ASSUME TypeOK, TaskInv, SubscribersInv, QueueInv, [Next]_vars PROVE TypeOK'
  OBVIOUS
<1> USE RunsAreNat, EmptySeq
<1>1. CASE Stop
  BY <1>1 DEF TypeOK, RunTypes, TaskTypes, ConnTypes, Stop, connVars
<1>2. ASSUME NEW t \in Runs, TaskStep(t) PROVE TypeOK'
  <2>1. CASE CancelUnstarted(t)
    BY <2>1 DEF TypeOK, RunTypes, TaskTypes, ConnTypes, CancelUnstarted, runVars, connVars
  <2>2. CASE FirstStep(t)
    BY <2>2 DEF TypeOK, RunTypes, TaskTypes, ConnTypes, FirstStep, connVars
  <2>3. CASE PrevEnded(t)
    BY <2>3 DEF TypeOK, RunTypes, TaskTypes, ConnTypes, PrevEnded, connVars
  <2>4. ASSUME NEW save \in BOOLEAN, Chunk(t, save) PROVE TypeOK'
    <3>1. into[t] = t
      BY <2>4 DEF TaskInv, Chunk
    <3>2. << <<t, "chunk", produced[t] + 1>> >> \in Seq(Events)
      BY DEF TypeOK, RunTypes, TaskTypes, ConnTypes, Events
    <3>3. buffer' \in [Runs -> Seq(Events)] /\ queue' \in [Conns -> Seq(Items)]
      BY <2>4, <3>1, <3>2, PublishType DEF Chunk
    <3>4. saves' \in Seq(Saves)
      BY <2>4 DEF Chunk, TypeOK, TaskTypes, Saves
    <3>5. RunTypes'
      BY <2>4, <3>3 DEF TypeOK, RunTypes, Chunk
    <3>6. TaskTypes'
      BY <2>4, <3>4 DEF TypeOK, TaskTypes, Chunk
    <3>7. ConnTypes'
      BY <2>4, <3>3 DEF TypeOK, ConnTypes, Chunk
    <3> QED BY <3>5, <3>6, <3>7 DEF TypeOK
  <2>5. ASSUME NEW st \in {"done", "error", "stopped"}, NEW evs \in Seq(Events),
               pc[t] \in {"draining", "unwinding"},
               EndDrain(t, st, evs), saves' \in Seq(Saves)
        PROVE  TypeOK'
    <3>1. into[t] = t
      BY <2>5 DEF TaskInv
    <3>2. <<Sentinel>> \in Seq(Items)
      BY DEF Sentinel, Items
    <3>3. buffer' \in [Runs -> Seq(Events)] /\ queue' \in [Conns -> Seq(Items)]
      BY <2>5, <3>1, <3>2, PublishType DEF EndDrain
    <3> QED BY <2>5, <3>1, <3>3 DEF TypeOK, RunTypes, TaskTypes, ConnTypes, EndDrain, ArmEvict
  <2>6. CASE DrainDone(t)
    BY <2>5, <2>6 DEF DrainDone, TypeOK, TaskTypes
  <2>7. CASE DrainError(t)
    <3>1. << <<t, "error", 0>>, <<t, "done", 0>> >> \in Seq(Events)
      BY DEF Events
    <3> QED BY <2>5, <2>7, <3>1 DEF DrainError, TypeOK, TaskTypes
  <2>8. CASE DeliverCancel(t)
    BY <2>8 DEF TypeOK, RunTypes, TaskTypes, ConnTypes, DeliverCancel, runVars, connVars
  <2>9. CASE Unwound(t)
    <3>1. saves' \in Seq(Saves)
      BY <2>9 DEF Unwound, TypeOK, TaskTypes, Saves
    <3> QED BY <2>5, <2>9, <3>1 DEF Unwound
  <2> QED
    BY <1>2, <2>1, <2>2, <2>3, <2>4, <2>6, <2>7, <2>8, <2>9
    DEF TaskStep, DrainChunk, DrainFinalSave
<1>3. ASSUME NEW r \in Runs, EvictFire(r) PROVE TypeOK'
  BY <1>3 DEF TypeOK, RunTypes, TaskTypes, ConnTypes, EvictFire, taskVars, connVars
<1>4. ASSUME NEW c \in Conns, Start(c) PROVE TypeOK'
  <2>1. RunTypes'
    BY <1>4, BoundsAssumption DEF TypeOK, RunTypes, Start, Runs
  <2>2. TaskTypes'
    BY <1>4, BoundsAssumption DEF TypeOK, RunTypes, TaskTypes, Start, Runs
  <2>3. ConnTypes'
    BY <1>4 DEF TypeOK, ConnTypes, Start, Reset
  <2> QED BY <2>1, <2>2, <2>3 DEF TypeOK
<1>5. ASSUME NEW c \in Conns, Resume(c) PROVE TypeOK'
  BY <1>5 DEF TypeOK, RunTypes, TaskTypes, ConnTypes, Resume, Reset, runVars, taskVars
<1>6. ASSUME NEW c \in Conns, ReaderStep(c) PROVE TypeOK'
  <2>8. ASSUME NEW p \in {"replay", "live", "complete"}, NEW evs \in Seq(Events),
               current # None, Attach(c, p, evs)
        PROVE  ConnTypes'
    <3>1. current \in Runs /\ Len(evs) \in Nat
      BY <2>8 DEF TypeOK, RunTypes
    <3> QED BY <2>8, <3>1 DEF TypeOK, ConnTypes, Attach
  <2>1. CASE Subscribe(c)
    <3>1. TaskTypes'
      BY <2>1 DEF TypeOK, TaskTypes, Subscribe, taskVars
    <3>2. RunTypes'
      <4>3. UNCHANGED <<nruns, current, active, buffer, status>>
        BY <2>1 DEF Subscribe
      <4>1. CASE UNCHANGED <<subscribers, evictArmed>> \/ Register(c)
        <5>1. subscribers' \in [Runs -> SUBSET Conns]
          BY <4>1 DEF TypeOK, RunTypes, Register
        <5>2. evictArmed' \in [Runs -> BOOLEAN]
          BY <4>1 DEF TypeOK, RunTypes, Register
        <5> QED BY <4>3, <5>1, <5>2 DEF TypeOK, RunTypes
      <4>2. CASE /\ evictArmed' = [evictArmed EXCEPT ![current] = (subscribers[current] = {})]
                 /\ UNCHANGED subscribers
        <5>1. (subscribers[current] = {}) \in BOOLEAN
          OBVIOUS
        <5>2. evictArmed' \in [Runs -> BOOLEAN]
          BY <4>2, <5>1, Zenon DEF TypeOK, RunTypes
        <5> QED BY <4>2, <4>3, <5>2 DEF TypeOK, RunTypes
      <4> QED BY <2>1, <4>1, <4>2 DEF Subscribe
    <3>3. ConnTypes'
      <4>1. CASE Reset(c, "idle")
        BY <4>1 DEF TypeOK, ConnTypes, Reset
      <4>2. CASE current # None /\ buffer[current] # <<>>
                 /\ Attach(c, "replay", <<buffer[current][1]>>)
        <5>1. buffer[current] \in Seq(Events) /\ buffer[current] # <<>>
          BY <4>2 DEF TypeOK, RunTypes
        <5>2. buffer[current][1] \in Events
          BY <5>1
        <5>3. <<buffer[current][1]>> \in Seq(Events)
          BY <5>2
        <5> QED BY <2>8, <4>2, <5>3
      <4> QED BY <2>1, <2>8, <4>1, <4>2 DEF Subscribe
    <3> QED BY <3>1, <3>2, <3>3 DEF TypeOK
  <2>5. ASSUME NEW s \in Nat, NEW ev \in Events, NEW p \in {"replay", "live", "flush"},
               Deliver(c, s, ev, p), queue' \in [Conns -> Seq(Items)]
        PROVE  TypeOK'
    <3>1. RunTypes' /\ TaskTypes'
      BY <2>5 DEF TypeOK, RunTypes, TaskTypes, Deliver, runVars, taskVars
    <3>2. delivered' \in [Conns -> Seq(Events)]
      BY <2>5 DEF TypeOK, ConnTypes, Deliver
    <3>3. phase' \in [Conns -> {"idle", "admitted", "replay", "live", "flush", "complete"}]
          /\ nextSeq' \in [Conns -> Nat]
      BY <2>5 DEF TypeOK, ConnTypes, Deliver
    <3> QED BY <2>5, <3>1, <3>2, <3>3 DEF TypeOK, ConnTypes, Deliver
  <2>6. ASSUME Attached(c), Complete(c) PROVE TypeOK'
    <3>1. RunTypes' /\ TaskTypes'
      BY <2>6 DEF TypeOK, RunTypes, TaskTypes, Complete, Leave, ArmEvict, taskVars
    <3>2. ConnTypes'
      BY <2>6 DEF TypeOK, ConnTypes, Complete
    <3> QED BY <3>1, <3>2 DEF TypeOK
  <2>7. ASSUME Attached(c), nextSeq[c] < Len(buffer[reads[c]])
        PROVE  buffer[reads[c]][nextSeq[c] + 1] \in Events
    <3>1. reads[c] \in Runs
      BY <2>7 DEF SubscribersInv
    <3>2. buffer[reads[c]] \in Seq(Events) /\ nextSeq[c] \in Nat
      BY <3>1 DEF TypeOK, RunTypes, ConnTypes
    <3>3. nextSeq[c] + 1 \in 1..Len(buffer[reads[c]])
      BY <2>7, <3>2
    <3> QED BY <3>2, <3>3
  <2>2. CASE Replay(c)
    <3>1. Attached(c) /\ nextSeq[c] \in Nat /\ queue \in [Conns -> Seq(Items)]
      BY <2>2 DEF Replay, Attached, TypeOK, ConnTypes
    <3>2. CASE phase' = [phase EXCEPT ![c] = "live"]
               /\ UNCHANGED <<runVars, subscribers, taskVars, reads, nextSeq, queue, delivered>>
      BY <3>2 DEF TypeOK, RunTypes, TaskTypes, ConnTypes, runVars, taskVars
    <3> QED BY <2>2, <2>5, <2>6, <2>7, <3>1, <3>2 DEF Replay
  <2>3. ASSUME Attached(c), Flush(c) PROVE TypeOK'
    <3>1. nextSeq[c] \in Nat /\ queue \in [Conns -> Seq(Items)]
      BY DEF TypeOK, ConnTypes
    <3> QED BY <2>3, <2>5, <2>6, <2>7, <3>1 DEF Flush
  <2>4. CASE TakeEvent(c)
    <3> DEFINE item == Head(queue[c])
    <3>1. queue[c] \in Seq(Items) /\ queue[c] # <<>> /\ item # Sentinel /\ phase[c] = "live"
      BY <2>4 DEF TakeEvent, TypeOK, ConnTypes
    <3>2. item \in Nat \X Events
      BY <3>1 DEF Items, Sentinel
    <3>3. Tail(queue[c]) \in Seq(Items)
      BY <3>1
    <3>4. item[1] \in Nat /\ item[2] \in Events
      BY <3>2
    <3> HIDE DEF item
    <3>7. queue' \in [Conns -> Seq(Items)]
      BY <2>4, <3>3 DEF TakeEvent, TypeOK, ConnTypes
    <3>5. CASE item[1] >= nextSeq[c]
      <4>1. Deliver(c, item[1], item[2], "live")
        BY <2>4, <3>5 DEF TakeEvent, item
      <4> QED BY <2>5, <3>4, <3>7, <4>1
    <3>6. CASE ~(item[1] >= nextSeq[c])
      BY <2>4, <3>6, <3>7
      DEF TypeOK, RunTypes, TaskTypes, ConnTypes, TakeEvent, runVars, taskVars, item
    <3> QED BY <3>5, <3>6
  <2> QED
    BY <1>6, <2>1, <2>2, <2>3, <2>4
    DEF ReaderStep, FlushMore, TakeSentinel, TakeTimeout, Attached
<1>7. ASSUME NEW c \in Conns, Disconnect(c) PROVE TypeOK'
  <2>1. RunTypes' /\ TaskTypes'
    <3>1. CASE Reset(c, "idle") /\ UNCHANGED <<runVars, subscribers, taskVars>>
      BY <3>1 DEF TypeOK, RunTypes, TaskTypes, runVars, taskVars
    <3>2. CASE Leave(c)
      BY <3>2 DEF TypeOK, RunTypes, TaskTypes, Leave, ArmEvict, taskVars
    <3> QED BY <1>7, <3>1, <3>2 DEF Disconnect
  <2>2. ConnTypes'
    <3>1. Reset(c, "idle")
      BY <1>7 DEF Disconnect
    <3> QED BY <3>1 DEF TypeOK, ConnTypes, Reset
  <2> QED BY <2>1, <2>2 DEF TypeOK
<1>8. CASE UNCHANGED vars
  BY <1>8 DEF TypeOK, RunTypes, TaskTypes, ConnTypes, vars, runVars, taskVars, connVars
<1> QED
  BY <1>1, <1>2, <1>3, <1>4, <1>5, <1>6, <1>7, <1>8 DEF Next

(***************************************************************************)
(* The drain tasks.                                                        *)
(***************************************************************************)
LEMMA TaskNext == TypeOK /\ TaskInv /\ [Next]_vars => TaskInv'
<1> SUFFICES ASSUME TypeOK, TaskInv, [Next]_vars PROVE TaskInv'
  OBVIOUS
<1> USE RunsAreNat
<1>0. ASSUME UNCHANGED <<nruns, current, status, pc, cancelled, into>> PROVE TaskInv'
  BY <1>0 DEF TaskInv
<1>1. CASE Stop
  BY <1>1 DEF TaskInv, Stop, TypeOK, TaskTypes, RunTypes
<1>2. ASSUME NEW t \in Runs, TaskStep(t) PROVE TaskInv'
  <2>1. CASE CancelUnstarted(t)
    BY <2>1 DEF TypeOK, RunTypes, TaskTypes, TaskInv, CancelUnstarted, runVars
  <2>2. CASE FirstStep(t)
    BY <2>2 DEF TypeOK, RunTypes, TaskTypes, TaskInv, FirstStep
  <2>3. CASE PrevEnded(t)
    BY <2>3 DEF TypeOK, RunTypes, TaskTypes, TaskInv, PrevEnded
  <2>4. ASSUME NEW save, Chunk(t, save) PROVE TaskInv'
    BY <1>0, <2>4 DEF Chunk
  <2>5. ASSUME NEW st, NEW evs, pc[t] \in {"draining", "unwinding"}, EndDrain(t, st, evs)
        PROVE  TaskInv'
    <3>1. into[t] = t
      BY <2>5 DEF TaskInv
    <3> QED BY <2>5, <3>1 DEF TypeOK, RunTypes, TaskTypes, TaskInv, EndDrain
  <2>6. CASE DrainDone(t) \/ DrainError(t) \/ Unwound(t)
    BY <2>5, <2>6 DEF DrainDone, DrainError, Unwound
  <2>7. CASE DeliverCancel(t)
    BY <2>7 DEF TypeOK, RunTypes, TaskTypes, TaskInv, DeliverCancel, runVars
  <2> QED
    BY <1>2, <2>1, <2>2, <2>3, <2>4, <2>6, <2>7 DEF TaskStep, DrainChunk, DrainFinalSave
<1>3. ASSUME NEW r \in Runs, EvictFire(r) PROVE TaskInv'
  BY <1>3 DEF TaskInv, EvictFire, Terminal, taskVars
<1>4. ASSUME NEW c \in Conns, Start(c) PROVE TaskInv'
  <2>1. nruns + 1 \in Runs /\ pc[nruns + 1] = "absent"
    BY <1>4, BoundsAssumption DEF Start, TypeOK, RunTypes, TaskInv, Runs
  <2> QED BY <1>4, <2>1 DEF Start, TypeOK, RunTypes, TaskTypes, TaskInv
<1>5. ASSUME NEW c \in Conns, Resume(c) \/ ReaderStep(c) \/ Disconnect(c) PROVE TaskInv'
  BY <1>0, <1>5
  DEF Resume, ReaderStep, Subscribe, Replay, FlushMore, TakeEvent, TakeSentinel, TakeTimeout,
      Flush, Deliver, Complete, Leave, Disconnect, runVars, taskVars
<1>6. CASE UNCHANGED vars
  BY <1>0, <1>6 DEF vars, runVars, taskVars
<1> QED
  BY <1>1, <1>2, <1>3, <1>4, <1>5, <1>6 DEF Next

(***************************************************************************)
(* The connections.                                                        *)
(***************************************************************************)
LEMMA SubscribersNext == TypeOK /\ SubscribersInv /\ [Next]_vars => SubscribersInv'
<1> SUFFICES ASSUME TypeOK, SubscribersInv, [Next]_vars PROVE SubscribersInv'
  OBVIOUS
<1> USE RunsAreNat DEF TypeOK, RunTypes, ConnTypes
<1>0. ASSUME UNCHANGED <<phase, reads, subscribers, delivered>> PROVE SubscribersInv'
  BY <1>0 DEF SubscribersInv, Attached
<1>1. CASE Stop \/ (\E t \in Runs : TaskStep(t) \/ EvictFire(t)) \/ UNCHANGED vars
  BY <1>0, <1>1
  DEF Stop, TaskStep, CancelUnstarted, FirstStep, PrevEnded, DrainChunk, DrainFinalSave, Chunk,
      DrainDone, DrainError, DeliverCancel, Unwound, EndDrain, EvictFire,
      vars, runVars, taskVars, connVars
<1>2. ASSUME NEW c \in Conns, ~Attached(c), UNCHANGED subscribers,
             NEW p \in {"idle", "admitted"}, Reset(c, p)
      PROVE  SubscribersInv'
  <2>1. phase'[c] = p /\ reads'[c] = None /\ delivered'[c] = <<>>
    BY <1>2 DEF Reset
  <2>2. \A d \in Conns : d # c =>
          phase'[d] = phase[d] /\ reads'[d] = reads[d] /\ delivered'[d] = delivered[d]
    BY <1>2 DEF Reset
  <2> QED BY <1>2, <2>1, <2>2 DEF SubscribersInv, Attached
<1>3. ASSUME NEW c \in Conns, Start(c) \/ Resume(c) PROVE SubscribersInv'
  BY <1>2, <1>3 DEF Start, Resume, Free, Attached
<1>4. ASSUME NEW c \in Conns, Subscribe(c) PROVE SubscribersInv'
  <2>1. ~Attached(c)
    BY <1>4 DEF Subscribe, Attached
  <2>2. CASE current = None
    BY <1>2, <1>4, <2>1, <2>2 DEF Subscribe
  <2>3. ASSUME NEW p \in {"replay", "live"}, NEW evs, current # None, Attach(c, p, evs), Register(c)
        PROVE  SubscribersInv'
    BY <2>1, <2>3 DEF SubscribersInv, Attached, Attach, Register
  <2>4. ASSUME NEW evs, current # None, Attach(c, "complete", evs), UNCHANGED subscribers
        PROVE  SubscribersInv'
    BY <2>1, <2>4 DEF SubscribersInv, Attached, Attach
  <2> QED BY <1>4, <2>2, <2>3, <2>4 DEF Subscribe
<1>5. ASSUME NEW c \in Conns, Attached(c),
             UNCHANGED <<reads, subscribers>>,
             \A d \in Conns : d # c => phase'[d] = phase[d] /\ delivered'[d] = delivered[d],
             phase'[c] \in {"replay", "live", "flush"}
      PROVE  SubscribersInv'
  BY <1>5 DEF SubscribersInv, Attached
<1>6. ASSUME NEW c \in Conns, Attached(c), Complete(c) PROVE SubscribersInv'
  BY <1>6 DEF SubscribersInv, Attached, Complete, Leave
<1>7. ASSUME NEW c \in Conns, Attached(c), Flush(c) PROVE SubscribersInv'
  BY <1>5, <1>6, <1>7 DEF Flush, Deliver
<1>8. ASSUME NEW c \in Conns, Replay(c) PROVE SubscribersInv'
  <2>1. Attached(c)
    BY <1>8 DEF Replay, Attached
  <2> QED BY <1>5, <1>6, <1>8, <2>1 DEF Replay, Deliver
<1>9. ASSUME NEW c \in Conns, TakeEvent(c) PROVE SubscribersInv'
  <2>1. Attached(c)
    BY <1>9 DEF TakeEvent, Attached
  <2> QED BY <1>5, <1>9, <2>1 DEF TakeEvent, Deliver
<1>10. ASSUME NEW c \in Conns, Disconnect(c) PROVE SubscribersInv'
  <2>1. CASE phase[c] = "admitted"
    BY <1>2, <1>10, <2>1 DEF Disconnect, Attached
  <2>2. CASE Attached(c) /\ Leave(c) /\ Reset(c, "idle")
    BY <2>2 DEF SubscribersInv, Attached, Leave, Reset
  <2> QED BY <1>10, <2>1, <2>2 DEF Disconnect
<1> QED
  BY <1>1, <1>3, <1>4, <1>7, <1>8, <1>9, <1>10
  DEF Next, ReaderStep, FlushMore, TakeSentinel, TakeTimeout, Attached

(***************************************************************************)
(* What the clients receive.                                               *)
(***************************************************************************)
PrefixOK(c) ==
  Attached(c) =>
    /\ nextSeq[c] = Len(delivered[c]) /\ nextSeq[c] <= Len(buffer[reads[c]])
    /\ \A i \in 1..Len(delivered[c]) : delivered[c][i] = buffer[reads[c]][i]

QueueOK(c) ==
  phase[c] \in {"replay", "live"} =>
    LET b == buffer[reads[c]]
        first == Len(b) - Pending(c)
    IN
    /\ Pending(c) <= Len(b)
    /\ \A i \in 1..Pending(c) : queue[c][i] = <<first + i - 1, b[first + i]>>
    /\ Terminal(reads[c]) /\ queue[c] # <<>> => queue[c][Len(queue[c])] = Sentinel
    /\ phase[c] = "live" => first <= nextSeq[c] /\ (Terminal(reads[c]) => queue[c] # <<>>)

CompleteOK(c) ==
  /\ phase[c] \in {"flush", "complete"} => Terminal(reads[c])
  /\ phase[c] = "complete" => delivered[c] = buffer[reads[c]]

ClientOK(c) == PrefixOK(c) /\ QueueOK(c) /\ CompleteOK(c)

LEMMA ClientsOK ==
  DeliveredIsPrefix /\ QueueInv /\ CompleteMeansAll <=> \A c \in Conns : ClientOK(c)
BY DEF DeliveredIsPrefix, QueueInv, CompleteMeansAll, ClientOK, PrefixOK, QueueOK, CompleteOK

\* A connection nothing happened to, reading a log nothing happened to.
LEMMA ClientFrame ==
  ASSUME NEW c \in Conns, ClientOK(c),
         phase'[c] = phase[c], reads'[c] = reads[c], nextSeq'[c] = nextSeq[c],
         queue'[c] = queue[c], delivered'[c] = delivered[c],
         phase[c] \notin {"idle", "admitted"} =>
           buffer'[reads[c]] = buffer[reads[c]] /\ status'[reads[c]] = status[reads[c]]
  PROVE  ClientOK(c)'
BY DEF ClientOK, PrefixOK, QueueOK, CompleteOK, Pending, Terminal, Attached

\* What publishing does to the log and to a subscriber's queue.
LEMMA PublishFacts ==
  ASSUME TypeOK, NEW r \in Runs, NEW evs \in Seq(Events), NEW tail \in Seq(Items),
         Publish(r, evs, tail), NEW c \in Conns, c \in subscribers[r]
  PROVE  /\ Len(buffer'[r]) = Len(buffer[r]) + Len(evs)
         /\ \A i \in 1..Len(buffer[r]) : buffer'[r][i] = buffer[r][i]
         /\ \A i \in 1..Len(evs) : buffer'[r][Len(buffer[r]) + i] = evs[i]
         /\ Len(queue'[c]) = Len(queue[c]) + Len(evs) + Len(tail)
         /\ \A i \in 1..Len(queue[c]) : queue'[c][i] = queue[c][i]
         /\ \A i \in 1..Len(evs) :
              queue'[c][Len(queue[c]) + i] = <<Len(buffer[r]) + i - 1, evs[i]>>
         /\ \A i \in 1..Len(tail) : queue'[c][Len(queue[c]) + Len(evs) + i] = tail[i]
<1> DEFINE b == buffer[r]
           q == queue[c]
           f == [i \in 1..Len(evs) |-> <<Len(b) + i - 1, evs[i]>>]
<1>1. b \in Seq(Events) /\ q \in Seq(Items) /\ Len(b) \in Nat /\ Len(evs) \in Nat
  BY DEF TypeOK, RunTypes, ConnTypes
<1>2. f \in Seq(Items)
  <2>1. \A i \in 1..Len(evs) : <<Len(b) + i - 1, evs[i]>> \in Items
    BY <1>1 DEF Items
  <2> QED BY <1>1, <2>1
<1>12. Len(f) = Len(evs)
  BY <1>1
<1>3. buffer'[r] = b \o evs /\ queue'[c] = (q \o f) \o tail
  BY DEF Publish, TypeOK, RunTypes
<1> HIDE DEF b, q, f
<1>4. /\ Len(b \o evs) = Len(b) + Len(evs)
      /\ \A i \in 1..Len(b) : (b \o evs)[i] = b[i]
      /\ \A i \in 1..Len(evs) : (b \o evs)[Len(b) + i] = evs[i]
  BY <1>1
<1>5. /\ q \o f \in Seq(Items) /\ Len(q \o f) = Len(q) + Len(f)
      /\ \A i \in 1..Len(q) : (q \o f)[i] = q[i]
      /\ \A i \in 1..Len(f) : (q \o f)[Len(q) + i] = f[i]
  <2>1. q \in Seq(Items)
    BY <1>1
  <2> QED BY <1>2, <2>1
<1>6. /\ Len((q \o f) \o tail) = Len(q \o f) + Len(tail)
      /\ \A i \in 1..Len(q \o f) : ((q \o f) \o tail)[i] = (q \o f)[i]
      /\ \A i \in 1..Len(tail) : ((q \o f) \o tail)[Len(q \o f) + i] = tail[i]
  <2> DEFINE g == q \o f
  <2>1. g \in Seq(Items)
    BY <1>5
  <2> HIDE DEF g
  <2>2. /\ Len(g \o tail) = Len(g) + Len(tail)
        /\ \A i \in 1..Len(g) : (g \o tail)[i] = g[i]
        /\ \A i \in 1..Len(tail) : (g \o tail)[Len(g) + i] = tail[i]
    BY <2>1
  <2> QED BY <2>2 DEF g
<1>7. \A i \in 1..Len(evs) : f[i] = <<Len(b) + i - 1, evs[i]>>
  BY <1>1 DEF f
<1>8. Len(q) \in Nat /\ Len(tail) \in Nat
  BY <1>1
<1>9. \A i \in 1..Len(q) : ((q \o f) \o tail)[i] = q[i]
  BY <1>5, <1>6, <1>8, <1>1, <1>12
<1>10. \A i \in 1..Len(evs) : ((q \o f) \o tail)[Len(q) + i] = <<Len(b) + i - 1, evs[i]>>
  BY <1>1, <1>5, <1>6, <1>7, <1>8, <1>12
<1>13. \A i \in 1..Len(tail) : ((q \o f) \o tail)[Len(q) + Len(evs) + i] = tail[i]
  BY <1>5, <1>6, <1>12
<1>14. Len((q \o f) \o tail) = Len(q) + Len(evs) + Len(tail)
  BY <1>5, <1>6, <1>12
<1> QED
  BY <1>3, <1>4, <1>9, <1>10, <1>13, <1>14 DEF b, q

\* Publishing to a running run keeps every client consistent, whether the run
\* goes on (no sentinel) or ends with this step (a sentinel).
LEMMA ClientPublish ==
  ASSUME TypeOK, SubscribersInv, NEW c \in Conns, ClientOK(c),
         NEW r \in Runs, ~Terminal(r), NEW evs \in Seq(Events), NEW tail \in Seq(Items),
         Publish(r, evs, tail), UNCHANGED <<phase, reads, nextSeq, delivered>>,
         \A x \in Runs : x # r => status'[x] = status[x],
         \/ tail = <<>> /\ status'[r] = "running"
         \/ tail = <<Sentinel>> /\ status'[r] # "running"
  PROVE  ClientOK(c)'
<1>1. CASE c \notin subscribers[r]
  <2>1. queue'[c] = queue[c] /\ \A x \in Runs : x # r => buffer'[x] = buffer[x]
    BY <1>1 DEF Publish, TypeOK, RunTypes
  <2>2. phase[c] \notin {"idle", "admitted"} => reads[c] \in Runs /\ reads[c] # r
    BY <1>1 DEF SubscribersInv, ClientOK, CompleteOK, Attached, TypeOK, ConnTypes
  <2> QED BY <2>1, <2>2, ClientFrame
<1>2. CASE c \in subscribers[r]
  <2> DEFINE L == Len(buffer[r])
             k == Len(queue[c])
             n == Len(evs)
  <2>1. Attached(c) /\ reads[c] = r /\ reads'[c] = r /\ Attached(c)' /\ phase[c] # "complete"
    BY <1>2 DEF SubscribersInv, Attached
  <2>2. L \in Nat /\ k \in Nat /\ n \in Nat /\ nextSeq[c] \in Nat
    BY DEF TypeOK, RunTypes, ConnTypes
  <2>3. /\ Len(buffer'[r]) = L + n
        /\ \A i \in 1..L : buffer'[r][i] = buffer[r][i]
        /\ \A i \in 1..n : buffer'[r][L + i] = evs[i]
        /\ Len(queue'[c]) = k + n + Len(tail)
        /\ \A i \in 1..k : queue'[c][i] = queue[c][i]
        /\ \A i \in 1..n : queue'[c][k + i] = <<L + i - 1, evs[i]>>
        /\ \A i \in 1..Len(tail) : queue'[c][k + n + i] = tail[i]
    BY <1>2, PublishFacts
  <2>4. PrefixOK(c)'
    <3>1. nextSeq[c] = Len(delivered[c]) /\ nextSeq[c] <= L
          /\ \A i \in 1..Len(delivered[c]) : delivered[c][i] = buffer[r][i]
      BY <2>1 DEF ClientOK, PrefixOK
    <3> HIDE DEF L, n, k
    <3>2. \A i \in 1..Len(delivered[c]) : delivered[c][i] = buffer'[r][i]
      <4> SUFFICES ASSUME NEW i \in 1..Len(delivered[c]) PROVE delivered[c][i] = buffer'[r][i]
        OBVIOUS
      <4>1. i \in 1..L
        BY <2>2, <3>1
      <4> QED BY <2>3, <3>1, <4>1
    <3>3. nextSeq[c] <= Len(buffer'[r])
      BY <2>2, <2>3, <3>1
    <3> QED BY <2>1, <3>1, <3>2, <3>3 DEF PrefixOK
  <2>5. QueueOK(c)'
    <3> SUFFICES ASSUME phase[c] \in {"replay", "live"} PROVE QueueOK(c)'
      BY DEF QueueOK
    <3>1. Pending(c) = k
      BY <2>1 DEF Pending
    <3>6. k <= L
      BY <2>1, <3>1 DEF ClientOK, QueueOK
    <3>2. /\ phase[c] = "live" => L - k <= nextSeq[c]
          /\ \A i \in 1..k : queue[c][i] = <<L - k + i - 1, buffer[r][L - k + i]>>
      BY <2>1, <3>1 DEF ClientOK, QueueOK
    <3> HIDE DEF L, n, k
    <3>3. Pending(c)' = k + n /\ (queue'[c] # <<>> /\ Terminal(r)' => queue'[c][Len(queue'[c])] = Sentinel)
          /\ (Terminal(r)' => queue'[c] # <<>>)
      <4>1. CASE tail = <<>> /\ status'[r] = "running"
        BY <2>1, <2>2, <2>3, <4>1 DEF Pending, Terminal
      <4>2. CASE tail = <<Sentinel>> /\ status'[r] # "running"
        <5>1. Len(queue'[c]) = k + n + 1 /\ queue'[c][k + n + 1] = Sentinel
          BY <2>2, <2>3, <4>2
        <5>2. queue'[c] # <<>>
          BY <2>2, <5>1
        <5> QED BY <2>1, <2>2, <4>2, <5>1, <5>2 DEF Pending, Terminal
      <4> QED BY <4>1, <4>2
    <3>4. \A i \in 1..(k + n) : queue'[c][i] = <<L - k + i - 1, buffer'[r][L - k + i]>>
      <4> SUFFICES ASSUME NEW i \in 1..(k + n)
                   PROVE queue'[c][i] = <<L - k + i - 1, buffer'[r][L - k + i]>>
        OBVIOUS
      <4>1. CASE i <= k
        <5>1. i \in 1..k /\ L - k + i \in 1..L
          BY <2>2, <3>6, <4>1
        <5> QED BY <2>3, <3>2, <5>1
      <4>2. CASE i > k
        <5> DEFINE j == i - k
        <5>1. j \in 1..n /\ i = k + j /\ L - k + i = L + j
          BY <2>2, <4>2
        <5> HIDE DEF j
        <5>2. queue'[c][k + j] = <<L + j - 1, evs[j]>> /\ buffer'[r][L + j] = evs[j]
          BY <2>3, <5>1
        <5>3. L - k + i - 1 = L + j - 1
          BY <2>2, <5>1
        <5> QED BY <5>1, <5>2, <5>3
      <4> QED BY <2>2, <4>1, <4>2
    <3>7. Len(buffer'[r]) = L + n
      BY <2>3
    <3>5. Len(buffer'[r]) - (k + n) = L - k /\ k + n <= Len(buffer'[r])
      BY <2>2, <3>6, <3>7
    <3>8. phase'[c] = phase[c] /\ nextSeq'[c] = nextSeq[c] /\ reads'[c] = r
      BY <2>1
    <3> QED BY <3>2, <3>3, <3>4, <3>5, <3>8 DEF QueueOK
  <2> QED BY <2>1, <2>4, <2>5 DEF ClientOK, CompleteOK
<1> QED BY <1>1, <1>2

\* A client that holds nothing.
LEMMA ClientReset ==
  ASSUME NEW c \in Conns, phase'[c] \in {"idle", "admitted"}
  PROVE  ClientOK(c)'
BY DEF ClientOK, PrefixOK, QueueOK, CompleteOK, Attached

\* subscribe() yields the next event of the log.
LEMMA PrefixGrows ==
  ASSUME TypeOK, SubscribersInv, NEW c \in Conns, Attached(c), PrefixOK(c),
         NEW s \in Nat, s = nextSeq[c], s < Len(buffer[reads[c]]), NEW p,
         Deliver(c, s, buffer[reads[c]][s + 1], p)
  PROVE  PrefixOK(c)'
<1> DEFINE d == delivered[c]
           b == buffer[reads[c]]
<1>1. reads[c] \in Runs
  BY DEF SubscribersInv
<1>2. d \in Seq(Events) /\ b \in Seq(Events)
  BY <1>1 DEF TypeOK, RunTypes, ConnTypes
<1>3. b[s + 1] \in Events
  BY <1>2
<1>4. delivered'[c] = Append(d, b[s + 1]) /\ nextSeq'[c] = s + 1
      /\ buffer' = buffer /\ reads' = reads
  BY DEF Deliver, TypeOK, ConnTypes, runVars
<1>5. s = Len(d) /\ \A i \in 1..Len(d) : d[i] = b[i]
  BY DEF PrefixOK
<1> HIDE DEF d, b
<1>6. Len(Append(d, b[s + 1])) = Len(d) + 1
      /\ \A i \in 1..(Len(d) + 1) :
           Append(d, b[s + 1])[i] = IF i = Len(d) + 1 THEN b[s + 1] ELSE d[i]
  BY <1>2, <1>3
<1>7. \A i \in 1..(Len(d) + 1) : Append(d, b[s + 1])[i] = b[i]
  BY <1>2, <1>5, <1>6
<1>8. s + 1 <= Len(b)
  BY <1>2 DEF b
<1>9. buffer'[reads'[c]] = b
  BY <1>4 DEF b
<1>10. /\ nextSeq'[c] = Len(delivered'[c]) /\ nextSeq'[c] <= Len(buffer'[reads'[c]])
       /\ \A i \in 1..Len(delivered'[c]) : delivered'[c][i] = buffer'[reads'[c]][i]
  BY <1>4, <1>5, <1>6, <1>7, <1>8, <1>9
<1> QED BY <1>10 DEF PrefixOK

\* A client that has received as many events as the log holds has the log.
LEMMA PrefixWhole ==
  ASSUME TypeOK, SubscribersInv, NEW c \in Conns, Attached(c), PrefixOK(c),
         ~(nextSeq[c] < Len(buffer[reads[c]]))
  PROVE  delivered[c] = buffer[reads[c]] /\ nextSeq[c] = Len(buffer[reads[c]])
<1>1. reads[c] \in Runs
  BY DEF SubscribersInv
<1>2. delivered[c] \in Seq(Events) /\ buffer[reads[c]] \in Seq(Events) /\ nextSeq[c] \in Nat
  BY <1>1 DEF TypeOK, RunTypes, ConnTypes
<1>3. nextSeq[c] = Len(buffer[reads[c]]) /\ Len(delivered[c]) = Len(buffer[reads[c]])
  BY <1>2 DEF PrefixOK
<1> QED BY <1>2, <1>3 DEF PrefixOK

\* What a waiting client finds at the head of its queue.
LEMMA HeadFacts ==
  ASSUME TypeOK, SubscribersInv, NEW c \in Conns, ClientOK(c), phase[c] = "live", queue[c] # <<>>
  PROVE  /\ Head(queue[c]) = Sentinel => Terminal(reads[c])
         /\ Head(queue[c]) # Sentinel =>
              LET first == Len(buffer[reads[c]]) - Pending(c) IN
              /\ Pending(c) > 0 /\ first < Len(buffer[reads[c]])
              /\ Head(queue[c]) = <<first, buffer[reads[c]][first + 1]>>
<1>1. reads[c] \in Runs
  BY DEF SubscribersInv, Attached
<1>2. queue[c] \in Seq(Items) /\ Len(buffer[reads[c]]) \in Nat
  BY <1>1 DEF TypeOK, RunTypes, ConnTypes
<1>3. Len(queue[c]) \in Nat /\ Len(queue[c]) > 0 /\ Head(queue[c]) = queue[c][1]
  BY <1>2
<1>4. Pending(c) \in Nat
  BY <1>3 DEF Pending
<1>5. CASE Pending(c) = 0
  <2>1. Terminal(reads[c]) /\ Len(queue[c]) = 1
    BY <1>3, <1>5 DEF Pending
  <2> QED BY <1>3, <2>1 DEF ClientOK, QueueOK
<1>6. CASE Pending(c) > 0
  <2> DEFINE first == Len(buffer[reads[c]]) - Pending(c)
  <2>1. 1 \in 1..Pending(c)
    BY <1>4, <1>6
  <2>2. queue[c][1] = <<first + 1 - 1, buffer[reads[c]][first + 1]>> /\ Pending(c) <= Len(buffer[reads[c]])
    BY <2>1 DEF ClientOK, QueueOK
  <2>3. first + 1 - 1 = first /\ first < Len(buffer[reads[c]])
    BY <1>2, <1>4, <1>6
  <2>4. queue[c][1] # Sentinel
    BY <2>2 DEF Sentinel
  <2> QED BY <1>3, <1>6, <2>2, <2>3, <2>4
<1> QED BY <1>4, <1>5, <1>6

\* A step of a connection's own subscribe() generator keeps it consistent.
LEMMA ClientStep ==
  ASSUME TypeOK, SubscribersInv, NEW c \in Conns, ClientOK(c), ReaderStep(c)
  PROVE  ClientOK(c)'
<1> USE RunsAreNat
<1>1. UNCHANGED <<buffer, status>>
  BY DEF ReaderStep, Subscribe, Replay, FlushMore, TakeEvent, TakeSentinel, TakeTimeout, Flush,
         Deliver, Complete, Leave, runVars
<1>2. ASSUME Attached(c), Complete(c), Terminal(reads[c]), ~(nextSeq[c] < Len(buffer[reads[c]]))
      PROVE  ClientOK(c)'
  <2>1. phase'[c] = "complete" /\ reads'[c] = reads[c] /\ delivered'[c] = delivered[c]
    BY <1>2 DEF Complete, TypeOK, ConnTypes
  <2>2. delivered[c] = buffer[reads[c]]
    BY <1>2, PrefixWhole DEF ClientOK
  <2>3. buffer'[reads'[c]] = buffer[reads[c]] /\ status'[reads'[c]] = status[reads[c]]
    BY <1>1, <2>1
  <2>4. PrefixOK(c)' /\ QueueOK(c)'
    BY <2>1 DEF PrefixOK, QueueOK, Attached
  <2>5. CompleteOK(c)'
    BY <1>2, <2>1, <2>2, <2>3 DEF CompleteOK, Terminal
  <2> QED BY <2>4, <2>5 DEF ClientOK
<1>3. ASSUME Attached(c), Flush(c), Terminal(reads[c]) PROVE ClientOK(c)'
  <2>1. nextSeq[c] \in Nat
    BY DEF TypeOK, ConnTypes
  <2>2. CASE nextSeq[c] < Len(buffer[reads[c]])
    <3>1. Deliver(c, nextSeq[c], buffer[reads[c]][nextSeq[c] + 1], "flush")
      BY <1>3, <2>2 DEF Flush
    <3>2. PrefixOK(c)'
      BY <1>3, <2>1, <2>2, <3>1, PrefixGrows DEF ClientOK
    <3>3. phase'[c] = "flush" /\ reads'[c] = reads[c]
      BY <3>1 DEF Deliver, TypeOK, ConnTypes
    <3> QED BY <1>1, <1>3, <3>2, <3>3 DEF ClientOK, QueueOK, CompleteOK, Terminal
  <2>3. CASE ~(nextSeq[c] < Len(buffer[reads[c]]))
    BY <1>2, <1>3, <2>3 DEF Flush
  <2> QED BY <2>2, <2>3
<1>4. CASE Replay(c)
  <2>1. Attached(c) /\ phase[c] = "replay" /\ reads[c] \in Runs
    BY <1>4 DEF Replay, Attached, SubscribersInv
  <2>2. nextSeq[c] \in Nat /\ Len(buffer[reads[c]]) \in Nat
    BY <2>1 DEF TypeOK, RunTypes, ConnTypes
  <2>3. CASE nextSeq[c] < Len(buffer[reads[c]])
    <3>1. Deliver(c, nextSeq[c], buffer[reads[c]][nextSeq[c] + 1], "replay") /\ UNCHANGED queue
      BY <1>4, <2>2, <2>3 DEF Replay
    <3>2. PrefixOK(c)'
      BY <2>1, <2>2, <2>3, <3>1, PrefixGrows DEF ClientOK
    <3>3. phase'[c] = "replay" /\ reads'[c] = reads[c]
      BY <3>1 DEF Deliver, TypeOK, ConnTypes
    <3> QED BY <1>1, <2>1, <3>1, <3>2, <3>3
         DEF ClientOK, QueueOK, CompleteOK, Pending, Terminal
  <2>4. CASE ~(nextSeq[c] < Len(buffer[reads[c]])) /\ Terminal(reads[c])
    BY <1>2, <1>4, <2>1, <2>2, <2>4 DEF Replay
  <2>5. CASE ~(nextSeq[c] < Len(buffer[reads[c]])) /\ ~Terminal(reads[c])
    <3>1. phase'[c] = "live" /\ UNCHANGED <<reads, nextSeq, queue, delivered>>
      BY <1>4, <2>2, <2>5 DEF Replay, TypeOK, ConnTypes
    <3>2. Pending(c) = Len(queue[c]) /\ Pending(c) \in Nat /\ Pending(c)' = Pending(c)
      BY <1>1, <2>5, <3>1 DEF Pending, TypeOK, ConnTypes, Terminal
    <3>3. nextSeq[c] >= Len(buffer[reads[c]]) - Pending(c)
      <4>1. Pending(c) \in Nat
        BY <3>2
      <4> QED BY <2>2, <2>5, <4>1
    <3>4. PrefixOK(c)'
      BY <1>1, <2>1, <3>1 DEF ClientOK, PrefixOK, Attached
    <3>5. QueueOK(c)'
      BY <1>1, <2>1, <2>2, <2>5, <3>1, <3>2, <3>3 DEF ClientOK, QueueOK, Terminal
    <3> QED BY <3>1, <3>4, <3>5 DEF ClientOK, CompleteOK
  <2> QED BY <2>3, <2>4, <2>5
<1>5. CASE Subscribe(c)
  <2>1. CASE Reset(c, "idle")
    BY <2>1, ClientReset DEF Reset, TypeOK, ConnTypes
  <2>2. ASSUME NEW p \in {"replay", "live", "complete"}, NEW evs \in Seq(Events), current # None,
               Attach(c, p, evs), Len(evs) <= Len(buffer[current]),
               \A i \in 1..Len(evs) : evs[i] = buffer[current][i],
               p # "replay" => evs = <<>> /\ buffer[current] = <<>>,
               p = "live" => ~Terminal(current), p = "complete" => Terminal(current)
        PROVE  ClientOK(c)'
    <3>1. /\ phase'[c] = p /\ reads'[c] = current /\ nextSeq'[c] = Len(evs)
          /\ queue'[c] = <<>> /\ delivered'[c] = evs
      BY <2>2 DEF Attach, TypeOK, ConnTypes
    <3>2. Len(buffer[current]) \in Nat /\ Len(evs) \in Nat
      BY <2>2 DEF TypeOK, RunTypes
    <3>3. PrefixOK(c)'
      BY <1>1, <2>2, <3>1 DEF PrefixOK
    <3>4. Pending(c)' = 0
      BY <3>1 DEF Pending
    <3>5. QueueOK(c)'
      BY <1>1, <2>2, <3>1, <3>2, <3>4 DEF QueueOK, Terminal
    <3> QED BY <1>1, <2>2, <3>1, <3>3, <3>5 DEF ClientOK, CompleteOK, Terminal
  <2>3. CASE current # None /\ buffer[current] # <<>>
             /\ Attach(c, "replay", <<buffer[current][1]>>)
    <3>1. buffer[current] \in Seq(Events) /\ buffer[current] # <<>>
      BY <2>3 DEF TypeOK, RunTypes
    <3> DEFINE evs == <<buffer[current][1]>>
    <3>2. evs \in Seq(Events) /\ 1 <= Len(buffer[current])
      BY <3>1
    <3>3. Len(evs) <= Len(buffer[current]) /\ \A i \in 1..Len(evs) : evs[i] = buffer[current][i]
      BY <3>2
    <3>4. Attach(c, "replay", evs)
      BY <2>3
    <3> HIDE DEF evs
    <3> QED BY <2>2, <2>3, <3>2, <3>3, <3>4
  <2>4. ASSUME NEW p \in {"live", "complete"}, current # None, buffer[current] = <<>>,
               Attach(c, p, <<>>), p = "complete" <=> Terminal(current)
        PROVE  ClientOK(c)'
    <3>1. Len(<<>>) <= Len(buffer[current]) /\ 1..Len(<<>>) = {}
      BY <2>4
    <3> QED BY <2>2, <2>4, <3>1, EmptySeq
  <2> QED BY <1>5, <2>1, <2>3, <2>4 DEF Subscribe
<1>6. CASE FlushMore(c)
  BY <1>3, <1>6 DEF FlushMore, ClientOK, CompleteOK, Attached
<1>7. CASE TakeTimeout(c)
  BY <1>3, <1>7 DEF TakeTimeout, Attached
<1>9. CASE TakeSentinel(c)
  BY <1>3, <1>9, HeadFacts DEF TakeSentinel, Attached
<1>10. CASE TakeEvent(c)
  <2> DEFINE b == buffer[reads[c]]
             first == Len(b) - Pending(c)
  <2>1. Attached(c) /\ phase[c] = "live" /\ queue[c] # <<>> /\ reads[c] \in Runs
    BY <1>10 DEF TakeEvent, Attached, SubscribersInv
  <2>2. queue[c] \in Seq(Items) /\ Len(b) \in Nat /\ nextSeq[c] \in Nat
    BY <2>1 DEF TypeOK, RunTypes, ConnTypes
  <2>3. /\ Pending(c) > 0 /\ first < Len(b) /\ Head(queue[c]) = <<first, b[first + 1]>>
    BY <1>10, <2>1, HeadFacts DEF TakeEvent
  <2>4. first <= nextSeq[c] /\ Pending(c) <= Len(b)
    BY <2>1 DEF ClientOK, QueueOK
  <2>5. queue'[c] = Tail(queue[c]) /\ reads'[c] = reads[c] /\ phase'[c] = "live"
    BY <1>10, <2>1 DEF TakeEvent, Deliver, TypeOK, ConnTypes
  <2>6. Len(queue[c]) \in Nat /\ Pending(c) \in Nat
        /\ (~Terminal(reads[c]) => Pending(c) = Len(queue[c]))
        /\ (Terminal(reads[c]) => Pending(c) = Len(queue[c]) - 1)
    <3>1. Len(queue[c]) \in Nat /\ Len(queue[c]) > 0
      BY <2>1, <2>2
    <3> QED BY <2>1, <3>1 DEF Pending
  <2>7. first \in Nat
    BY <2>2, <2>4, <2>6
  <2>8. PrefixOK(c)' /\ first < nextSeq'[c]
    <3>1. CASE first = nextSeq[c]
      <4>1. Deliver(c, first, b[first + 1], "live")
        BY <1>10, <2>2, <2>3, <3>1 DEF TakeEvent
      <4>2. nextSeq'[c] = first + 1
        BY <4>1 DEF Deliver, TypeOK, ConnTypes
      <4>3. PrefixOK(c)'
        BY <2>1, <2>3, <2>7, <3>1, <4>1, PrefixGrows DEF ClientOK
      <4> HIDE DEF first
      <4> QED BY <2>7, <4>2, <4>3
    <3>2. CASE first # nextSeq[c]
      <4>1. UNCHANGED <<nextSeq, delivered>>
        BY <1>10, <2>2, <2>3, <2>4, <2>7, <3>2 DEF TakeEvent
      <4>2. first < nextSeq[c]
        BY <2>2, <2>4, <2>7, <3>2
      <4> QED BY <1>1, <2>1, <2>5, <4>1, <4>2 DEF ClientOK, PrefixOK
    <3> QED BY <3>1, <3>2
  <2>9. QueueOK(c)'
    <3>1. Len(Tail(queue[c])) = Len(queue[c]) - 1
          /\ \A i \in 1..(Len(queue[c]) - 1) : Tail(queue[c])[i] = queue[c][i + 1]
      BY <2>1, <2>2
    <3>2. Pending(c)' = Pending(c) - 1 /\ (Terminal(reads[c]) => queue'[c] # <<>>)
      <4>1. CASE Terminal(reads[c])
        <5>1. Len(queue'[c]) = Len(queue[c]) - 1 /\ Len(queue[c]) > 1
          BY <2>3, <2>5, <2>6, <3>1, <4>1
        <5>3. Len(queue'[c]) > 0
          BY <2>6, <5>1
        <5>2. queue'[c] # <<>>
          BY <5>3
        <5> QED BY <1>1, <2>5, <2>6, <4>1, <5>1, <5>2 DEF Pending, Terminal
      <4>2. CASE ~Terminal(reads[c])
        BY <1>1, <2>5, <2>6, <3>1, <4>2 DEF Pending, Terminal
      <4> QED BY <4>1, <4>2
    <3>3. \A i \in 1..(Pending(c) - 1) :
            queue'[c][i] = <<first + 1 + i - 1, b[first + 1 + i]>>
      <4> SUFFICES ASSUME NEW i \in 1..(Pending(c) - 1)
                   PROVE  queue'[c][i] = <<first + 1 + i - 1, b[first + 1 + i]>>
        OBVIOUS
      <4>1. i + 1 \in 1..Pending(c) /\ i \in 1..(Len(queue[c]) - 1)
        BY <2>6
      <4>2. queue'[c][i] = queue[c][i + 1]
        BY <2>5, <3>1, <4>1
      <4>3. queue[c][i + 1] = <<first + (i + 1) - 1, b[first + (i + 1)]>>
        BY <2>1, <4>1 DEF ClientOK, QueueOK
      <4>5. i \in Nat
        BY <2>6
      <4> HIDE DEF first
      <4>4. first + (i + 1) = first + 1 + i
        BY <2>7, <4>5
      <4> QED BY <2>7, <4>2, <4>3, <4>4, <4>5
    <3>4. Terminal(reads[c]) => queue'[c][Len(queue'[c])] = Sentinel
      <4> SUFFICES ASSUME Terminal(reads[c]) PROVE queue'[c][Len(queue'[c])] = Sentinel
        OBVIOUS
      <4>1. Len(queue'[c]) = Len(queue[c]) - 1 /\ Len(queue[c]) - 1 \in 1..(Len(queue[c]) - 1)
        BY <2>3, <2>5, <2>6, <3>1
      <4>2. queue'[c][Len(queue'[c])] = queue[c][Len(queue[c])]
        BY <2>5, <2>6, <3>1, <4>1
      <4> QED BY <2>1, <4>2 DEF ClientOK, QueueOK
    <3>5. Len(b) - Pending(c)' = first + 1 /\ Pending(c)' <= Len(b)
      BY <2>2, <2>4, <2>6, <3>2
    <3>6. first + 1 <= nextSeq'[c]
      <4>1. nextSeq'[c] = nextSeq[c] \/ nextSeq'[c] = first + 1
        BY <1>10, <2>3 DEF TakeEvent, Deliver, TypeOK, ConnTypes
      <4> QED BY <2>2, <2>7, <2>8, <4>1
    <3> QED BY <1>1, <2>5, <3>2, <3>3, <3>4, <3>5, <3>6 DEF QueueOK, Terminal
  <2> QED BY <2>5, <2>8, <2>9 DEF ClientOK, CompleteOK
<1> QED
  BY <1>4, <1>5, <1>6, <1>7, <1>9, <1>10 DEF ReaderStep

LEMMA ClientsNext ==
  TypeOK /\ TaskInv /\ SubscribersInv /\ (\A c \in Conns : ClientOK(c)) /\ [Next]_vars
    => \A c \in Conns : ClientOK(c)'
<1> SUFFICES ASSUME TypeOK, TaskInv, SubscribersInv, \A c \in Conns : ClientOK(c), [Next]_vars,
                    NEW d \in Conns
             PROVE  ClientOK(d)'
  OBVIOUS
<1> USE RunsAreNat, EmptySeq
<1>1. ASSUME UNCHANGED <<buffer, status, phase, reads, nextSeq, queue, delivered>> PROVE ClientOK(d)'
  BY <1>1, ClientFrame
<1>2. CASE Stop \/ UNCHANGED vars
  BY <1>1, <1>2 DEF Stop, vars, runVars, connVars
<1>3. ASSUME NEW t \in Runs, TaskStep(t) PROVE ClientOK(d)'
  <2>1. CASE CancelUnstarted(t) \/ FirstStep(t) \/ PrevEnded(t) \/ DeliverCancel(t)
    BY <1>1, <2>1 DEF CancelUnstarted, FirstStep, PrevEnded, DeliverCancel, runVars, connVars
  <2>2. ASSUME NEW save, Chunk(t, save) PROVE ClientOK(d)'
    <3>1. into[t] = t /\ status[t] = "running" /\ status' = status
          /\ UNCHANGED <<phase, reads, nextSeq, delivered>>
      BY <2>2 DEF TaskInv, Chunk
    <3>2. << <<t, "chunk", produced[t] + 1>> >> \in Seq(Events)
      BY DEF TypeOK, TaskTypes, Events
    <3>3. Publish(t, << <<t, "chunk", produced[t] + 1>> >>, <<>>)
      BY <2>2, <3>1 DEF Chunk
    <3> QED BY <3>1, <3>2, <3>3, ClientPublish DEF Terminal
  <2>3. ASSUME NEW st \in {"done", "error", "stopped"}, NEW evs \in Seq(Events),
               pc[t] \in {"draining", "unwinding"}, EndDrain(t, st, evs)
        PROVE  ClientOK(d)'
    <3>1. into[t] = t /\ status[t] = "running"
      BY <2>3 DEF TaskInv
    <3>2. status' = [status EXCEPT ![t] = st]
      BY <2>3, <3>1 DEF EndDrain
    <3>3. status'[t] = st /\ \A x \in Runs : x # t => status'[x] = status[x]
      BY <3>2 DEF TypeOK, RunTypes
    <3>4. Publish(t, evs, <<Sentinel>>) /\ UNCHANGED <<phase, reads, nextSeq, delivered>>
      BY <2>3, <3>1 DEF EndDrain
    <3>5. <<Sentinel>> \in Seq(Items)
      BY DEF Sentinel, Items
    <3> QED BY <3>1, <3>3, <3>4, <3>5, ClientPublish DEF Terminal
  <2>4. CASE DrainDone(t) \/ Unwound(t)
    BY <2>3, <2>4 DEF DrainDone, Unwound
  <2>5. CASE DrainError(t)
    <3>1. << <<t, "error", 0>>, <<t, "done", 0>> >> \in Seq(Events)
      BY DEF Events
    <3> QED BY <2>3, <2>5, <3>1 DEF DrainError
  <2> QED
    BY <1>3, <2>1, <2>2, <2>4, <2>5 DEF TaskStep, DrainChunk, DrainFinalSave
<1>4. ASSUME NEW r \in Runs, EvictFire(r) PROVE ClientOK(d)'
  BY <1>1, <1>4 DEF EvictFire, connVars
<1>5. ASSUME NEW c \in Conns, d # c, Start(c) \/ Resume(c) \/ ReaderStep(c) \/ Disconnect(c)
      PROVE  ClientOK(d)'
  <2>1. UNCHANGED <<buffer, status>>
    BY <1>5 DEF Start, Resume, Disconnect, ReaderStep, Subscribe, Replay, FlushMore, TakeEvent,
                TakeSentinel, TakeTimeout, Flush, Deliver, Complete, Leave, runVars
  <2>2. phase'[d] = phase[d] /\ reads'[d] = reads[d]
    BY <1>5 DEF Start, Resume, Disconnect, ReaderStep, Subscribe, Replay, FlushMore, TakeEvent,
                TakeSentinel, TakeTimeout, Flush, Deliver, Complete, Reset, Attach, TypeOK, ConnTypes
  <2>3. nextSeq'[d] = nextSeq[d] /\ queue'[d] = queue[d] /\ delivered'[d] = delivered[d]
    BY <1>5 DEF Start, Resume, Disconnect, ReaderStep, Subscribe, Replay, FlushMore, TakeEvent,
                TakeSentinel, TakeTimeout, Flush, Deliver, Complete, Reset, Attach, TypeOK, ConnTypes
  <2> QED BY <2>1, <2>2, <2>3, ClientFrame
<1>6. CASE Start(d) \/ Resume(d) \/ Disconnect(d)
  <2>1. phase'[d] \in {"idle", "admitted"}
    BY <1>6 DEF Start, Resume, Disconnect, Reset, TypeOK, ConnTypes
  <2> QED BY <2>1, ClientReset
<1>7. CASE ReaderStep(d)
  BY <1>7, ClientStep
<1> QED
  BY <1>2, <1>3, <1>4, <1>5, <1>6, <1>7 DEF Next

(***************************************************************************)
(* The theorems.                                                           *)
(***************************************************************************)

\* The inductive invariant holds: it is true initially and every step keeps it.
THEOREM Inductive == Spec => []IndInv
<1>1. Init => IndInv
  <2> SUFFICES ASSUME Init PROVE IndInv
    OBVIOUS
  <2>1. TypeOK
    BY TypeInit
  <2>2. TaskInv /\ SubscribersInv
    BY DEF Init, TaskInv, SubscribersInv, Attached
  <2>3. \A c \in Conns : ClientOK(c)
    BY DEF Init, ClientOK, PrefixOK, QueueOK, CompleteOK, Attached
  <2> QED BY <2>1, <2>2, <2>3, ClientsOK DEF IndInv
<1>2. IndInv /\ [Next]_vars => IndInv'
  <2> SUFFICES ASSUME IndInv, [Next]_vars PROVE IndInv'
    OBVIOUS
  <2>1. TypeOK' /\ TaskInv' /\ SubscribersInv'
    BY TypeNext, TaskNext, SubscribersNext DEF IndInv
  <2>2. \A c \in Conns : ClientOK(c)'
    BY ClientsOK, ClientsNext DEF IndInv
  <2>3. DeliveredIsPrefix' /\ QueueInv' /\ CompleteMeansAll'
    BY <2>2 DEF DeliveredIsPrefix, QueueInv, CompleteMeansAll, ClientOK, PrefixOK, QueueOK, CompleteOK
  <2> QED BY <2>1, <2>3 DEF IndInv
<1> QED BY <1>1, <1>2, PTL DEF Spec

\* Every variable keeps its type.
THEOREM TypeCorrect == Spec => []TypeOK
BY Inductive, PTL DEF IndInv

\* Every connected client has received exactly a prefix of its run's log.
THEOREM NoEventLost == Spec => []DeliveredIsPrefix
BY Inductive, PTL DEF IndInv

\* A stream that ended by itself showed its client the whole log of a run that
\* is over.
THEOREM StreamsAreWhole == Spec => []CompleteMeansAll
BY Inductive, PTL DEF IndInv

\* No client is left waiting on a run that is over without its sentinel.
THEOREM NoLostWakeup == Spec => []WaitingHasSentinel
<1>1. IndInv => WaitingHasSentinel
  <2> SUFFICES ASSUME IndInv, NEW c \in Conns, phase[c] = "live", Terminal(reads[c])
               PROVE  \E i \in 1..Len(queue[c]) : queue[c][i] = Sentinel
    BY DEF WaitingHasSentinel
  <2>1. queue[c] # <<>> /\ queue[c][Len(queue[c])] = Sentinel
    BY DEF IndInv, QueueInv
  <2>2. Len(queue[c]) \in 1..Len(queue[c])
    BY <2>1 DEF IndInv, TypeOK, ConnTypes
  <2> QED BY <2>1, <2>2
<1> QED BY <1>1, Inductive, PTL

\* A drain task writes into its own run, and only the current run's task may
\* pull events from its generator.
THEOREM OneWriter == Spec => [](DrainsOwnRun /\ OnlyCurrentDrains)
<1>1. IndInv => DrainsOwnRun /\ OnlyCurrentDrains
  BY DEF IndInv, TaskInv, DrainsOwnRun, OnlyCurrentDrains
<1> QED BY <1>1, Inductive, PTL

(***************************************************************************)
(* Refinement of ReplayLog, and what never changes.                        *)
(***************************************************************************)
closedBar == [r \in Runs |-> Terminal(r)]
overBar   == [c \in Conns |-> phase[c] = "complete"]

\* Moving one connection to another phase tells at most its reader that the
\* stream is over.
LEMMA OverMoves ==
  ASSUME TypeOK, NEW c \in Conns, NEW p, phase' = [phase EXCEPT ![c] = p]
  PROVE  /\ p = "complete" => overBar' = [overBar EXCEPT ![c] = TRUE]
         /\ p # "complete" => overBar' = [overBar EXCEPT ![c] = FALSE]
<1>1. phase'[c] = p /\ \A d \in Conns : d # c => phase'[d] = phase[d]
  BY DEF TypeOK, ConnTypes
<1>2. CASE p = "complete"
  BY <1>1, <1>2 DEF overBar
<1>3. CASE p # "complete"
  BY <1>1, <1>3 DEF overBar
<1> QED BY <1>2, <1>3

\* A connection that is reset detaches its reader.
LEMMA RefineReset ==
  ASSUME TypeOK, NEW c \in Conns, NEW p \in {"idle", "admitted"}, Reset(c, p),
         UNCHANGED <<buffer, status>>
  PROVE  Promise!Detach(c)
<1>1. overBar' = [overBar EXCEPT ![c] = FALSE]
  BY OverMoves DEF Reset
<1>2. closedBar' = closedBar
  BY DEF closedBar, Terminal
<1> QED BY <1>1, <1>2 DEF Promise!Detach, Reset, overBar, closedBar

\* The log of the run a task drains grows, or closes, or both.
LEMMA RefineExtend ==
  ASSUME TypeOK, NEW t \in Runs, ~Terminal(t), NEW evs \in Seq(Events), NEW tail,
         Publish(t, evs, tail), UNCHANGED <<phase, reads, delivered>>,
         NEW st, status' = [status EXCEPT ![t] = st]
  PROVE  Promise!Extend(t)
<1>1. buffer[t] \in Seq(Events) /\ buffer' = [buffer EXCEPT ![t] = buffer[t] \o evs]
  BY DEF TypeOK, RunTypes, Publish
<1>2. buffer'[t] = buffer[t] \o evs
  BY <1>1 DEF TypeOK, RunTypes
<1>3. Promise!Prefix(buffer[t], buffer'[t])
  BY <1>1, <1>2 DEF Promise!Prefix
<1>4. closedBar' = closedBar \/ closedBar' = [closedBar EXCEPT ![t] = TRUE]
  <2>1. \A r \in Runs : r # t => status'[r] = status[r]
    BY DEF TypeOK, RunTypes
  <2>2. CASE status'[t] = "running"
    BY <2>1, <2>2 DEF closedBar, Terminal
  <2>3. CASE status'[t] # "running"
    BY <2>1, <2>3 DEF closedBar, Terminal
  <2> QED BY <2>2, <2>3
<1>5. overBar' = overBar
  BY DEF overBar
<1>6. closedBar[t] = FALSE
  BY DEF closedBar
<1> QED BY <1>1, <1>2, <1>3, <1>4, <1>5, <1>6 DEF Promise!Extend, closedBar, overBar

\* A connection's step attaches, receives, ends or detaches its reader.
LEMMA RefineReader ==
  ASSUME IndInv, NEW c \in Conns, Resume(c) \/ ReaderStep(c) \/ Disconnect(c)
  PROVE  Promise!Next \/ UNCHANGED Promise!lvars
<1> USE RunsAreNat
<1>0. TypeOK /\ SubscribersInv /\ ClientOK(c)
  BY ClientsOK DEF IndInv
<1>1. UNCHANGED <<buffer, status>> /\ closedBar' = closedBar
  BY DEF Resume, Disconnect, ReaderStep, Subscribe, Replay, FlushMore, TakeEvent, TakeSentinel,
         TakeTimeout, Flush, Deliver, Complete, Leave, runVars, closedBar, Terminal
<1>2. ASSUME NEW p \in {"idle", "admitted"}, Reset(c, p) PROVE Promise!Detach(c)
  BY <1>0, <1>1, <1>2, RefineReset
<1>3. ASSUME Attached(c), NEW s \in Nat, s = nextSeq[c], s < Len(buffer[reads[c]]),
             NEW p \in {"replay", "live", "flush"}, Deliver(c, s, buffer[reads[c]][s + 1], p)
      PROVE  Promise!Receive(c)
  <2>1. overBar' = overBar /\ ~overBar[c]
    BY <1>0, <1>3 DEF Deliver, overBar, Attached, TypeOK, ConnTypes
  <2>2. reads[c] # None /\ s = Len(delivered[c])
    BY <1>0, <1>3 DEF SubscribersInv, ClientOK, PrefixOK
  <2> QED BY <1>1, <1>3, <2>1, <2>2 DEF Promise!Receive, Deliver, overBar, closedBar
<1>4. ASSUME Attached(c), Complete(c), Terminal(reads[c]), ~(nextSeq[c] < Len(buffer[reads[c]]))
      PROVE  Promise!EndOfStream(c)
  <2>1. reads[c] \in Runs /\ delivered[c] = buffer[reads[c]]
    BY <1>0, <1>4, PrefixWhole DEF SubscribersInv, ClientOK
  <2>2. overBar' = [overBar EXCEPT ![c] = TRUE]
    BY <1>0, <1>4, OverMoves DEF Complete
  <2>3. closedBar[reads[c]]
    BY <1>4, <2>1 DEF closedBar
  <2> QED BY <1>1, <1>4, <2>1, <2>2, <2>3 DEF Promise!EndOfStream, Complete, overBar, closedBar
<1>5. ASSUME Attached(c), Flush(c), Terminal(reads[c]) PROVE Promise!Receive(c) \/ Promise!EndOfStream(c)
  <2>1. nextSeq[c] \in Nat
    BY <1>0 DEF TypeOK, ConnTypes
  <2> QED BY <1>3, <1>4, <1>5, <2>1 DEF Flush
<1>6. ASSUME UNCHANGED <<reads, delivered>>, phase[c] # "complete", phase'[c] # "complete",
             \A d \in Conns : d # c => phase'[d] = phase[d]
      PROVE  UNCHANGED Promise!lvars
  <2>1. overBar' = overBar
    BY <1>6 DEF overBar
  <2> QED BY <1>1, <1>6, <2>1 DEF Promise!lvars, overBar, closedBar
<1>7. CASE Replay(c)
  <2>1. Attached(c) /\ nextSeq[c] \in Nat /\ reads[c] \in Runs
    BY <1>0, <1>7 DEF Replay, Attached, TypeOK, ConnTypes, SubscribersInv
  <2>2. Len(buffer[reads[c]]) \in Nat
    BY <1>0, <2>1 DEF TypeOK, RunTypes
  <2>3. CASE nextSeq[c] < Len(buffer[reads[c]])
    BY <1>3, <1>7, <2>1, <2>2, <2>3 DEF Replay, Promise!Next
  <2>4. CASE ~(nextSeq[c] < Len(buffer[reads[c]])) /\ Terminal(reads[c])
    BY <1>4, <1>7, <2>1, <2>2, <2>4 DEF Replay, Promise!Next
  <2>5. CASE ~(nextSeq[c] < Len(buffer[reads[c]])) /\ ~Terminal(reads[c])
    <3>1. phase' = [phase EXCEPT ![c] = "live"] /\ UNCHANGED <<reads, delivered>> /\ phase[c] = "replay"
      BY <1>7, <2>1, <2>2, <2>5 DEF Replay
    <3> QED BY <1>0, <1>6, <3>1 DEF TypeOK, ConnTypes
  <2> QED BY <2>3, <2>4, <2>5
<1>8. CASE Subscribe(c)
  <2>1. reads[c] = None /\ delivered[c] = <<>> /\ phase[c] = "admitted"
    BY <1>0, <1>8 DEF Subscribe, SubscribersInv
  <2>2. ASSUME NEW p \in {"replay", "live", "complete"}, NEW evs, current # None, Attach(c, p, evs),
               Promise!Prefix(evs, buffer[current]),
               p = "complete" => Terminal(current) /\ evs = buffer[current]
        PROVE  Promise!Next
    <3> PICK l \in Runs : l = current
      BY <1>0, <2>2 DEF TypeOK, RunTypes
    <3>1. current \in Runs
      BY <1>0, <2>2 DEF TypeOK, RunTypes
    <3>2. delivered'[c] = evs
      BY <1>0, <2>2 DEF Attach, TypeOK, ConnTypes
    <3>3. phase' = [phase EXCEPT ![c] = p]
      BY <2>2 DEF Attach
    <3>4. p # "complete" => overBar' = overBar
      BY <1>0, <2>1, <3>3 DEF overBar, TypeOK, ConnTypes
    <3>5. p = "complete" => closedBar[current] /\ overBar' = [overBar EXCEPT ![c] = TRUE]
      BY <1>0, <2>2, <3>1, <3>3, OverMoves DEF closedBar
    <3>6. Promise!Attach(c, l)
      BY <1>1, <2>1, <2>2, <3>2, <3>4, <3>5 DEF Promise!Attach, Attach, closedBar, overBar
    <3> QED BY <3>6 DEF Promise!Next
  <2>3. CASE current # None /\ buffer[current] # <<>>
             /\ Attach(c, "replay", <<buffer[current][1]>>)
    <3>1. buffer[current] \in Seq(Events) /\ buffer[current] # <<>>
      BY <1>0, <2>3 DEF TypeOK, RunTypes
    <3> DEFINE evs == <<buffer[current][1]>>
    <3>2. Promise!Prefix(evs, buffer[current])
      BY <3>1 DEF Promise!Prefix
    <3>3. Attach(c, "replay", evs)
      BY <2>3
    <3> HIDE DEF evs
    <3> QED BY <2>2, <2>3, <3>2, <3>3
  <2>4. ASSUME NEW p \in {"live", "complete"}, current # None, buffer[current] = <<>>,
               Attach(c, p, <<>>), p = "complete" => Terminal(current)
        PROVE  Promise!Next
    <3>1. Promise!Prefix(<<>>, buffer[current])
      BY <2>4 DEF Promise!Prefix
    <3> QED BY <2>2, <2>4, <3>1
  <2>5. CASE Reset(c, "idle")
    BY <1>2, <2>5 DEF Promise!Next
  <2> QED BY <1>8, <2>3, <2>4, <2>5 DEF Subscribe
<1>9. CASE FlushMore(c)
  <2>1. Terminal(reads[c]) /\ Attached(c) /\ Flush(c)
    BY <1>0, <1>9 DEF FlushMore, ClientOK, CompleteOK, Attached
  <2> QED BY <1>5, <2>1 DEF Promise!Next
<1>10. CASE TakeTimeout(c)
  BY <1>5, <1>10 DEF TakeTimeout, Attached, Promise!Next
<1>11. CASE TakeSentinel(c)
  BY <1>0, <1>5, <1>11, HeadFacts DEF TakeSentinel, Attached, Promise!Next
<1>12. CASE TakeEvent(c)
  <2> DEFINE first == Len(buffer[reads[c]]) - Pending(c)
  <2>1. Attached(c) /\ phase[c] = "live" /\ queue[c] # <<>> /\ reads[c] \in Runs
    BY <1>0, <1>12 DEF TakeEvent, Attached, SubscribersInv
  <2>2. Len(buffer[reads[c]]) \in Nat /\ nextSeq[c] \in Nat /\ queue[c] \in Seq(Items)
    BY <1>0, <2>1 DEF TypeOK, RunTypes, ConnTypes
  <2>3. first < Len(buffer[reads[c]]) /\ Head(queue[c]) = <<first, buffer[reads[c]][first + 1]>>
        /\ first <= nextSeq[c]
    BY <1>0, <1>12, <2>1, HeadFacts DEF TakeEvent, ClientOK, QueueOK
  <2>4. first \in Nat
    <3>1. Len(queue[c]) \in Nat /\ Len(queue[c]) > 0
      BY <2>1, <2>2
    <3>2. Pending(c) \in Nat /\ Pending(c) <= Len(buffer[reads[c]])
      BY <1>0, <2>1, <3>1 DEF Pending, ClientOK, QueueOK
    <3> QED BY <2>2, <3>2
  <2>5. CASE first = nextSeq[c]
    <3>1. Deliver(c, first, buffer[reads[c]][first + 1], "live")
      BY <1>12, <2>2, <2>3, <2>5 DEF TakeEvent
    <3>2. Promise!Receive(c)
      BY <1>3, <2>1, <2>3, <2>4, <2>5, <3>1
    <3> QED BY <3>2 DEF Promise!Next
  <2>6. CASE first # nextSeq[c]
    <3>1. UNCHANGED <<phase, reads, delivered>>
      BY <1>12, <2>2, <2>3, <2>4, <2>6 DEF TakeEvent
    <3> QED BY <1>6, <2>1, <3>1
  <2> QED BY <2>5, <2>6
<1>13. CASE Resume(c) \/ Disconnect(c)
  BY <1>2, <1>13 DEF Resume, Disconnect, Promise!Next
<1> QED
  BY <1>7, <1>8, <1>9, <1>10, <1>11, <1>12, <1>13 DEF ReaderStep

LEMMA RefineStep == IndInv /\ [Next]_vars => [Promise!Next]_(Promise!lvars)
<1> SUFFICES ASSUME IndInv, [Next]_vars PROVE Promise!Next \/ UNCHANGED Promise!lvars
  OBVIOUS
<1> USE RunsAreNat, EmptySeq
<1>1. ASSUME UNCHANGED <<buffer, status, phase, reads, delivered>> PROVE UNCHANGED Promise!lvars
  BY <1>1 DEF Promise!lvars, Terminal
<1>2. CASE Stop \/ (\E r \in Runs : EvictFire(r)) \/ UNCHANGED vars
  BY <1>1, <1>2 DEF Stop, EvictFire, vars, runVars, connVars
<1>3. ASSUME NEW t \in Runs, TaskStep(t) PROVE Promise!Next \/ UNCHANGED Promise!lvars
  <2>1. CASE CancelUnstarted(t) \/ FirstStep(t) \/ PrevEnded(t) \/ DeliverCancel(t)
    BY <1>1, <2>1 DEF CancelUnstarted, FirstStep, PrevEnded, DeliverCancel, runVars, connVars
  <2>2. ASSUME NEW save, Chunk(t, save) PROVE Promise!Extend(t)
    <3>1. into[t] = t /\ ~Terminal(t) /\ status' = status /\ UNCHANGED <<phase, reads, delivered>>
      BY <2>2 DEF IndInv, TaskInv, Chunk, Terminal
    <3>2. << <<t, "chunk", produced[t] + 1>> >> \in Seq(Events)
      BY DEF IndInv, TypeOK, TaskTypes, Events
    <3>3. Publish(t, << <<t, "chunk", produced[t] + 1>> >>, <<>>)
      BY <2>2, <3>1 DEF Chunk
    <3>4. status' = [status EXCEPT ![t] = status[t]]
      BY <3>1 DEF IndInv, TypeOK, RunTypes
    <3> QED BY <3>1, <3>2, <3>3, <3>4, RefineExtend DEF IndInv
  <2>3. ASSUME NEW st \in {"done", "error", "stopped"}, NEW evs \in Seq(Events),
               pc[t] \in {"draining", "unwinding"}, EndDrain(t, st, evs)
        PROVE  Promise!Extend(t)
    <3>1. into[t] = t /\ ~Terminal(t)
      BY <2>3 DEF IndInv, TaskInv, Terminal
    <3>2. status' = [status EXCEPT ![t] = st]
      BY <2>3, <3>1 DEF EndDrain, Terminal
    <3>3. Publish(t, evs, <<Sentinel>>) /\ UNCHANGED <<phase, reads, delivered>>
      BY <2>3, <3>1 DEF EndDrain
    <3> QED BY <3>1, <3>2, <3>3, RefineExtend DEF IndInv
  <2>4. CASE DrainDone(t) \/ Unwound(t)
    BY <2>3, <2>4 DEF DrainDone, Unwound, Promise!Next
  <2>5. CASE DrainError(t)
    <3>1. << <<t, "error", 0>>, <<t, "done", 0>> >> \in Seq(Events)
      BY DEF Events
    <3> QED BY <2>3, <2>5, <3>1 DEF DrainError, Promise!Next
  <2> QED
    BY <1>3, <2>1, <2>2, <2>4, <2>5 DEF TaskStep, DrainChunk, DrainFinalSave, Promise!Next
<1>4. ASSUME NEW c \in Conns, Start(c) PROVE Promise!Next
  <2>1. Reset(c, "admitted") /\ UNCHANGED <<buffer, status>>
    BY <1>4 DEF Start
  <2> QED BY <2>1, RefineReset DEF IndInv, Promise!Next
<1> QED
  BY <1>2, <1>3, <1>4, RefineReader DEF Next

\* The runs and their connections implement ReplayLog.
THEOREM Refinement == Spec => ImplementsReplayLog
<1>1. Init => Promise!Init
  BY DEF Init, Promise!Init, Terminal
<1> QED BY <1>1, RefineStep, Inductive, PTL DEF Spec, ImplementsReplayLog, Promise!Spec

\* The log and the status of a run that is over never change again.
THEOREM Frozen == Spec => TerminalIsFrozen
<1>1. IndInv /\ [Next]_vars => [\A r \in Runs : Terminal(r) =>
        buffer'[r] = buffer[r] /\ status'[r] = status[r]]_vars
  <2> SUFFICES ASSUME IndInv, Next, NEW r \in Runs, Terminal(r)
               PROVE  buffer'[r] = buffer[r] /\ status'[r] = status[r]
    OBVIOUS
  <2>1. ASSUME NEW t \in Runs, TaskStep(t) PROVE buffer'[r] = buffer[r] /\ status'[r] = status[r]
    <3>1. pc[t] \in {"draining", "unwinding"} => into[t] = t /\ t # r
      BY DEF IndInv, TaskInv, Terminal
    <3> QED
      BY <2>1, <3>1 DEF TaskStep, CancelUnstarted, FirstStep, PrevEnded, DrainChunk, DrainFinalSave,
           Chunk, DrainDone, DrainError, DeliverCancel, Unwound, EndDrain, Publish, runVars,
           IndInv, TypeOK, RunTypes
  <2>2. ASSUME NEW c \in Conns, Start(c) \/ Resume(c) \/ ReaderStep(c) \/ Disconnect(c)
        PROVE  UNCHANGED <<buffer, status>>
    BY <2>2 DEF Start, Resume, Disconnect, ReaderStep, Subscribe, Replay, FlushMore, TakeEvent,
                TakeSentinel, TakeTimeout, Flush, Deliver, Complete, Leave, runVars
  <2> QED BY <2>1, <2>2 DEF Next, Stop, EvictFire
<1> QED BY <1>1, Inductive, PTL DEF Spec, TerminalIsFrozen

\* A finished run nobody watches always has its eviction timer armed.
THEOREM Evictable == Spec => []FinishedIsEvictable
<1>1. Init => FinishedIsEvictable
  BY DEF Init, FinishedIsEvictable
<1>2. IndInv /\ FinishedIsEvictable /\ [Next]_vars => FinishedIsEvictable'
  <2> SUFFICES ASSUME IndInv, FinishedIsEvictable, [Next]_vars PROVE FinishedIsEvictable'
    OBVIOUS
  <2> USE RunsAreNat DEF FinishedIsEvictable, Terminal
  <2>0. RunTypes /\ TaskTypes /\ ConnTypes /\ TaskInv
    BY DEF IndInv, TypeOK
  <2>1. ASSUME UNCHANGED <<current, status, subscribers, evictArmed>> PROVE FinishedIsEvictable'
    BY <2>1
  <2>2. CASE Stop \/ UNCHANGED vars
    BY <2>1, <2>2 DEF Stop, vars, runVars
  <2>3. ASSUME NEW t \in Runs, TaskStep(t) PROVE FinishedIsEvictable'
    <3>1. CASE CancelUnstarted(t) \/ FirstStep(t) \/ PrevEnded(t) \/ DeliverCancel(t)
               \/ DrainChunk(t) \/ DrainFinalSave(t)
      <4>1. UNCHANGED <<current, status, subscribers, evictArmed>>
        BY <3>1 DEF CancelUnstarted, FirstStep, PrevEnded, DeliverCancel, DrainChunk,
                    DrainFinalSave, Chunk, runVars
      <4> QED BY <2>1, <4>1
    <3>2. ASSUME NEW st, NEW evs, EndDrain(t, st, evs) PROVE FinishedIsEvictable'
      BY <2>0, <3>2 DEF EndDrain, ArmEvict, RunTypes
    <3> QED BY <2>3, <3>1, <3>2 DEF TaskStep, DrainDone, DrainError, Unwound
  <2>4. ASSUME NEW r \in Runs, EvictFire(r) PROVE FinishedIsEvictable'
    BY <2>0, <2>4 DEF EvictFire, RunTypes
  <2>5. ASSUME NEW c \in Conns, Start(c) PROVE FinishedIsEvictable'
    <3>0. current' = nruns + 1 /\ status' = status /\ nruns < MaxRuns
      BY <2>5 DEF Start
    <3>1. nruns + 1 \in Runs /\ current' = nruns + 1 /\ status' = status
      BY <2>0, <3>0, BoundsAssumption DEF RunTypes, Runs
    <3>2. nruns + 1 > nruns
      BY <2>0 DEF RunTypes
    <3>3. status[nruns + 1] = "running"
      BY <2>0, <3>1, <3>2 DEF TaskInv
    <3> QED BY <3>1, <3>3
  <2>6. ASSUME NEW c \in Conns, Attached(c), Leave(c) PROVE FinishedIsEvictable'
    <3>1. reads[c] \in Runs
      BY <2>6 DEF IndInv, SubscribersInv
    <3> QED BY <2>0, <2>6, <3>1 DEF Leave, ArmEvict, RunTypes
  <2>7. ASSUME NEW c \in Conns, Resume(c) \/ ReaderStep(c) \/ Disconnect(c)
        PROVE  FinishedIsEvictable'
    <3>1. CASE Subscribe(c)
      <4>1. CASE current = None \/ ~Terminal(current)
        BY <3>1, <4>1 DEF Subscribe
      <4>2. CASE current \in Runs /\ Register(c)
        BY <2>0, <3>1, <4>2 DEF Subscribe, Register, RunTypes
      <4>3. CASE /\ current \in Runs /\ UNCHANGED subscribers
                 /\ evictArmed' = [evictArmed EXCEPT ![current] = (subscribers[current] = {})]
        <5>1. evictArmed'[current] = (subscribers[current] = {})
          BY <2>0, <4>3 DEF RunTypes
        <5>2. UNCHANGED <<current, status, subscribers>>
          BY <3>1, <4>3 DEF Subscribe
        <5> QED BY <5>1, <5>2
      <4> QED BY <2>0, <3>1, <4>1, <4>2, <4>3 DEF Subscribe, RunTypes
    <3>2. CASE Replay(c)
      BY <2>1, <2>6, <3>2 DEF Replay, Deliver, Complete, Attached, runVars
    <3>3. ASSUME Attached(c), Flush(c) PROVE FinishedIsEvictable'
      BY <2>1, <2>6, <3>3 DEF Flush, Deliver, Complete, runVars
    <3>4. CASE TakeEvent(c)
      BY <2>1, <3>4 DEF TakeEvent, Deliver, runVars
    <3>5. CASE Resume(c) \/ Disconnect(c)
      BY <2>1, <2>6, <3>5 DEF Resume, Disconnect, runVars
    <3> QED BY <2>7, <3>1, <3>2, <3>3, <3>4, <3>5
         DEF ReaderStep, FlushMore, TakeSentinel, TakeTimeout, Attached
  <2> QED BY <2>2, <2>3, <2>4, <2>5, <2>7 DEF Next
<1> QED BY <1>1, <1>2, Inductive, PTL DEF Spec

=============================================================================
