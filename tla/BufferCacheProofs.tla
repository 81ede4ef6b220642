------------------------- MODULE BufferCacheProofs -------------------------
(***************************************************************************)
(* Proofs about the write-back buffer cache, for every device size, every  *)
(* set of contents and any number of faults: the states of its entries     *)
(* tell the truth (StatesAreTrue), and the cache implements the array of   *)
(* blocks with sync points (ImplementsSyncedBlocks).                       *)
(***************************************************************************)
EXTENDS BufferCache, TLAPS

\* A running flush has exactly the dirty entries left to write back; no list
\* outlives its flush.
FlushPlan == todo = IF pc = "flush" THEN InState("Dirty") ELSE {}

\* Only a block the cache was asked to write has data that must reach the device.
OnlyWrittenPending ==
  \A b \in Block : entries[b].state \in {"Dirty", "Writeback"} => b \in written

\* The history bounds what the device holds, what the medium holds and what a
\* read returns.
HistoryBounds ==
  \A b \in Block : vol[b] \in maybe[b] /\ dur[b] \in maybe[b] /\ Visible(b) \in maybe[b]

\* The inductive invariant.
CacheInv == StatesAreTrue /\ FlushPlan /\ OnlyWrittenPending /\ HistoryBounds

\* An entry is absent exactly when its state says so.
LEMMA AbsentByState ==
  ASSUME TypeOK, NEW b \in Block
  PROVE  /\ entries[b] = Absent <=> entries[b].state = "Absent"
         /\ entries[b] # Absent => entries[b] \in CacheEntry
         /\ Visible(b) \in Value
BY DEF TypeOK, CacheEntry, BufferState, Absent, Visible

\* A cache that was just set up satisfies the invariant, also over a device with
\* writes still in flight.
LEMMA CacheInvInit == Init => CacheInv
<1> SUFFICES ASSUME Init PROVE CacheInv
  OBVIOUS
<1>1. TypeOK
  BY FaultAssumption DEF Init, TypeOK
<1>2. \A b \in Block : entries[b] = Absent /\ entries[b].state = "Absent"
  BY DEF Init, Absent
<1>3. CleanIsDurable /\ DeviceAgrees
  BY <1>2 DEF Init, CleanIsDurable, DeviceAgrees
<1>4. FlushPlan /\ OnlyWrittenPending /\ HistoryBounds
  BY <1>2 DEF Init, FlushPlan, OnlyWrittenPending, HistoryBounds, Visible
<1> QED
  BY <1>1, <1>3, <1>4 DEF CacheInv, StatesAreTrue

\* The device accepts a dirty block: entry and device agree on it from then on.
LEMMA IssueWriteKeeps ==
  ASSUME CacheInv, NEW b \in Block, IssueWrite(b)
  PROVE  /\ vol' \in [Block -> Value] /\ dur' \in [Block -> Value]
         /\ entries' \in [Block -> CacheEntry \cup {Absent}]
         /\ (CleanIsDurable /\ DeviceAgrees /\ OnlyWrittenPending /\ HistoryBounds)'
         /\ InState("Dirty")' = InState("Dirty") \ {b}
         /\ \A c \in Block : Visible(c)' = Visible(c)
<1> USE DEF CacheInv, StatesAreTrue
<1>1. entries[b] \in CacheEntry
  BY AbsentByState DEF IssueWrite, TypeOK, Absent
<1>2. entries' \in [Block -> CacheEntry \cup {Absent}]
  BY <1>1 DEF IssueWrite, TypeOK, CacheEntry, BufferState
<1>3. vol' \in [Block -> Value] /\ dur' \in [Block -> Value]
  BY <1>1 DEF IssueWrite, TypeOK, CacheEntry
<1>4. /\ entries'[b].state = "Writeback" /\ entries'[b].data = entries[b].data
      /\ entries'[b] # Absent /\ vol'[b] = entries[b].data /\ entries[b] # Absent
      /\ entries[b].state = "Dirty"
  BY <1>1 DEF IssueWrite, TypeOK, CacheEntry, BufferState, Absent
<1>5. \A c \in Block \ {b} : entries'[c] = entries[c] /\ vol'[c] = vol[c]
  BY DEF IssueWrite, TypeOK
<1>6. dur' = dur /\ maybe' = maybe /\ written' = written
  BY DEF IssueWrite, history
<1>7. \A c \in Block : Visible(c)' = Visible(c)
  BY <1>4, <1>5 DEF Visible
<1>8. InState("Dirty")' = InState("Dirty") \ {b}
  BY <1>4, <1>5 DEF InState
<1>9. CleanIsDurable'
  BY <1>4, <1>5, <1>6, <1>7 DEF CleanIsDurable, TypeOK
<1>10. DeviceAgrees'
  BY <1>4, <1>5 DEF DeviceAgrees
<1>11. OnlyWrittenPending'
  BY <1>4, <1>5, <1>6 DEF OnlyWrittenPending
<1>12. HistoryBounds'
  BY <1>4, <1>5, <1>6, <1>7 DEF HistoryBounds, Visible
<1> QED
  BY <1>2, <1>3, <1>7, <1>8, <1>9, <1>10, <1>11, <1>12

\* The device reports an error for a dirty block: whatever it did with it, no
\* entry claims anything of that block.
LEMMA FailWriteKeeps ==
  ASSUME CacheInv, NEW b \in Block, FailWrite(b)
  PROVE  /\ vol' \in [Block -> Value] /\ faults' \in 0 .. MaxFaults
         /\ (CleanIsDurable /\ DeviceAgrees /\ OnlyWrittenPending /\ HistoryBounds)'
         /\ \A c \in Block : Visible(c)' = Visible(c)
<1> USE DEF CacheInv, StatesAreTrue
<1>1. entries[b] \in CacheEntry /\ entries[b] # Absent /\ entries[b].state = "Dirty"
  BY AbsentByState DEF FailWrite, TypeOK, Absent
<1>2. vol' \in [Block -> Value] /\ faults' \in 0 .. MaxFaults
  BY <1>1, FaultAssumption DEF FailWrite, TypeOK, CacheEntry
<1>3. \A c \in Block \ {b} : vol'[c] = vol[c]
  BY DEF FailWrite, TypeOK
<1>4. vol'[b] \in {vol[b], entries[b].data}
  BY DEF FailWrite, TypeOK
<1>5. entries' = entries /\ dur' = dur /\ maybe' = maybe /\ written' = written
  BY DEF FailWrite, history
<1>6. \A c \in Block : Visible(c)' = Visible(c)
  BY <1>1, <1>3, <1>5 DEF Visible
<1>7. CleanIsDurable'
  BY <1>5, <1>6 DEF CleanIsDurable, TypeOK
<1>8. DeviceAgrees'
  BY <1>1, <1>3, <1>5 DEF DeviceAgrees
<1>9. OnlyWrittenPending'
  BY <1>5 DEF OnlyWrittenPending
<1>10. HistoryBounds'
  <2> SUFFICES ASSUME NEW c \in Block PROVE vol'[c] \in maybe[c]
    BY <1>5, <1>6 DEF HistoryBounds
  <2> QED
    BY <1>1, <1>3, <1>4 DEF HistoryBounds, Visible
<1> QED
  BY <1>2, <1>6, <1>7, <1>8, <1>9, <1>10

\* When nothing is left to write back and no entry is in writeback any more,
\* what a read returns of a written block is what device and medium hold.
LEMMA NothingPendingIsDurable ==
  ASSUME CacheInv, NEW b \in written, entries[b].state \in {"Clean", "Absent"}
  PROVE  vol[b] = Visible(b) /\ dur[b] = Visible(b)
<1> USE DEF CacheInv, StatesAreTrue
<1>1. b \in Block
  BY DEF TypeOK
<1> QED
  BY <1>1, AbsentByState DEF CleanIsDurable, DeviceAgrees, Visible

\* An acknowledged flush leaves the cache and the abstract blocks in step: only
\* the history of the written blocks becomes a single value.
LEMMA FlushReturns ==
  ASSUME CacheInv, pc = "flush", todo = {}, ReturnOk, UNCHANGED vol,
         \/ InState("Writeback") = {} /\ UNCHANGED <<dur, entries>>
         \/ dur' = vol /\ entries' = CleanAfterSync
  PROVE  CacheInv' /\ \A b \in Block : Visible(b)' = Visible(b)
<1> USE DEF CacheInv, StatesAreTrue
<1>1. InState("Dirty") = {}
  BY DEF FlushPlan
<1>2. TypeOK' /\ \A b \in Block : Visible(b)' = Visible(b) /\ entries'[b].state \in {"Clean", "Absent"}
  <2> USE AbsentByState
  <2>1. CASE InState("Writeback") = {} /\ UNCHANGED <<dur, entries>>
    <3>1. \A b \in Block : entries'[b].state \in {"Clean", "Absent"}
      BY <1>1, <2>1 DEF InState, TypeOK, CacheEntry, BufferState, Absent
    <3> QED
      BY <2>1, <3>1 DEF TypeOK, Visible, ReturnOk
  <2>2. CASE dur' = vol /\ entries' = CleanAfterSync
    <3>1. ASSUME NEW b \in Block
          PROVE  /\ entries'[b] \in CacheEntry \cup {Absent}
                 /\ entries'[b].state \in {"Clean", "Absent"}
                 /\ entries'[b] = Absent <=> entries[b] = Absent
                 /\ entries[b] # Absent => entries'[b].data = entries[b].data
      BY <1>1, <2>2 DEF InState, CleanAfterSync, TypeOK, CacheEntry, BufferState, Absent
    <3>2. entries' \in [Block -> CacheEntry \cup {Absent}]
      BY <2>2, <3>1 DEF CleanAfterSync
    <3>3. \A b \in Block : Visible(b)' = Visible(b)
      BY <3>1 DEF Visible
    <3>4. TypeOK'
      BY <2>2, <3>2 DEF TypeOK, ReturnOk
    <3> QED
      BY <3>1, <3>3, <3>4
  <2> QED
    BY <2>1, <2>2
<1>3. \A b \in Block : entries'[b].state \in {"Clean", "Absent"} /\ b \in written
                         => dur'[b] = Visible(b) /\ vol'[b] = Visible(b)
  BY <1>1, AbsentByState, NothingPendingIsDurable
     DEF InState, CleanAfterSync, TypeOK, DeviceAgrees, Visible, CacheEntry, BufferState, Absent
<1>4. CleanIsDurable' /\ OnlyWrittenPending'
  BY <1>2, <1>3 DEF CleanIsDurable, OnlyWrittenPending, ReturnOk, TypeOK
<1>5. DeviceAgrees'
  BY <1>1, <1>2, AbsentByState DEF DeviceAgrees, CleanAfterSync, InState, TypeOK, CacheEntry, BufferState, Absent
<1>6. HistoryBounds'
  <2> SUFFICES ASSUME NEW b \in Block
               PROVE  vol'[b] \in maybe'[b] /\ dur'[b] \in maybe'[b] /\ Visible(b) \in maybe'[b]
    BY <1>2 DEF HistoryBounds
  <2>1. CASE b \in written
    BY <1>2, <1>3, <2>1 DEF ReturnOk
  <2>2. CASE b \notin written
    BY <2>2 DEF ReturnOk, HistoryBounds
  <2> QED
    BY <2>1, <2>2
<1>7. FlushPlan'
  BY DEF FlushPlan, ReturnOk
<1> QED
  BY <1>2, <1>4, <1>5, <1>6, <1>7

\* What a step of the cache is to its caller: a write, an acknowledged flush,
\* the loss of the cache, or nothing.
CallerSees == [Abstract!Next]_<<[b \in Block |-> Visible(b)], maybe, written>>

\* A step that changes neither a read's result nor the history is invisible.
LEMMA Invisible ==
  ASSUME \A b \in Block : Visible(b)' = Visible(b), UNCHANGED history
  PROVE  CallerSees
<1>1. [b \in Block |-> Visible(b)]' = [b \in Block |-> Visible(b)]
  OBVIOUS
<1> QED
  BY <1>1 DEF CallerSees, history

\* Every step of the cache keeps the invariant and is a step of the array of
\* blocks with sync points.
LEMMA CacheStep ==
  ASSUME CacheInv, [Next]_vars
  PROVE  CacheInv' /\ CallerSees
<1> USE DEF CacheInv, StatesAreTrue
<1>1. ASSUME NEW b \in Block, ReadMiss(b) PROVE CacheInv' /\ CallerSees
  <2>1. /\ entries'[b] = [data |-> vol[b], state |-> "Clean"] /\ entries[b] = Absent
        /\ \A c \in Block \ {b} : entries'[c] = entries[c]
        /\ UNCHANGED <<vol, dur, pc, todo, maybe, written, faults>> /\ pc = "idle"
    BY <1>1 DEF ReadMiss, TypeOK, device, history
  <2>2. entries' \in [Block -> CacheEntry \cup {Absent}]
    BY <1>1 DEF ReadMiss, TypeOK, CacheEntry, BufferState
  <2>3. \A c \in Block : Visible(c)' = Visible(c)
    BY <2>1 DEF Visible, Absent
  <2>4. TypeOK' /\ FlushPlan'
    BY <2>1, <2>2 DEF TypeOK, FlushPlan
  <2>5. CleanIsDurable' /\ DeviceAgrees' /\ OnlyWrittenPending' /\ HistoryBounds'
    BY <2>1, <2>3, AbsentByState
       DEF CleanIsDurable, DeviceAgrees, OnlyWrittenPending, HistoryBounds, TypeOK
  <2> QED
    BY <2>1, <2>3, <2>4, <2>5, Invisible DEF history
<1>2. ASSUME NEW b \in Block, WriteBack(b) PROVE CacheInv' /\ CallerSees
  <2>1. UNCHANGED <<pc, todo>> /\ pc = "idle" /\ FlushPlan'
    BY <1>2 DEF WriteBack, FlushPlan
  <2>2. CASE IssueWrite(b)
    <3>1. TypeOK'
      BY <2>1, <2>2, IssueWriteKeeps DEF TypeOK, IssueWrite, history
    <3> QED
      BY <2>1, <2>2, <3>1, IssueWriteKeeps, Invisible DEF IssueWrite
  <2>3. CASE FailWrite(b)
    <3>1. TypeOK'
      BY <2>1, <2>3, FailWriteKeeps DEF TypeOK, FailWrite, history
    <3> QED
      BY <2>1, <2>3, <3>1, FailWriteKeeps, Invisible DEF FailWrite
  <2> QED
    BY <1>2, <2>2, <2>3 DEF WriteBack
<1>3. ASSUME NEW b \in Block, Evict(b) PROVE CacheInv' /\ CallerSees
  <2>1. /\ entries'[b] = Absent /\ entries[b].state = "Clean" /\ entries[b] # Absent
        /\ \A c \in Block \ {b} : entries'[c] = entries[c]
        /\ UNCHANGED <<vol, dur, pc, todo, maybe, written, faults>> /\ pc = "idle"
    BY <1>3 DEF Evict, Evictable, TypeOK, device, history, Absent
  <2>2. entries' \in [Block -> CacheEntry \cup {Absent}]
    BY <1>3 DEF Evict, TypeOK
  <2>3. \A c \in Block : Visible(c)' = Visible(c)
    BY <2>1 DEF Visible, DeviceAgrees
  <2>4. TypeOK' /\ FlushPlan'
    BY <2>1, <2>2 DEF TypeOK, FlushPlan
  <2>5. CleanIsDurable' /\ DeviceAgrees' /\ OnlyWrittenPending' /\ HistoryBounds'
    BY <2>1, <2>3
       DEF CleanIsDurable, DeviceAgrees, OnlyWrittenPending, HistoryBounds, TypeOK, Absent
  <2> QED
    BY <2>1, <2>3, <2>4, <2>5, Invisible DEF history
<1>4. ASSUME NEW b \in Block, Persist(b) PROVE CacheInv' /\ CallerSees
  <2>1. /\ dur' = [dur EXCEPT ![b] = vol[b]]
        /\ UNCHANGED <<vol, entries, pc, todo, maybe, written, faults>>
    BY <1>4 DEF Persist, history
  <2>2. \A c \in Block : Visible(c)' = Visible(c)
    BY <2>1 DEF Visible
  <2>3. TypeOK' /\ FlushPlan'
    BY <2>1 DEF TypeOK, FlushPlan, InState
  <2>4. DeviceAgrees' /\ OnlyWrittenPending' /\ HistoryBounds'
    BY <2>1, <2>2 DEF DeviceAgrees, OnlyWrittenPending, HistoryBounds, TypeOK
  <2>5. CleanIsDurable'
    BY <2>1, <2>2, NothingPendingIsDurable DEF CleanIsDurable, TypeOK
  <2> QED
    BY <2>1, <2>2, <2>3, <2>4, <2>5, Invisible DEF history
<1>5. ASSUME NEW b \in Block, NEW v \in Value, WriteBlock(b, v) PROVE CacheInv' /\ CallerSees
  <2>1. /\ entries'[b] = [data |-> v, state |-> "Dirty"] /\ entries'[b] # Absent
        /\ \A c \in Block \ {b} : entries'[c] = entries[c]
        /\ maybe' = [maybe EXCEPT ![b] = @ \cup {v}] /\ written' = written \cup {b}
        /\ UNCHANGED <<vol, dur, pc, todo, faults>> /\ pc = "idle"
    BY <1>5 DEF WriteBlock, WrittenState, TypeOK, device, Absent
  <2>2. entries' \in [Block -> CacheEntry \cup {Absent}]
    BY <1>5 DEF WriteBlock, WrittenState, TypeOK, CacheEntry, BufferState
  <2>3. Visible(b)' = v /\ \A c \in Block \ {b} : Visible(c)' = Visible(c)
    BY <2>1 DEF Visible
  <2>4. TypeOK' /\ FlushPlan'
    BY <2>1, <2>2 DEF TypeOK, FlushPlan
  <2>5. /\ maybe[b] \cup {v} = maybe'[b]
        /\ \A c \in Block \ {b} : maybe'[c] = maybe[c]
    BY <2>1 DEF TypeOK
  <2>6. CleanIsDurable' /\ DeviceAgrees' /\ OnlyWrittenPending'
    BY <2>1, <2>3 DEF CleanIsDurable, DeviceAgrees, OnlyWrittenPending, TypeOK
  <2>7. HistoryBounds'
    BY <2>1, <2>3, <2>5 DEF HistoryBounds
  <2>8. [c \in Block |-> Visible(c)]' = [[c \in Block |-> Visible(c)] EXCEPT ![b] = v]
    BY <2>3
  <2>9. Abstract!Write(b, v)
    BY <2>1, <2>8 DEF Abstract!Write
  <2> QED
    BY <2>4, <2>6, <2>7, <2>9 DEF CallerSees, Abstract!Next
<1>6. ASSUME BeginFlush PROVE CacheInv' /\ CallerSees
  <2>1. UNCHANGED <<vol, dur, entries, maybe, written, faults>> /\ pc' = "flush" /\ todo' = InState("Dirty")
    BY <1>6 DEF BeginFlush, device, history
  <2>2. \A c \in Block : Visible(c)' = Visible(c)
    BY <2>1 DEF Visible
  <2>3. TypeOK' /\ FlushPlan'
    BY <2>1 DEF TypeOK, FlushPlan, InState
  <2>4. CleanIsDurable' /\ DeviceAgrees' /\ OnlyWrittenPending' /\ HistoryBounds'
    BY <2>1, <2>2 DEF CleanIsDurable, DeviceAgrees, OnlyWrittenPending, HistoryBounds, TypeOK
  <2> QED
    BY <2>1, <2>2, <2>3, <2>4, Invisible DEF history
<1>7. ASSUME FlushWrite PROVE CacheInv' /\ CallerSees
  <2>1. PICK b \in todo : \/ IssueWrite(b) /\ todo' = todo \ {b} /\ UNCHANGED pc
                          \/ FailWrite(b) /\ todo' = {} /\ pc' = "idle"
    BY <1>7 DEF FlushWrite
  <2>2. b \in Block /\ pc = "flush" /\ todo = InState("Dirty")
    BY <1>7 DEF FlushWrite, TypeOK, FlushPlan
  <2>3. CASE IssueWrite(b) /\ todo' = todo \ {b} /\ UNCHANGED pc
    <3>1. TypeOK' /\ FlushPlan'
      BY <2>2, <2>3, IssueWriteKeeps DEF TypeOK, FlushPlan, IssueWrite, history
    <3> QED
      BY <2>2, <2>3, <3>1, IssueWriteKeeps, Invisible DEF IssueWrite
  <2>4. CASE FailWrite(b) /\ todo' = {} /\ pc' = "idle"
    <3>1. TypeOK' /\ FlushPlan'
      BY <2>2, <2>4, FailWriteKeeps DEF TypeOK, FlushPlan, FailWrite, history
    <3> QED
      BY <2>2, <2>4, <3>1, FailWriteKeeps, Invisible DEF FailWrite
  <2> QED
    BY <2>1, <2>3, <2>4
<1>8. ASSUME FlushNothing \/ FlushSync PROVE CacheInv' /\ CallerSees
  <2>1. CacheInv' /\ \A b \in Block : Visible(b)' = Visible(b)
    BY <1>8, FlushReturns DEF FlushNothing, FlushSync, device
  <2>2. [b \in Block |-> Visible(b)]' = [b \in Block |-> Visible(b)]
    BY <2>1
  <2>3. Abstract!Synced
    BY <1>8, <2>2 DEF Abstract!Synced, FlushNothing, FlushSync, ReturnOk
  <2> QED
    BY <2>1, <2>3 DEF CallerSees, Abstract!Next
<1>9. ASSUME FlushFail PROVE CacheInv' /\ CallerSees
  <2>1. /\ UNCHANGED <<vol, dur, entries, maybe, written, todo>> /\ pc' = "idle" /\ todo = {}
        /\ faults' = faults + 1 /\ faults < MaxFaults
    BY <1>9 DEF FlushFail, device, history
  <2>2. \A c \in Block : Visible(c)' = Visible(c)
    BY <2>1 DEF Visible
  <2>3. TypeOK' /\ FlushPlan'
    BY <2>1, FaultAssumption DEF TypeOK, FlushPlan
  <2>4. CleanIsDurable' /\ DeviceAgrees' /\ OnlyWrittenPending' /\ HistoryBounds'
    BY <2>1, <2>2 DEF CleanIsDurable, DeviceAgrees, OnlyWrittenPending, HistoryBounds, TypeOK
  <2> QED
    BY <2>1, <2>2, <2>3, <2>4, Invisible DEF history
<1>10. ASSUME Handover PROVE CacheInv' /\ CallerSees
  <2>1. /\ UNCHANGED <<vol, dur, pc, todo, maybe>> /\ written' = {} /\ pc = "idle"
        /\ faults' = faults + 1 /\ faults < MaxFaults
        /\ entries' = [b \in Block |-> Absent]
    BY <1>10 DEF Handover, device
  <2>2. \A c \in Block : entries'[c].state = "Absent" /\ Visible(c)' = vol[c]
    BY <2>1 DEF Visible, Absent
  <2>3. TypeOK' /\ FlushPlan'
    BY <2>1, FaultAssumption DEF TypeOK, FlushPlan
  <2>4. CleanIsDurable' /\ DeviceAgrees' /\ OnlyWrittenPending' /\ HistoryBounds'
    BY <2>1, <2>2 DEF CleanIsDurable, DeviceAgrees, OnlyWrittenPending, HistoryBounds
  <2>5. [b \in Block |-> Visible(b)]' = vol
    BY <2>2 DEF TypeOK
  <2>6. Abstract!Lost(FALSE)
    BY <2>1, <2>5 DEF Abstract!Lost, HistoryBounds, TypeOK
  <2> QED
    BY <2>3, <2>4, <2>6 DEF CallerSees, Abstract!Next
<1>11. ASSUME Crash PROVE CacheInv' /\ CallerSees
  <2>1. /\ vol' = dur /\ dur' = dur /\ pc' = "idle" /\ todo' = {} /\ written' = {}
        /\ maybe' = [b \in Block |-> {dur[b]}]
        /\ faults' = faults + 1 /\ faults < MaxFaults
        /\ entries' = [b \in Block |-> Absent]
    BY <1>11 DEF Crash
  <2>2. \A c \in Block : entries'[c].state = "Absent" /\ Visible(c)' = dur[c]
    BY <2>1 DEF Visible, Absent
  <2>3. TypeOK' /\ FlushPlan'
    BY <2>1, FaultAssumption DEF TypeOK, FlushPlan
  <2>4. CleanIsDurable' /\ DeviceAgrees' /\ OnlyWrittenPending' /\ HistoryBounds'
    BY <2>1, <2>2 DEF CleanIsDurable, DeviceAgrees, OnlyWrittenPending, HistoryBounds
  <2>5. [b \in Block |-> Visible(b)]' = dur
    BY <2>2 DEF TypeOK
  <2>6. Abstract!Lost(TRUE)
    BY <2>1, <2>5 DEF Abstract!Lost, HistoryBounds, TypeOK
  <2> QED
    BY <2>3, <2>4, <2>6 DEF CallerSees, Abstract!Next
<1>12. CASE UNCHANGED vars
  <2>1. \A c \in Block : Visible(c)' = Visible(c)
    BY <1>12 DEF vars, Visible
  <2>2. CacheInv'
    BY <1>12, <2>1 DEF vars, TypeOK, FlushPlan, InState, CleanIsDurable, DeviceAgrees,
                       OnlyWrittenPending, HistoryBounds
  <2> QED
    BY <1>12, <2>1, <2>2, Invisible DEF vars, history
<1> QED
  BY <1>1, <1>2, <1>3, <1>4, <1>5, <1>6, <1>7, <1>8, <1>9, <1>10, <1>11, <1>12 DEF Next

\* The invariant holds in every behaviour of the cache.
LEMMA CacheInvHolds == Spec => []CacheInv
<1>1. Init => CacheInv
  BY CacheInvInit
<1>2. CacheInv /\ [Next]_vars => CacheInv'
  BY CacheStep
<1> QED
  BY <1>1, <1>2, PTL DEF Spec

\* For every device, whatever the order of writes, failed writes, failed flushes,
\* retries, evictions, handovers and crashes: an entry that is clean, or gone, has
\* its data on the medium, and an entry in writeback agrees with the device.
THEOREM CacheStatesAreTrue == Spec => []StatesAreTrue
<1>1. CacheInv => StatesAreTrue
  BY DEF CacheInv
<1> QED
  BY <1>1, CacheInvHolds, PTL

\* For every device the cache implements the array of blocks with sync points:
\* only a write changes what a read returns, and no crash undoes what a flush
\* that returned Ok has acknowledged.
THEOREM CacheImplementsSyncedBlocks == Spec => ImplementsSyncedBlocks
<1>1. Init => Abstract!Init
  <2> SUFFICES ASSUME Init PROVE Abstract!Init
    OBVIOUS
  <2>1. [b \in Block |-> Visible(b)] = vol
    BY DEF Init, Visible
  <2> QED
    BY <2>1 DEF Init, Abstract!Init
<1>2. CacheInv /\ [Next]_vars => CallerSees
  BY CacheStep
<1> QED
  BY <1>1, <1>2, CacheInvHolds, PTL DEF Spec, ImplementsSyncedBlocks, Abstract!Spec, CallerSees
=============================================================================
