---------------------------- MODULE BufferCache ----------------------------
(***************************************************************************)
(* The write-back buffer cache (cache.rs) over a block device (block.rs)   *)
(* whose writes may fail, may become durable before a flush asks for it,   *)
(* and are lost by a crash otherwise.                                      *)
(*                                                                         *)
(* Every public operation is an action, flush a sequence of them: one per  *)
(* block it writes back and one for the device flush, so that a fault can  *)
(* fall between any two.  Calls on a block outside the device return an    *)
(* error before they touch anything and are left out.                      *)
(***************************************************************************)
EXTENDS Integers

CONSTANTS Block,      \* the device's block numbers
          Value,      \* the contents of a block
          MaxFaults   \* bound: failed device calls, crashes and handovers

ASSUME BlockAssumption == Block \subseteq Nat
ASSUME FaultAssumption == MaxFaults \in Nat

VARIABLES vol, dur,   \* device blocks as reads see them / as a crash leaves them
          entries,    \* cached block -> [data, state]
          pc,         \* "idle", or "flush" while a flush is running
          todo,       \* the dirty blocks the running flush has yet to write back
          maybe,      \* history: what a crash may leave each block with
          written,    \* history: blocks written through this cache
          faults      \* counter of the bound

device == <<vol, dur>>
history == <<maybe, written>>
vars == <<vol, dur, entries, pc, todo, maybe, written, faults>>

BufferState == {"Clean", "Dirty", "Writeback"}
CacheEntry == [data : Value, state : BufferState]
Absent == [state |-> "Absent"]

\* What a read of b returns.
Visible(b) == IF entries[b] = Absent THEN vol[b] ELSE entries[b].data

InState(s) == {b \in Block : entries[b].state = s}

\* The cache and the device are well typed; every cached entry is in one of the
\* states Clean, Dirty and Writeback of BufferState.
TypeOK ==
  /\ vol \in [Block -> Value]
  /\ dur \in [Block -> Value]
  /\ entries \in [Block -> CacheEntry \cup {Absent}]
  /\ pc \in {"idle", "flush"}
  /\ todo \subseteq Block
  /\ maybe \in [Block -> SUBSET Value]
  /\ written \subseteq Block
  /\ faults \in 0 .. MaxFaults

\* BufferCache::new over any device, also one with writes still in flight.
Init ==
  /\ vol \in [Block -> Value]
  /\ dur \in [Block -> Value]
  /\ entries = [b \in Block |-> Absent]
  /\ pc = "idle"
  /\ todo = {}
  /\ maybe = [b \in Block |-> {vol[b], dur[b]}]
  /\ written = {}
  /\ faults = 0

(***************************************************************************)
(* The operations.                                                         *)
(***************************************************************************)
\* A read that misses installs a clean entry; one that hits changes nothing.
ReadMiss(b) ==
  /\ pc = "idle"
  /\ entries[b] = Absent
  /\ entries' = [entries EXCEPT ![b] = [data |-> vol[b], state |-> "Clean"]]
  /\ UNCHANGED <<device, pc, todo, history, faults>>

\* Mutant: a write to an entry that is being written back keeps its state.
KeepWritebackState(b) == IF entries[b].state = "Writeback" THEN "Writeback" ELSE "Dirty"

\* The state write_block leaves the entry in, whatever it was before.
WrittenState(b) == "Dirty"

WriteBlock(b, v) ==
  /\ pc = "idle"
  /\ entries' = [entries EXCEPT ![b] = [data |-> v, state |-> WrittenState(b)]]
  /\ maybe' = [maybe EXCEPT ![b] = @ \cup {v}]
  /\ written' = written \cup {b}
  /\ UNCHANGED <<device, pc, todo, faults>>

\* The device accepts the block; only a flush will make the entry clean.
IssueWrite(b) ==
  /\ entries[b].state = "Dirty"
  /\ vol' = [vol EXCEPT ![b] = entries[b].data]
  /\ entries' = [entries EXCEPT ![b].state = "Writeback"]
  /\ UNCHANGED <<dur, history, faults>>

\* The device reports an error; the block may have reached it all the same.
FailWrite(b) ==
  /\ entries[b].state = "Dirty"
  /\ faults < MaxFaults
  /\ vol' \in {vol, [vol EXCEPT ![b] = entries[b].data]}
  /\ faults' = faults + 1
  /\ UNCHANGED <<dur, entries, history>>

\* write_back, called on its own.
WriteBack(b) == pc = "idle" /\ (IssueWrite(b) \/ FailWrite(b)) /\ UNCHANGED <<pc, todo>>

\* flush: collect the dirty blocks ...
BeginFlush ==
  /\ pc = "idle"
  /\ todo' = InState("Dirty")
  /\ pc' = "flush"
  /\ UNCHANGED <<device, entries, history, faults>>

\* ... write them back in ascending order, up to the first error ...
FlushWrite ==
  /\ pc = "flush"
  /\ \E b \in todo :
       /\ \A c \in todo : b <= c
       /\ \/ IssueWrite(b) /\ todo' = todo \ {b} /\ UNCHANGED pc
          \/ FailWrite(b) /\ todo' = {} /\ pc' = "idle"

\* flush returns Ok: the caller may rely on everything it wrote.
ReturnOk ==
  /\ pc' = "idle"
  /\ maybe' = [b \in Block |-> IF b \in written THEN {Visible(b)} ELSE maybe[b]]
  /\ UNCHANGED <<todo, written, faults>>

\* ... and return at once when nothing is in flight ...
FlushNothing ==
  /\ pc = "flush"
  /\ todo = {}
  /\ InState("Writeback") = {}
  /\ ReturnOk
  /\ UNCHANGED <<device, entries>>

\* Mutant: a flush leaves its entries as they are.
CleanAfterSyncNone == entries

\* The entries once the device flush succeeded.
CleanAfterSync == [b \in Block |->
  IF entries[b].state = "Writeback" THEN [entries[b] EXCEPT !.state = "Clean"]
                                    ELSE entries[b]]

\* ... or else cross the durability boundary ...
FlushSync ==
  /\ pc = "flush"
  /\ todo = {}
  /\ InState("Writeback") # {}
  /\ dur' = vol
  /\ entries' = CleanAfterSync
  /\ ReturnOk
  /\ UNCHANGED vol

\* ... which may fail: the entries stay in writeback for the next attempt.
FlushFail ==
  /\ pc = "flush"
  /\ todo = {}
  /\ InState("Writeback") # {}
  /\ faults < MaxFaults
  /\ pc' = "idle"
  /\ faults' = faults + 1
  /\ UNCHANGED <<device, entries, todo, history>>

\* Mutant: an entry in writeback may be evicted too.
EvictableUnlessDirty(b) == entries[b].state \in {"Clean", "Writeback"}

Evictable(b) == entries[b].state = "Clean"

Evict(b) ==
  /\ pc = "idle"
  /\ Evictable(b)
  /\ entries' = [entries EXCEPT ![b] = Absent]
  /\ UNCHANGED <<device, pc, todo, history, faults>>

\* into_inner gives the device back, whatever the cache holds, and a new
\* cache is set up over it.
Handover ==
  /\ pc = "idle"
  /\ faults < MaxFaults
  /\ entries' = [b \in Block |-> Absent]
  /\ written' = {}
  /\ faults' = faults + 1
  /\ UNCHANGED <<device, pc, todo, maybe>>

(***************************************************************************)
(* The environment.                                                        *)
(***************************************************************************)
\* A block becomes durable before a flush asks for it.
Persist(b) ==
  /\ dur[b] # vol[b]
  /\ dur' = [dur EXCEPT ![b] = vol[b]]
  /\ UNCHANGED <<vol, entries, pc, todo, history, faults>>

\* Power is lost at any point, in the middle of a flush too.
Crash ==
  /\ faults < MaxFaults
  /\ vol' = dur
  /\ entries' = [b \in Block |-> Absent]
  /\ pc' = "idle"
  /\ todo' = {}
  /\ maybe' = [b \in Block |-> {dur[b]}]
  /\ written' = {}
  /\ faults' = faults + 1
  /\ UNCHANGED dur

Next ==
  \/ \E b \in Block : ReadMiss(b) \/ WriteBack(b) \/ Evict(b) \/ Persist(b)
  \/ \E b \in Block, v \in Value : WriteBlock(b, v)
  \/ BeginFlush \/ FlushWrite \/ FlushNothing \/ FlushSync \/ FlushFail
  \/ Handover \/ Crash

Spec == Init /\ [][Next]_vars

\* A running flush goes on, and its caller tries again after an error.
FairSpec == Spec /\ WF_vars(BeginFlush) /\ WF_vars(FlushWrite)
                 /\ WF_vars(FlushNothing \/ FlushSync \/ FlushFail)

(***************************************************************************)
(* Properties.                                                             *)
(***************************************************************************)
\* A block written through the cache is durable, with the contents the last
\* write gave it, as soon as its entry is clean or has been evicted: no order
\* of writes, failed writes, failed flushes, retries and evictions makes the
\* cache forget data that is not on the medium.
CleanIsDurable ==
  \A b \in written : entries[b].state \in {"Clean", "Absent"} => dur[b] = Visible(b)

\* An entry in Clean or Writeback agrees with the device, so that a later read
\* miss, or a retried flush that does not write the block again, sees the same
\* contents as the entry held.
DeviceAgrees ==
  \A b \in Block : entries[b].state \in {"Clean", "Writeback"} => vol[b] = entries[b].data

\* The state of every entry, in a well-typed cache, tells the truth about the
\* device and the medium: CleanIsDurable and DeviceAgrees.
StatesAreTrue == TypeOK /\ CleanIsDurable /\ DeviceAgrees

\* The cache implements the array of blocks with sync points: reads, write-back,
\* eviction, early persistence and failed calls never change what a read
\* returns, and no crash undoes what a flush has acknowledged.
Abstract == INSTANCE SyncedBlocks WITH mem <- [b \in Block |-> Visible(b)]
ImplementsSyncedBlocks == Abstract!Spec

\* If its caller keeps calling flush and the device stops failing, data in the
\* cache does not stay undurable for ever, although writes go on in between.
FlushCatchesUp == \A b \in Block :
  entries[b].state \in {"Dirty", "Writeback"} ~> entries[b].state \in {"Clean", "Absent"}
=============================================================================
