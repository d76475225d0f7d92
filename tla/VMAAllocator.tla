---------------------------- MODULE VMAAllocator ----------------------------
(***************************************************************************)
(* VMAAllocator (vma.rs): the segments of an address space, their locks,   *)
(* and the tasks that map them.  The tree is a set of disjoint segments,   *)
(* each with its locked flag.  VMATree is shown to implement such a set up *)
(* to the deletion that reuses temp_node while it is a leaf, so that every *)
(* deletion here may also corrupt the tree.  What UserPageMapper shows of  *)
(* the cleanup of a failed task is allowed too.  The page tables are the   *)
(* set of mapped pages.                                                    *)
(*                                                                         *)
(* Addresses are page numbers.  An action of a task is one iteration of    *)
(* its loop: should_suspend is asked before each, and calls and other      *)
(* tasks come in between.                                                  *)
(***************************************************************************)
EXTENDS Integers

CONSTANT HighestUserAddress

ASSUME AddressAssumption == HighestUserAddress \in Nat

Address == 0 .. HighestUserAddress

VARIABLES
  segs,    \* the used leaves of the tree
  tasks,   \* the MapTasks that have not completed
  pages,   \* the pages that are mapped
  reply,   \* the result of the last start_try_map_at or start_unmap
  halted,  \* the kernel has panicked
  corrupt  \* a deletion has corrupted the tree (bad of VMATree)

allocatorVars == <<segs, tasks, pages, reply, halted, corrupt>>

Segment == [start : Address, end : Address, locked : BOOLEAN]
MapTask == [start : Address, end : Address, current : Address, failed : BOOLEAN]
Reply == {"none", "MapTask", "SegmentAlreadyExists", "OutOfMemory", "UnmapTask",
          "SegmentAlreadyUnmapped", "SegmentLocked"}

SegmentsTypeOK ==
  /\ segs \subseteq Segment
  /\ tasks \subseteq MapTask
  /\ pages \subseteq Address
  /\ reply \in Reply
  /\ halted \in BOOLEAN /\ corrupt \in BOOLEAN

AllocatorInit ==
  /\ segs = {}
  /\ tasks = {}
  /\ pages = {}
  /\ reply = "none"
  /\ halted = FALSE /\ corrupt = FALSE

\* Nothing is modelled after a panic, nor on a tree that is corrupted.
Running == ~halted /\ ~corrupt

Contains(s, addr) == s.start <= addr /\ addr <= s.end
Overlap(s, r) == s.start <= r.end /\ r.start <= s.end

\* Mutant: the end of the gap is not looked at.
InGapStartOnly(start, end) == ~\E s \in segs : Contains(s, start)

\* The segment lies in a gap: the leaf that contains its start is empty and
\* does not end before the segment.
InGap(start, end) ==
  /\ ~\E s \in segs : Contains(s, start)
  /\ ~\E s \in segs : start < s.start /\ s.start <= end

\* start_try_map_at.  insert may run out of memory for its nodes.
StartTryMapAt(start, end) ==
  /\ Running
  /\ start <= end
  /\ \/ /\ InGap(start, end)
        /\ segs' = segs \cup {[start |-> start, end |-> end, locked |-> TRUE]}
        /\ tasks' = tasks \cup {[start |-> start, end |-> end, current |-> start, failed |-> FALSE]}
        /\ reply' = "MapTask"
     \/ /\ InGap(start, end)
        /\ reply' = "OutOfMemory"
        /\ UNCHANGED <<segs, tasks>>
     \/ /\ ~InGap(start, end)
        /\ reply' = "SegmentAlreadyExists"
        /\ UNCHANGED <<segs, tasks>>
  /\ UNCHANGED <<pages, halted, corrupt>>

\* Mutant: a locked segment is removed.
StartUnmapLocked(addr) ==
  /\ Running
  /\ reply' = IF \E s \in segs : Contains(s, addr) THEN "SegmentLocked"
              ELSE "SegmentAlreadyUnmapped"
  /\ segs' = {s \in segs : ~Contains(s, addr)}
  /\ UNCHANGED <<tasks, pages, halted, corrupt>>

\* start_unmap.  The UnmapTask that it would return is not followed: see
\* UnmapRefused.
StartUnmap(addr) ==
  LET found == {s \in segs : Contains(s, addr)}
      unlocked == {s \in found : ~s.locked}
  IN  /\ Running
      /\ reply' = IF found = {} THEN "SegmentAlreadyUnmapped"
                  ELSE IF unlocked = {} THEN "SegmentLocked"
                  ELSE "UnmapTask"
      /\ segs' = (segs \ unlocked) \cup
                 {[start |-> s.start, end |-> s.end, locked |-> TRUE] : s \in unlocked}
      /\ UNCHANGED <<tasks, pages, halted, corrupt>>

\* MapTask::run, an iteration of the MapMemTask.  A page that is already
\* mapped is a panic.
MapPage(k) ==
  /\ Running
  /\ ~k.failed
  /\ k.current < k.end \/ k.current \in pages
  /\ IF k.current \in pages
     THEN halted' = TRUE /\ UNCHANGED <<tasks, pages>>
     ELSE /\ pages' = pages \cup {k.current}
          /\ tasks' = (tasks \ {k}) \cup {[k EXCEPT !.current = @ + 1]}
          /\ UNCHANGED halted
  /\ UNCHANGED <<segs, reply, corrupt>>

\* The last iteration, with a tree whose deletion leaves temp_node alone: run
\* unlocks the segment that contains the start of the task and deletes it.
MapLastPage(k) ==
  /\ Running
  /\ ~k.failed
  /\ k.current = k.end
  /\ k.current \notin pages
  /\ pages' = pages \cup {k.current}
  /\ tasks' = tasks \ {k}
  /\ segs' = {s \in segs : ~Contains(s, k.start)}
  /\ UNCHANGED <<reply, halted, corrupt>>

\* The same, when delete frees or overwrites temp_node while it is a leaf of the
\* tree: segments of others may be lost with it.  Which shapes of the tree lead
\* to this is in VMATree; the first deletion may.
MapLastPageCorrupts(k, lost) ==
  /\ Running
  /\ ~k.failed
  /\ k.current = k.end
  /\ k.current \notin pages
  /\ pages' = pages \cup {k.current}
  /\ tasks' = tasks \ {k}
  /\ segs' = {s \in segs \ lost : ~Contains(s, k.start)}
  /\ corrupt' = TRUE
  /\ UNCHANGED <<reply, halted>>

\* The MapMemTask runs out of memory and starts to unmap its pages.
MapOutOfMemory(k) ==
  /\ Running
  /\ ~k.failed
  /\ tasks' = (tasks \ {k}) \cup {[k EXCEPT !.failed = TRUE]}
  /\ UNCHANGED <<segs, pages, reply, halted, corrupt>>

\* An iteration of the cleanup.  With a page it may unmap pages of other
\* segments (OnlyEmptyTablesFreed of UserPageMapper), and it may not end
\* (TaskTerminates).
Rewind(k, unmapped) ==
  /\ Running
  /\ k.failed
  /\ pages' = pages \ unmapped
  /\ UNCHANGED <<segs, tasks, reply, halted, corrupt>>

\* The cleanup is over and run returns the error: the tree is left as it is.
\* The cleanup of a task that failed on its first page starts below it, and
\* only ends if the first page is page 0.
RewindDone(k, unmapped) ==
  /\ Running
  /\ k.failed
  /\ k.start < k.current \/ k.start = 0
  /\ k.start .. k.end \cap pages \subseteq unmapped
  /\ pages' = pages \ unmapped
  /\ tasks' = tasks \ {k}
  /\ UNCHANGED <<segs, reply, halted, corrupt>>

\* The assertion on the pages that were freed fails (RewindCleansUp).
RewindPanics(k) ==
  /\ Running
  /\ k.failed
  /\ halted' = TRUE
  /\ UNCHANGED <<segs, tasks, pages, reply, corrupt>>

AllocatorNext ==
  \/ \E start, end \in Address : StartTryMapAt(start, end)
  \/ \E addr \in Address : StartUnmap(addr)
  \/ \E k \in tasks : MapPage(k)
  \/ \E k \in tasks : MapLastPage(k)
  \/ \E k \in tasks, lost \in SUBSET segs : MapLastPageCorrupts(k, lost)
  \/ \E k \in tasks : MapOutOfMemory(k)
  \/ \E k \in tasks, unmapped \in SUBSET pages : Rewind(k, unmapped)
  \/ \E k \in tasks, unmapped \in SUBSET pages : RewindDone(k, unmapped)
  \/ \E k \in tasks : RewindPanics(k)

AllocatorSpec == AllocatorInit /\ [][AllocatorNext]_allocatorVars
-----------------------------------------------------------------------------
\* start_try_map_at never makes segments that overlap, whatever tasks are
\* running: the leaf it looks up is still the gap when insert splits it.
SegmentsDisjoint == \A s, r \in segs : s # r => ~Overlap(s, r)

\* The lock of a segment belongs to one task: no two tasks run on the same
\* addresses, and each runs on a segment that is in the tree and locked, as
\* MapTask::run asserts when it completes, unless the deletion of another task
\* has corrupted the tree.
TasksOwnSegments ==
  /\ ~corrupt => \A k \in tasks : [start |-> k.start, end |-> k.end, locked |-> TRUE] \in segs
  /\ \A k, l \in tasks : k # l => ~Overlap(k, l)

\* Every segment in the tree is locked, because MapTask::run deletes its
\* segment when it completes and leaves it locked when it fails: start_unmap
\* never returns a task.
UnmapRefused ==
  /\ \A s \in segs : s.locked
  /\ reply # "UnmapTask"

\* A segment is locked while it is "locked for mapping or unmapping by another
\* task": each locked segment has a task that will unlock it.
LocksHaveTasks ==
  \A s \in segs : s.locked => \E k \in tasks : k.start = s.start /\ k.end = s.end

\* "Unmaps the segment containing `segment_address`": a page that is mapped
\* belongs to a segment, which start_unmap can find.
MappedBelongsToSegment == \A p \in pages : \E s \in segs : Contains(s, p)
=============================================================================
