--------------------------- MODULE UserPageMapper ---------------------------
(***************************************************************************)
(* The page tables of a process (UserPageMapper) and the tasks that map    *)
(* and unmap ranges of pages one page at a time (MapMemTask, UnmapMemTask  *)
(* in arch/x86_64/user_page_mapping.rs).                                   *)
(*                                                                         *)
(* Addresses are page numbers, except in map_mem_copy_from_buffer.  A task *)
(* asks should_suspend before every iteration of its loop, so an action is *)
(* one iteration and the steps of several tasks interleave.  The tables    *)
(* are those of the lower half of the PML4.  tables[f] is the content of   *)
(* the frame f as a table; it outlives the frame's being freed.            *)
(***************************************************************************)
EXTENDS PageBitmap

CONSTANTS
  Levels,      \* levels of page tables (LEVEL_MASKS)
  Fanout,      \* entries of a table
  PageBytes,   \* size of a page, in map_mem_copy_from_buffer
  Root,        \* the frame of the pml4
  Task,        \* tasks that may be running
  MapRanges,   \* ranges of pages that are mapped
  Buffers,     \* page, offset and size of the buffers that are copied
  Elsewhere,   \* the sets of frames that may be in use for something else
  MaxCalls     \* bound on the operations that are started

ASSUME LevelsAssumption == Levels \in Nat \ {0} /\ Fanout \in Nat \ {0}
ASSUME RootAssumption == Root \in Bit
ASSUME RangesAssumption == MapRanges \subseteq [start : Nat, len : Nat \ {0}]
ASSUME BuffersAssumption ==
  /\ PageBytes \in Nat \ {0}
  /\ Buffers \subseteq [page : Nat, offset : 0 .. PageBytes - 1, size : Nat \ {0}]
ASSUME ElsewhereAssumption == Elsewhere \subseteq SUBSET Bit

\* The pages below an entry, n levels above a page.
Span[n \in 0 .. Levels] == IF n = 0 THEN 1 ELSE Fanout * Span[n - 1]

VirtualPage == 0 .. Span[Levels] - 1
Index == 0 .. Fanout - 1

Entry == [present : BOOLEAN, writable : BOOLEAN, no_execute : BOOLEAN, addr : Bit]
ZERO == [present |-> FALSE, writable |-> FALSE, no_execute |-> FALSE, addr |-> 0]
EntryOf(writable, no_execute, addr) ==
  [present |-> TRUE, writable |-> writable, no_execute |-> no_execute, addr |-> addr]

VARIABLES
  al,      \* the physical page allocator
  tables,  \* frame -> its entries
  task,    \* the state of each task
  segs,    \* the ranges that are mapped, as their callers know them
  calls,   \* operations started
  status,  \* "live", "dropped", or why the kernel has panicked
  failed   \* map_blank_page has returned OutOfMemory (history)

vars == <<al, tables, task, segs, calls, status, failed>>

Idle == [state |-> "idle", start |-> 0, len |-> 0, current |-> 0, left |-> 0,
         count |-> 0, writable |-> FALSE]

TypeOK ==
  /\ al \in Allocator
  /\ tables \in [Bit -> [Index -> Entry]]
  /\ \A t \in Task :
       /\ task[t].state \in {"idle", "mapping", "rewinding", "unmapping"}
       /\ {task[t].start, task[t].current - 1} \subseteq VirtualPage \cup {-1}
       /\ task[t].left \in 0 .. Span[Levels]
       /\ task[t].count \in Nat
  /\ \A s \in segs : s.start \in VirtualPage /\ s.start + s.len - 1 \in VirtualPage
  /\ calls \in 0 .. MaxCalls
  /\ status \in {"live", "dropped", "PageAlreadyExists", "pages_allocated",
                 "copy_from_slice", "null_table"}
  /\ failed \in BOOLEAN

\* UserPageMapper::new
Init ==
  /\ \E frames \in Elsewhere : al = NewAllocator({Root} \cup frames, BitmapBits)
  /\ tables = [f \in Bit |-> [x \in Index |-> ZERO]]
  /\ task = [t \in Task |-> Idle]
  /\ segs = {}
  /\ calls = 0
  /\ status = "live"
  /\ failed = FALSE
-----------------------------------------------------------------------------
\* The index of a page in the table at level i; the levels are numbered from 0,
\* that of the pml4.
IndexAt(va, i) == (va \div Span[Levels - 1 - i]) % Fanout

None == -1

\* Where the walk for va goes from a table at level i.
Follow(tb, va, i) ==
  [f \in Bit \cup {None} |->
     IF f = None \/ ~tb[f][IndexAt(va, i)].present THEN None ELSE tb[f][IndexAt(va, i)].addr]

\* The tables that the walk for va goes through, by their level, and the page
\* at its end; None after an entry that is not present.
Walk(tb, va) ==
  LET at[i \in 0 .. Levels] == IF i = 0 THEN Root ELSE Follow(tb, va, i - 1)[at[i - 1]]
  IN  at

IsMapped(tb, va) == Walk(tb, va)[Levels] # None

\* s holds the bitmap and the tables that an operation changes, the pages it
\* has allocated or freed, and its result; while it descends, the table it has
\* come to and the tables that it has created.
State == [al |-> al, tables |-> tables, count |-> 0, result |-> "Ok", f |-> Root, created |-> {}]

Becomes(s) == al' = s.al /\ tables' = s.tables

\* A page is reserved, zeroed and entered in the table s.f.  A parent has the
\* flags READ_WRITE_EXECUTE; the pages that are mapped are not executable.
AddPage(s, x, writable, parent) ==
  LET new == FirstFree(s.al)
      zeroed == [s.tables EXCEPT ![new] = [y \in Index |-> ZERO]]
  IN  [s EXCEPT !.al = Reserve(@),
                !.tables = [zeroed EXCEPT ![s.f][x] = EntryOf(writable, ~parent, new)],
                !.count = @ + 1]

\* Mutant: tables that exist are replaced.
ParentOverwrites(s, va, i) ==
  IF s.result # "Ok" THEN s
  ELSE IF ~HasFree(s.al) THEN [s EXCEPT !.result = "OutOfMemory"]
  ELSE [AddPage(s, IndexAt(va, i), TRUE, TRUE) EXCEPT !.f = FirstFree(s.al)]

\* An iteration of the loops of map_blank_page and map_mem_copy_from_buffer at
\* a level above the last: a table that is missing is added.
Parent(s, va, i) ==
  LET e == s.tables[s.f][IndexAt(va, i)]
      new == FirstFree(s.al)
  IN  IF s.result # "Ok" THEN s
      ELSE IF e.present THEN [s EXCEPT !.f = e.addr]
      ELSE IF ~HasFree(s.al) THEN [s EXCEPT !.result = "OutOfMemory"]
      ELSE [AddPage(s, IndexAt(va, i), TRUE, TRUE) EXCEPT !.f = new, !.created = @ \cup {new}]

\* The iterations up to the table of the last level.
Parents(s, va) ==
  LET at[i \in 0 .. Levels - 1] == IF i = 0 THEN s ELSE Parent(at[i - 1], va, i - 1)
  IN  at[Levels - 1]

\* free_page for each of a set of frames
FreeAll(a, frames) ==
  LET freed == {f \in frames : f < a.total_pages}
  IN  [a EXCEPT !.reserved = @ \ freed, !.free_pages = @ + Cardinality(freed)]

\* map_blank_page.  pages_used is incremented before a page is reserved.  If
\* there is none, the parents created by this call are freed; the entries that
\* refer to them are kept.
MapBlankPage(s, va, writable) ==
  LET p == Parents(s, va)
      x == IndexAt(va, Levels - 1)
  IN  IF p.result = "Ok" /\ p.tables[p.f][x].present THEN [p EXCEPT !.result = "PageAlreadyExists"]
      ELSE IF p.result = "Ok" /\ HasFree(p.al) THEN AddPage(p, x, writable, FALSE)
      ELSE [p EXCEPT !.al = FreeAll(@, p.created),
                     !.count = @ + 1 - Cardinality(p.created),
                     !.result = "OutOfMemory"]

\* Mutant: the address of the entry is cleared and its flags are kept.
FreeEntryKeepsFlags(s, f, x) ==
  [s EXCEPT !.al = Free(@, s.tables[f][x].addr),
            !.tables[f][x].addr = 0,
            !.count = @ + 1]

\* The frame that an entry refers to is freed and the entry cleared.
FreeEntry(s, f, x) ==
  [s EXCEPT !.al = Free(@, s.tables[f][x].addr),
            !.tables[f][x] = ZERO,
            !.count = @ + 1]

\* unmap_page; count is the number of pages freed.  The entries on the way to
\* the page are freed from the last one up, until depth tables are checked.
\* The test for an empty table only leaves the loop over its entries: the next
\* table's entry is always cleared and the table freed.
UnmapPage(s, va, depth) ==
  LET walk == Walk(s.tables, va)
      up[n \in 0 .. Levels] ==
        IF n = 0 THEN s ELSE FreeEntry(up[n - 1], walk[Levels - n], IndexAt(va, Levels - n))
  IN  IF walk[Levels] = None THEN s
      ELSE up[IF depth < Levels THEN depth + 1 ELSE Levels]

\* The number of tables to check after page, when the next page is next: the
\* levels from the first one on at which their indices differ.
FreeTableCheckDepth(page, next) ==
  Cardinality({i \in 0 .. Levels - 1 : \E j \in 0 .. i : IndexAt(page, j) # IndexAt(next, j)})
-----------------------------------------------------------------------------
Overlaps(s, start, len) == s.start < start + len /\ start < s.start + s.len

\* The ranges that are mapped or that a task is working on.
Ranges ==
  segs \cup {[start |-> task[t].start, len |-> task[t].len] :
             t \in {u \in Task : task[u].state # "idle"}}

Start(t, state, start, len, writable) ==
  /\ status = "live"
  /\ calls < MaxCalls
  /\ task[t].state = "idle"
  /\ calls' = calls + 1
  /\ task' = [task EXCEPT ![t] = [state |-> state, start |-> start, len |-> len,
                                  current |-> start, left |-> len, count |-> 0,
                                  writable |-> writable]]

\* MapMemTask::new, for a range in which nothing is mapped
StartMap(t, start, len, writable) ==
  /\ start + len - 1 \in VirtualPage
  /\ \A s \in Ranges : ~Overlaps(s, start, len)
  /\ Start(t, "mapping", start, len, writable)
  /\ UNCHANGED <<al, tables, segs, status, failed>>

\* UnmapMemTask::new, for a range that was mapped
StartUnmap(t, s) ==
  /\ Start(t, "unmapping", s.start, s.len, FALSE)
  /\ segs' = segs \ {s}
  /\ UNCHANGED <<al, tables, status, failed>>

Previous(va) == IF va = 0 THEN 0 ELSE va - 1  \* saturating_sub

\* MapMemTask::run in the state Mapping
MapStep(t) ==
  LET k == task[t]
      Finish(s) ==
        /\ Becomes(s)
        /\ status' = IF s.result = "PageAlreadyExists" THEN s.result ELSE status
        /\ failed' = (failed \/ s.result = "OutOfMemory")
        /\ CASE s.result = "Ok" ->
                  /\ task' = [task EXCEPT ![t] =
                       IF k.left = 1 THEN Idle
                       ELSE [k EXCEPT !.current = @ + 1, !.left = @ - 1, !.count = s.count]]
                  /\ segs' = segs \cup
                       (IF k.left = 1 THEN {[start |-> k.start, len |-> k.len]} ELSE {})
             [] s.result = "OutOfMemory" ->
                  /\ task' = [task EXCEPT ![t] = [k EXCEPT !.state = "rewinding",
                                !.current = Previous(@), !.count = s.count]]
                  /\ UNCHANGED segs
             [] OTHER -> UNCHANGED <<task, segs>>
  IN  /\ status = "live"
      /\ k.state = "mapping"
      /\ \E s \in {MapBlankPage([State EXCEPT !.count = k.count], k.current, k.writable)} :
           Finish(s)
      /\ UNCHANGED calls

\* MapMemTask::run in the state FailRewinding
RewindStep(t) ==
  LET k == task[t]
      last == k.current = k.start
      depth == IF last THEN Levels - 1
               ELSE FreeTableCheckDepth(k.current, Previous(k.current))
      Finish(s) ==
        /\ Becomes(s)
        /\ status' = IF s.count > k.count \/ (last /\ s.count # k.count)
                     THEN "pages_allocated" ELSE status
        /\ task' = [task EXCEPT ![t] =
             IF status' # status THEN k
             ELSE IF last THEN Idle
             ELSE [k EXCEPT !.current = Previous(@), !.count = @ - s.count]]
  IN  /\ status = "live"
      /\ k.state = "rewinding"
      /\ \E s \in {UnmapPage(State, k.current, depth)} : Finish(s)
      /\ UNCHANGED <<segs, calls, failed>>

\* Mutant: a page that is not mapped is tried again.
UnmapStepRetries(t) ==
  LET k == task[t]
      depth == IF k.left = 0 THEN Levels - 1 ELSE FreeTableCheckDepth(k.current, k.current + 1)
      Finish(s) ==
        /\ Becomes(s)
        /\ task' = [task EXCEPT ![t] =
             IF s.count = 0 THEN k
             ELSE IF k.left = 1 THEN Idle
             ELSE [k EXCEPT !.current = @ + 1, !.left = @ - 1, !.count = @ + s.count]]
  IN  /\ status = "live"
      /\ k.state = "unmapping"
      /\ \E s \in {UnmapPage(State, k.current, depth)} : Finish(s)
      /\ UNCHANGED <<segs, calls, status, failed>>

\* UnmapMemTask::run
UnmapStep(t) ==
  LET k == task[t]
      depth == IF k.left = 0 THEN Levels - 1 ELSE FreeTableCheckDepth(k.current, k.current + 1)
      Finish(s) ==
        /\ Becomes(s)
        /\ task' = [task EXCEPT ![t] =
             IF k.left = 1 THEN Idle
             ELSE [k EXCEPT !.current = @ + 1, !.left = @ - 1, !.count = @ + s.count]]
  IN  /\ status = "live"
      /\ k.state = "unmapping"
      /\ \E s \in {UnmapPage(State, k.current, depth)} : Finish(s)
      /\ UNCHANGED <<segs, calls, status, failed>>
-----------------------------------------------------------------------------
\* Operations on a whole range.  An iteration of map_mem_copy_from_buffer, from
\* the byte offset of the page va on: pages that are missing are added, and
\* what is already mapped is written to.  The copy panics unless all that is
\* left of the buffer fits in the page.
CopyPage(s, va, offset, left) ==
  LET p == Parents([s EXCEPT !.f = Root], va)
      x == IndexAt(va, Levels - 1)
      Copied(u) == IF left > PageBytes - offset THEN [u EXCEPT !.result = "copy_from_slice"] ELSE u
  IN  IF p.result # "Ok" THEN p
      ELSE IF p.tables[p.f][x].present THEN Copied(p)
      ELSE IF HasFree(p.al) THEN Copied(AddPage(p, x, FALSE, FALSE))
      ELSE [p EXCEPT !.result = "OutOfMemory"]

\* The iterations for the first n pages; nothing is left after the first.
CopyPages(va, offset, left, n) ==
  LET after[k \in 0 .. n] ==
        IF k = 0 THEN State
        ELSE IF k = 1 THEN CopyPage(after[0], va, offset, left)
        ELSE CopyPage(after[k - 1], va + k - 1, 0, 0)
  IN  after[n]

\* map_mem_copy_from_buffer, at an offset in the page va
MapMemCopyFromBuffer(va, offset, size, buffer) ==
  LET num_pages == (offset + size - 1) \div PageBytes + 1
      Finish(s) ==
        /\ Becomes(s)
        /\ status' = IF s.result = "copy_from_slice" THEN s.result ELSE status
        /\ segs' = segs \cup (IF s.result = "Ok" THEN {[start |-> va, len |-> num_pages]} ELSE {})
  IN  /\ status = "live"
      /\ calls < MaxCalls
      /\ calls' = calls + 1
      /\ va + num_pages - 1 \in VirtualPage
      /\ \A s \in Ranges : ~Overlaps(s, va, num_pages)
      /\ \E s \in {CopyPages(va, offset, buffer, num_pages)} : Finish(s)
      /\ UNCHANGED <<task, failed>>

\* An iteration of unmap_mem, change_flags and change_flags_relaxing: the entry
\* of a page that is mapped becomes new of the frame that it refers to, which is
\* freed if the new entry is not present.  An absent parent is followed to a
\* table at address 0.
ChangeLeaf(s, va, new) ==
  LET f == Walk(s.tables, va)[Levels - 1]
      x == IndexAt(va, Levels - 1)
      e == s.tables[f][x]
  IN  IF s.result # "Ok" THEN s
      ELSE IF f = None THEN [s EXCEPT !.result = "null_table"]
      ELSE IF ~e.present THEN s
      ELSE [s EXCEPT !.tables[f][x] = new[e.addr],
                     !.al = IF new[e.addr].present THEN @ ELSE Free(@, e.addr)]

ChangeLeaves(r, new) ==
  LET after[n \in 0 .. r.len] ==
        IF n = 0 THEN State ELSE ChangeLeaf(after[n - 1], r.start + n - 1, new)
  IN  after[r.len]

OnRange(r, new) ==
  /\ status = "live"
  /\ calls < MaxCalls
  /\ calls' = calls + 1
  /\ \E s \in {ChangeLeaves(r, new)} :
       Becomes(s) /\ status' = IF s.result = "Ok" THEN status ELSE s.result
  /\ UNCHANGED <<task, failed>>

UnmapMem(r) == OnRange(r, [a \in Bit |-> ZERO]) /\ segs' = segs \ {r}

ChangeFlags(r, writable) ==
  OnRange(r, [a \in Bit |-> EntryOf(writable, TRUE, a)]) /\ UNCHANGED segs

\* entry.address() has none of the flags of the entry.
ChangeFlagsRelaxing(r, writable) ==
  OnRange(r, [a \in Bit |-> EntryOf(writable, FALSE, a)]) /\ UNCHANGED segs

\* free_page_tree for the frame f at level i, with the entries from x on still
\* to be freed: what they refer to, and then f itself.
FreePageTree[i \in 0 .. Levels, f \in Bit, x \in 0 .. Fanout, a \in Allocator] ==
  LET e == tables[f][x]
  IN  IF i = Levels \/ x = Fanout THEN Free(a, f)
      ELSE FreePageTree[i, f, x + 1, IF e.present THEN FreePageTree[i + 1, e.addr, 0, a] ELSE a]

\* Drop for UserPageMapper, and for the page it owns.
Drop ==
  /\ status = "live"
  /\ \A t \in Task : task[t].state = "idle"
  /\ al' = FreePageTree[0, Root, 0, al]
  /\ status' = "dropped"
  /\ segs' = {}
  /\ UNCHANGED <<tables, task, calls, failed>>
-----------------------------------------------------------------------------
Next ==
  \/ \E t \in Task, r \in MapRanges : StartMap(t, r.start, r.len, TRUE)
  \/ \E t \in Task, s \in segs : StartUnmap(t, s)
  \/ \E t \in Task : MapStep(t)
  \/ \E t \in Task : RewindStep(t)
  \/ \E t \in Task : UnmapStep(t)
  \/ \E b \in Buffers : MapMemCopyFromBuffer(b.page, b.offset, b.size, b.size)
  \/ \E s \in segs : UnmapMem(s)
  \/ \E s \in segs, writable \in BOOLEAN : ChangeFlags(s, writable)
  \/ \E s \in segs, writable \in BOOLEAN : ChangeFlagsRelaxing(s, writable)
  \/ Drop

Spec == Init /\ [][Next]_vars

\* Tasks that are started are run again until they return Poll::Ready.
FairSpec ==
  Spec /\ \A t \in Task : WF_vars(MapStep(t) \/ RewindStep(t) \/ UnmapStep(t))
-----------------------------------------------------------------------------
\* The tables that are reached from the pml4, by their level, and the entries
\* of all of them that are present.
Reached ==
  LET Below(ts) ==
        {tables[e[1]][e[2]].addr : e \in {g \in ts \X Index : tables[g[1]][g[2]].present}}
      at[i \in 0 .. Levels - 1] == IF i = 0 THEN {Root} ELSE Below(at[i - 1])
  IN  at

Entries ==
  {e \in (UNION {Reached[i] : i \in 0 .. Levels - 1}) \X Index : tables[e[1]][e[2]].present}

\* Whatever the tasks do between each other's steps, every entry that can be
\* reached refers to a frame that is reserved and that no other entry refers
\* to: no freed frame is used as a table or as a page, and no frame is used
\* twice.  The allocator's counter is right, so no frame was freed twice.  Once
\* map_blank_page has failed that is so no longer.
TablesSound ==
  status = "live" /\ ~failed =>
    LET entries == Entries
        Addr(e) == tables[e[1]][e[2]].addr
    IN  /\ \A e \in entries : Addr(e) \in al.reserved \ {Root}
        /\ \A e, g \in entries : Addr(e) = Addr(g) => e = g
        /\ al.free_pages = Cardinality(Bit \ al.reserved)

Runs(t, state) == task[t].state = state /\ task'[t] # task[t]

MapKeepsOthers ==
  ~failed => \A t \in Task : Runs(t, "mapping") =>
    \A va \in VirtualPage \ {task[t].current} :
      IsMapped(tables, va) => Walk(tables', va) = Walk(tables, va)

RewindRemoves ==
  \A t \in Task : Runs(t, "rewinding") =>
    \A va \in VirtualPage :
      IsMapped(tables', va) => IsMapped(tables, va) /\ Walk(tables', va) = Walk(tables, va)

\* An iteration of MapMemTask, also one that runs out of memory, changes no
\* translation but that of its page, until a call of map_blank_page has failed;
\* and the cleanup of a task that failed adds no translation and changes none
\* other than by removing it, whatever it goes through.
TasksKeepOthers == [][MapKeepsOthers /\ RewindRemoves]_vars

\* A task that is run again and again maps or unmaps all of its pages, or runs
\* out of memory and starts to clean up.
TaskEndsOrFails ==
  \A t \in Task :
    task[t].state \in {"mapping", "unmapping"} ~>
      task[t].state \in {"idle", "rewinding"} \/ status # "live"

\* A task that is run again and again completes, also if it fails and "cleans
\* up all intermediate allocated pages".
TaskTerminates ==
  \A t \in Task : task[t].state # "idle" ~> task[t].state = "idle" \/ status # "live"

\* unmap_page frees parent tables if "they're empty and able to be freed": an
\* iteration of UnmapMemTask unmaps only its page.
UnmapKeepsOthers ==
  \A t \in Task : Runs(t, "unmapping") =>
    \A va \in VirtualPage \ {task[t].current} :
      IsMapped(tables, va) => Walk(tables', va) = Walk(tables, va)

OnlyEmptyTablesFreed == [][UnmapKeepsOthers]_vars

\* When MapMemTask fails "it cleans up all intermediate allocated pages": the
\* assertion that none is left holds.
RewindCleansUp == status # "pages_allocated"

\* change_flags_relaxing "relaxes the flags": a page that can be written can
\* be written after it.
RelaxKeepsWrite ==
  \A s \in segs, w \in BOOLEAN : ChangeFlagsRelaxing(s, w) =>
    \A f \in Bit, x \in Index : tables[f][x].writable => tables'[f][x].writable

RelaxingOnlyAdds == [][RelaxKeepsWrite]_vars

\* map_mem_copy_from_buffer "fills pages with data from provided buffer", also
\* when the buffer is longer than a page.
BufferIsCopied == status # "copy_from_slice"
=============================================================================
