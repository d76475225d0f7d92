------------------------------ MODULE KernelLog -----------------------------
(***************************************************************************)
(* Logging and panics: the logger (logging.rs) with its two outputs, the   *)
(* debug port and the terminal, the start of the terminal in kernel_main   *)
(* (main.rs) with the search for its font in the initial ramdisk           *)
(* (cpio.rs), and the panic handler with its stack trace (debugging.rs).   *)
(*                                                                         *)
(* There is one thread.  CURRENT_LOGGER, TERMINAL and FRAMEBUFFER are spin *)
(* locks that are not reentrant: taking one that is held never returns.    *)
(* A panic does not unwind, so that what was held stays held.              *)
(***************************************************************************)
EXTENDS Terminal, FiniteSets

CONSTANTS
  Records,     \* texts that the kernel logs, without the newline
  MaxRecords,  \* bound: how many
  Archives,    \* initial ramdisks: [nodes, padding, font]
  FontPath,
  NodeSize,    \* size_of::<Node>()
  Stacks       \* [frames, first]: frame -> [next, ip], and the address to start at

\* A frame's caller is above it: a frame pointer that has been overwritten can
\* make the trace go round for ever.
ASSUME StackAssumption ==
  \A s \in Stacks : \A f \in DOMAIN s.frames : s.frames[f].next >= f \/ s.frames[f].next = 0

ASSUME RecordsAssumption == Records \subseteq Seq(STRING)

VARIABLES
  pc,        \* where the thread is
  held,      \* the locks that are held
  record,    \* what is being logged, with the newline
  caller,    \* where the log call returns to
  pos,       \* the character of record that the terminal writes next
  reported,  \* ArchWriter was given the information of a panic
  logged,    \* how many records the kernel has logged
  present,   \* TERMINAL is Some
  started,   \* kernel_main has come to its framebuffer block
  node,      \* the node that find_file looks at
  initrd, stack,
  frame, last_frame,   \* StackFrameIterator
  depth,     \* PANIC_DEPTH
  disabled,  \* DISABLE_TRACE_LOGGING
  inside,    \* a panic has begun while a lock was held
  panics,    \* how many panics have begun
  swallowed  \* the last newline was taken by an escape sequence

logging == <<record, caller, pos>>
booting == <<present, started, node>>
given == <<initrd, stack>>
history == <<reported, logged, swallowed>>
tracing == <<frame, last_frame, depth, disabled>>
panicking == <<tracing, inside, panics>>
vars == <<pc, held, logging, booting, given, panicking, history, termVars>>

\* A message of kernel_main, of the panic handler, and a line of the trace.
Notice == <<"n">>
PanicInfo == <<"!">>
TraceLine == <<"t">>

NoArchive == [nodes |-> <<>>, padding |-> 0, font |-> "valid"]
NoStack == [frames |-> [f \in {} |-> 0], first |-> 0]

Init ==
  /\ TerminalInit
  /\ pc = "kernel"
  /\ held = {}
  /\ record = <<>> /\ caller = "kernel" /\ pos = 1
  /\ present = FALSE /\ started = FALSE /\ node = 1
  /\ initrd = NoArchive /\ stack = NoStack
  /\ frame = 0 /\ last_frame = 0
  /\ depth = 0 /\ disabled = FALSE /\ inside = FALSE /\ panics = 0
  /\ swallowed = FALSE /\ reported = FALSE /\ logged = 0

TypeOK ==
  /\ held \subseteq {"CURRENT_LOGGER", "TERMINAL", "FRAMEBUFFER"}
  /\ pos \in 1 .. Len(record) + 1
  /\ {present, started, disabled, inside, swallowed, broken} \subseteq BOOLEAN
  /\ logged \in 0 .. MaxRecords
  /\ depth \in 0 .. 3 /\ panics \in 0 .. 3
-----------------------------------------------------------------------------
\* A log macro is called with a text, and returns to a place.
Log(text, to) ==
  /\ record' = text \o <<"nl">>
  /\ caller' = to
  /\ pos' = 1
  /\ pc' = "lock_logger"

\* panic is entered, with some more locks held than before the step.
Panic(locks) ==
  /\ pc' = "panic"
  /\ held' = held \cup locks
  /\ inside' = (inside \/ held \cup locks # {})
  /\ panics' = panics + 1

NoPanic == UNCHANGED <<held, inside, panics>>

LockLogger ==
  /\ pc = "lock_logger"
  /\ IF "CURRENT_LOGGER" \in held
     THEN pc' = "deadlock" /\ UNCHANGED held
     ELSE pc' = "serial" /\ held' = held \cup {"CURRENT_LOGGER"}
  /\ UNCHANGED <<logging, booting, given, panicking, history, termVars>>

\* write_fmt: ArchWriter gets the whole text first.
Serial ==
  /\ pc = "serial"
  /\ reported' = (reported \/ record = PanicInfo \o <<"nl">>)
  /\ pc' = "lock_terminal"
  /\ UNCHANGED <<held, logging, booting, given, panicking, logged, swallowed, termVars>>

LockTerminal ==
  /\ pc = "lock_terminal"
  /\ IF "TERMINAL" \in held
     THEN pc' = "deadlock" /\ UNCHANGED held
     ELSE /\ pc' = IF present THEN "write" ELSE "unlock"
          /\ held' = held \cup {"TERMINAL"}
  /\ UNCHANGED <<logging, booting, given, panicking, history, termVars>>

\* A character of the record.  render holds FRAMEBUFFER while it draws, and
\* panics with it.
Write ==
  LET c == record[pos]
  IN  /\ pc = "write"
      /\ WriteChar(c)
      /\ swallowed' = IF c = "nl" THEN ~Text ELSE swallowed
      /\ IF ~broken'
         THEN /\ pc' = IF pos = Len(record) THEN "unlock" ELSE "write"
              /\ pos' = pos + 1
              /\ NoPanic
         ELSE /\ Panic(IF Text THEN {"FRAMEBUFFER"} ELSE {})
              /\ UNCHANGED pos
      /\ UNCHANGED <<record, caller, booting, given, tracing, reported, logged>>

\* Mutant: the guard of the logger is leaked.
UnlockTerminalOnly ==
  /\ pc = "unlock"
  /\ held' = held \ {"TERMINAL"}
  /\ pc' = caller
  /\ UNCHANGED <<logging, booting, given, panicking, history, termVars>>

\* The guards are dropped, and the log macro returns.
Unlock ==
  /\ pc = "unlock"
  /\ held' = held \ {"TERMINAL", "CURRENT_LOGGER"}
  /\ pc' = caller
  /\ UNCHANGED <<logging, booting, given, panicking, history, termVars>>
-----------------------------------------------------------------------------
\* kernel_main notes how many framebuffers there are.
StartFramebuffer ==
  /\ pc = "kernel" /\ ~started
  /\ started' = TRUE
  /\ \E to \in {"kernel", "framebuffer"} : Log(Notice, to)
  /\ UNCHANGED <<held, present, node, given, panicking, history, termVars>>

\* A framebuffer in the lower half panics, one that is physical or of another
\* format is noted and ignored; otherwise it is cleared and stored, and the
\* font is looked for in the initial ramdisk.
UseFramebuffer ==
  /\ pc = "framebuffer"
  /\ \/ Panic({}) /\ UNCHANGED logging
     \/ Log(Notice, "kernel") /\ NoPanic
     \/ pc' = "find_file" /\ UNCHANGED logging /\ NoPanic
  /\ initrd' \in Archives
  /\ UNCHANGED <<booting, stack, tracing, history, termVars>>

\* The font file has been found: one that is shorter than its header panics, one
\* that is not valid is noted.
UseFont ==
  \/ initrd.font = "valid" /\ pc' = "new_terminal" /\ UNCHANGED logging /\ NoPanic
  \/ initrd.font = "invalid" /\ Log(Notice, "kernel") /\ NoPanic
  \/ initrd.font = "short" /\ Panic({}) /\ UNCHANGED logging

\* A node of find_file, or the padding of zeros after the last: if it is as long
\* as a node, its lengths are decoded before its magic is compared, and a zero
\* is less than the digit '0'.
FindFile ==
  /\ pc = "find_file"
  /\ \/ /\ node \in DOMAIN initrd.nodes /\ initrd.nodes[node] # FontPath
        /\ node' = node + 1
        /\ UNCHANGED <<pc, logging>> /\ NoPanic
     \/ /\ node \in DOMAIN initrd.nodes /\ initrd.nodes[node] = FontPath
        /\ UseFont
        /\ UNCHANGED node
     \/ /\ node \notin DOMAIN initrd.nodes
        /\ IF initrd.padding + 1 < NodeSize
           THEN Log(Notice, "kernel") /\ NoPanic
           ELSE Panic({}) /\ UNCHANGED logging
        /\ UNCHANGED node
  /\ UNCHANGED <<present, started, given, tracing, history, termVars>>

\* TERMINAL is locked for Terminal::new, which is unwrapped.
NewTerminal ==
  /\ pc = "new_terminal"
  /\ \/ /\ present' = TRUE
        /\ Log(Notice, "kernel")
        /\ NoPanic
     \/ /\ Panic({"TERMINAL"})
        /\ UNCHANGED <<present, logging>>
  /\ UNCHANGED <<started, node, given, tracing, history, termVars>>
-----------------------------------------------------------------------------
PanicLog ==
  /\ pc = "panic"
  /\ Log(PanicInfo, "panic_depth")
  /\ UNCHANGED <<held, booting, given, panicking, history, termVars>>

\* Where the panic handler goes after it has logged, by the depth it finds.
AfterDepth(d) == CASE d \in {0, 1} -> "panic_trace" [] d = 2 -> "halt" [] d > 2 -> "spin"

\* PANIC_DEPTH.fetch_add
CountPanic ==
  /\ pc = "panic_depth"
  /\ depth' = depth + 1
  /\ disabled' = (disabled \/ depth = 1)
  /\ pc' = AfterDepth(depth)
  /\ UNCHANGED <<held, logging, booting, given, frame, last_frame, inside, panics, history, termVars>>

\* print_stack_trace starts from the frame pointer, on the stack of the moment.
StartTrace ==
  /\ pc = "panic_trace"
  /\ IF disabled
     THEN pc' = "halt" /\ UNCHANGED <<frame, last_frame, stack>>
     ELSE /\ pc' = "frames"
          /\ stack' \in Stacks
          /\ frame' = stack'.first /\ last_frame' = 0
  /\ UNCHANGED <<held, logging, booting, initrd, depth, disabled, inside, panics, history, termVars>>

Aligned(f) == f % 2 = 0

\* One step of StackFrameIterator, where a frame stops the iteration or not, and
\* the line that is logged for it.  A frame that is not mapped raises a page
\* fault, whose handler panics.
TraceStep(stops) ==
  /\ pc = "frames"
  /\ IF stops
     THEN pc' = "halt" /\ UNCHANGED <<logging, frame, last_frame>> /\ NoPanic
     ELSE IF frame \notin DOMAIN stack.frames
     THEN last_frame' = frame /\ Panic({}) /\ UNCHANGED <<logging, frame>>
     ELSE /\ last_frame' = frame
          /\ frame' = stack.frames[frame].next
          /\ IF stack.frames[frame].ip = 0
             THEN pc' = "halt" /\ UNCHANGED logging
             ELSE Log(TraceLine, "frames")
          /\ NoPanic
  /\ UNCHANGED <<booting, given, depth, disabled, history, termVars>>

\* Mutant: a frame that is its own caller is traced again.
TraceFrameAgain == TraceStep(frame = 0 \/ ~Aligned(frame))

TraceFrame == TraceStep(frame = last_frame \/ frame = 0 \/ ~Aligned(frame))
-----------------------------------------------------------------------------
KernelLogs ==
  /\ pc = "kernel"
  /\ logged < MaxRecords
  /\ logged' = logged + 1
  /\ \E r \in Records : Log(r, "kernel")
  /\ UNCHANGED <<held, booting, given, panicking, reported, swallowed, termVars>>

\* An assertion of the kernel fails, or an exception is raised, of which some (a
\* machine check, a non-maskable interrupt) come at any time, also while the
\* kernel logs: their handlers panic.  One comes at most.
Exception ==
  /\ panics = 0
  /\ Panic({})
  /\ UNCHANGED <<logging, booting, given, tracing, history, termVars>>

Thread ==
  \/ LockLogger \/ Serial \/ LockTerminal \/ Write \/ Unlock
  \/ UseFramebuffer \/ FindFile \/ NewTerminal
  \/ PanicLog \/ CountPanic \/ StartTrace \/ TraceFrame

Next == Thread \/ StartFramebuffer \/ KernelLogs \/ Exception

Spec == Init /\ [][Next]_vars

\* No exception is raised: what panics is the code of this module.
OwnSpec == Init /\ [][Thread \/ StartFramebuffer \/ KernelLogs]_vars

\* The thread goes on unless it waits for a lock.
FairSpec == Spec /\ WF_vars(Thread)
-----------------------------------------------------------------------------
\* Whatever has been logged is on the screen when the log macro has returned, in
\* the kernel and in the panic handler, though render draws only at the end of a
\* line and only what differs from the back buffer: unless an escape sequence
\* has swallowed the end of the record.
ScreenShown ==
  pc \in {"kernel", "panic_depth", "frames", "halt"} /\ ~swallowed =>
    \A c \in Cell : screen[c] = Shown(front_buffer[c])

\* The thread waits for a lock that it holds only if a panic began while it held
\* one: kernel_main, the logger, render and the panic handler take their locks in
\* an order in which none is taken twice, and give them back.
NoSelfDeadlock == pc = "deadlock" => inside

\* A panic that begins while no lock is held is reported and ends in the halt
\* loop, through the stack trace and the second panic of a frame that is not
\* mapped.  (A character that render cannot
\* draw, left over in the buffer, stops it after the report.)
PanicHalts ==
  (pc = "panic" /\ ~inside) ~> (reported /\ (pc = "halt" \/ broken))

\* The panic handler is there "to get some debug information out if the kernel
\* crashes" (debugging.rs:11): when the thread has stopped, it is out.
PanicReported == pc \in {"halt", "spin", "deadlock"} => reported
=============================================================================
