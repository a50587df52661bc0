----------------------------- MODULE UserFault -----------------------------
(***************************************************************************)
(* The four userfaultfd tests of Kernel-dev/user_fault_handler.  main maps *)
(* a buffer, registers it with a userfaultfd, starts a handler thread and  *)
(* touches the pages.  program is                                          *)
(*   "poll"      commit, register, touch; the handler copies a page in     *)
(*   "prefetch"  registered in WP mode: a swap fault is only reported, and *)
(*               the handler asks the kernel to prefetch the next page     *)
(*   "multi"     register the reserved range, then commit it again         *)
(*   "merge"     commit three adjacent ranges, register them at once; the  *)
(*               handler prefetches and copies, as the one of "multi"      *)
(*                                                                         *)
(* The kernel (faults, UFFDIO_COPY, UFFDIO_SWAP_PREFETCH, swapping) is     *)
(* external.  hit records the members of Faults that occurred, each at     *)
(* most once:                                                              *)
(*   "setup"     userfaultfd, UFFDIO_API or UFFDIO_REGISTER failed         *)
(*   "mmap"      reserving or committing a range failed                    *)
(*   "thread"    pthread_create failed (its result is not looked at)       *)
(*   "eintr"     poll returned -1, and the loop goes on                    *)
(*   "poll", "read", "prefetch", "copy"   that call of the handler failed  *)
(*   "lock"      fprintf formats while it holds the lock of the stream, as *)
(*               a C library may; chosen in Init                           *)
(***************************************************************************)
EXTENDS Naturals, Sequences

CONSTANTS
  Faults,
  Programs,
  PagesPerRange,  \* user_buffer_size / PAGE_SIZE
  WordsPerPage,   \* of "prefetch": 512 in the code
  Reads           \* random reads of "prefetch": 128 in the code

RangePages(r) == ((r - 1) * PagesPerRange + 1) .. (r * PagesPerRange)

Pages == 1 .. (3 * PagesPerRange)

VARIABLES
  program,
  main,     \* "run", "returned", "ended", "crashed"
  pc,       \* which call of Main is next
  at,       \* how far the loop of the current call is
  user_buf, \* user_buf is not NULL
  mapped, reg, \* pages that are mapped, and registered with the userfaultfd
  page,     \* "absent", "zero", "buf" (the handler's), "data" (main's), "swapped"
  seen,     \* what main read last from the page
  wait,     \* the page in whose fault main waits, or 0
  msg,      \* the page whose fault message is pending, or 0
  handler, got,
  args,     \* struct pthread_args: "unset", "heap", "stack", "freed", "dead"
  hit

vars == <<program, main, pc, at, user_buf, mapped, reg, page, seen, wait, msg, handler, got, args, hit>>

memory == <<user_buf, mapped, reg>>
faulting == <<wait, msg>>
thread == <<handler, got, args>>

Init ==
  /\ program \in Programs /\ hit \in {{}, Faults \cap {"lock"}}
  /\ main = "run" /\ pc = 1 /\ at = 1 /\ user_buf = FALSE
  /\ mapped = {} /\ reg = {} /\ page = [g \in Pages |-> "absent"]
  /\ seen = [g \in Pages |-> "none"] /\ wait = 0 /\ msg = 0
  /\ handler = "none" /\ got = 0 /\ args = "unset"

Hit(f) == f \in Faults \ hit /\ hit' = hit \cup {f}

-----------------------------------------------------------------------------
(* main: the calls it makes in order, each with the range it is about      *)

MainPoll ==
  << <<"userfaultfd", 1>>, <<"api", 1>>, <<"commit", 1>>, <<"register", 1>>,
     <<"heap", 1>>, <<"touch", 1>>, <<"touch", 1>> >>

MainPrefetch ==
  << <<"userfaultfd", 1>>, <<"api", 1>>, <<"reserve", 1>>, <<"commit", 1>>,
     <<"register", 1>>, <<"heap", 1>>, <<"write", 1>>, <<"random", 1>> >>

MainMulti ==
  << <<"userfaultfd", 1>>, <<"api", 1>>, <<"reserve", 1>>, <<"register", 1>>,
     <<"stack", 1>>, <<"commit", 1>>, <<"touch", 1>> >>

\* Mutant: the third range is committed after the registration.
MainMergeEarly ==
  << <<"userfaultfd", 1>>, <<"api", 1>>, <<"commit", 1>>, <<"commit", 2>>, <<"register", 1>>,
     <<"commit", 3>>, <<"stack", 1>>, <<"touch", 1>>, <<"touch", 2>>, <<"touch", 3>> >>

MainMerge ==
  << <<"userfaultfd", 1>>, <<"api", 1>>, <<"commit", 1>>, <<"commit", 2>>, <<"commit", 3>>,
     <<"register", 1>>, <<"stack", 1>>, <<"touch", 1>>, <<"touch", 2>>, <<"touch", 3>> >>

Main == [poll |-> MainPoll, prefetch |-> MainPrefetch,
         multi |-> MainMulti, merge |-> MainMerge][program]

Calls(ops) == main = "run" /\ wait = 0 /\ pc <= Len(Main) /\ Main[pc][1] \in ops

Range == Main[pc][2]

Continue == pc' = pc + 1 /\ at' = 1 /\ main' = main

\* return 0; the process is still there.
Leave == main' = "returned" /\ UNCHANGED <<pc, at>>

\* userfaultfd and UFFDIO_API.
OpenUffd ==
  /\ Calls({"userfaultfd", "api"})
  /\ (Continue /\ hit' = hit) \/ (Hit("setup") /\ Leave)
  /\ UNCHANGED <<program, memory, page, seen, faulting, thread>>

\* reserve_anon_memory: PROT_NONE, which is enough to be registered.
Reserve ==
  /\ Calls({"reserve"}) /\ Continue
  /\ \/ mapped' = mapped \cup RangePages(Range) /\ user_buf' = TRUE /\ hit' = hit
     \/ Hit("mmap") /\ user_buf' = FALSE /\ mapped' = mapped
  /\ UNCHANGED <<program, reg, page, seen, faulting, thread>>

\* commit_anon_memory: MAP_FIXED replaces the vma, and what was registered with it.
Commit ==
  /\ Calls({"commit"}) /\ Continue
  /\ \/ /\ mapped' = mapped \cup RangePages(Range) /\ user_buf' = TRUE
        /\ reg' = reg \ RangePages(Range) /\ hit' = hit
        /\ page' = [g \in Pages |-> IF g \in RangePages(Range) THEN "absent" ELSE page[g]]
     \/ Hit("mmap") /\ user_buf' = FALSE /\ UNCHANGED <<mapped, reg, page>>
  /\ UNCHANGED <<program, seen, faulting, thread>>

\* The range of UFFDIO_REGISTER starts at user_buf; "merge" names the address.
Registrable == IF program = "merge" THEN mapped # {} ELSE user_buf

Register ==
  /\ Calls({"register"})
  /\ \/ Registrable /\ reg' = mapped /\ Continue /\ hit' = hit
     \/ ~Registrable /\ reg' = reg /\ Leave /\ hit' = hit
     \/ Hit("setup") /\ reg' = reg /\ Leave
  /\ UNCHANGED <<program, user_buf, mapped, page, seen, faulting, thread>>

\* pthread_create with an argument of the heap or of main's frame.
CreateThread ==
  /\ Calls({"heap", "stack"}) /\ Continue /\ args' = Main[pc][1]
  /\ \/ handler' = "loop" /\ hit' = hit
     \/ Hit("thread") /\ handler' = handler
  /\ UNCHANGED <<program, memory, page, seen, faulting, got>>

-----------------------------------------------------------------------------
(* Touching the pages                                                      *)

\* The loop of n rounds goes on, or is done.
NextRound(n) == IF at < n THEN at' = at + 1 /\ pc' = pc ELSE at' = 1 /\ pc' = pc + 1

\* main reads page g, which is there.
ReadPage(g) == seen' = [seen EXCEPT ![g] = page'[g]]

\* The kernel reports a fault for g and main waits.
ReportFault(g) == wait' = g /\ msg' = g /\ UNCHANGED <<main, pc, at, page, seen>>

\* fprintf(stderr, "... %s", ptr + i) for each page of the range.
Touch ==
  /\ Calls({"touch"})
  /\ LET g == (Range - 1) * PagesPerRange + at IN
     IF ~(g \in mapped /\ (program = "merge" \/ user_buf))
     THEN main' = "crashed" /\ UNCHANGED <<pc, at, page, seen, faulting>>
     ELSE IF page[g] = "absent" /\ g \in reg THEN ReportFault(g)
     ELSE /\ page' = [page EXCEPT ![g] = IF @ = "absent" THEN "zero" ELSE @]
          /\ ReadPage(g) /\ NextRound(PagesPerRange) /\ UNCHANGED <<main, faulting>>
  /\ UNCHANGED <<program, memory, thread, hit>>

\* The access of "prefetch" to page g, which is there: a write in the sequential
\* loop, a read in the random one.
Access(g) ==
  /\ page' = [page EXCEPT ![g] = IF Main[pc][1] = "write" \/ @ = "swapped" THEN "data" ELSE @]
  /\ \/ Main[pc][1] = "write" /\ seen' = seen /\ NextRound(PagesPerRange * WordsPerPage)
     \/ Main[pc][1] = "random" /\ ReadPage(g) /\ NextRound(Reads)

\* The sequential loop writes every word, the random loop reads anywhere.  In WP
\* mode only a fault on a page that is swapped out is reported.
AccessWords ==
  /\ Calls({"write", "random"})
  /\ \E g \in RangePages(1) :
       /\ Main[pc][1] = "write" => g = (at - 1) \div WordsPerPage + 1
       /\ IF page[g] = "swapped" THEN ReportFault(g)
          ELSE Access(g) /\ UNCHANGED <<main, faulting>>
  /\ UNCHANGED <<program, memory, thread, hit>>

\* The kernel has read the page from swap and the access completes.  A message that
\* nobody has read yet may be withdrawn.
SwapIn ==
  /\ main = "run" /\ program = "prefetch" /\ wait # 0
  /\ Access(wait) /\ wait' = 0 /\ msg' \in {0, msg}
  /\ UNCHANGED <<program, main, memory, thread, hit>>

SwapOut ==
  /\ main = "run" /\ program = "prefetch"
  /\ \E g \in RangePages(1) : page[g] = "data" /\ page' = [page EXCEPT ![g] = "swapped"]
  /\ UNCHANGED <<program, main, pc, at, memory, seen, faulting, thread, hit>>

MainReturns ==
  /\ main = "run" /\ pc > Len(Main) /\ Leave
  /\ args' = IF args = "stack" THEN "dead" ELSE args
  /\ UNCHANGED <<program, memory, page, seen, faulting, handler, got, hit>>

\* exit: the handler ends with the process.
Exit ==
  /\ main = "returned" /\ main' = "ended"
  /\ UNCHANGED <<program, pc, at, memory, page, seen, faulting, thread, hit>>

-----------------------------------------------------------------------------
(* handler: "loop", "polling", "ready" (to read), "prefetch", "copy", "gone" *)

\* Every step prints to stderr.  main may fault in the middle of its own fprintf.
StderrFree == ~("lock" \in hit /\ wait # 0 /\ program # "prefetch")

\* Between two calls of the handler.
From(stage) == /\ handler = stage /\ main \in {"run", "returned"} /\ StderrFree
               /\ UNCHANGED <<program, main, pc, at, memory, seen>>

To(stage) == handler' = stage /\ UNCHANGED <<args, hit>>

\* exit_handler: only "poll" and "prefetch" have it on the heap, and free it.
ExitHandler == handler' = "gone" /\ args' = IF args = "heap" THEN "freed" ELSE args

\* The top of the loop reads p->uffd.  When the frame that p was in is dead, the
\* descriptor may be anything, and POLLNVAL ends the handler.
TopOfLoop ==
  /\ From("loop") /\ UNCHANGED <<page, faulting, got>>
  /\ To("polling") \/ (args = "dead" /\ ExitHandler /\ hit' = hit)

\* poll returns 1, -1, or an event that is an error.
PollFd ==
  /\ From("polling") /\ UNCHANGED <<page, faulting, got>>
  /\ \/ msg # 0 /\ To("ready")
     \/ Hit("eintr") /\ handler' = "loop" /\ args' = args
     \/ Hit("poll") /\ ExitHandler

\* poll of "poll" has a timeout; the others wait for ever.
PollTimeout ==
  /\ From("polling") /\ msg = 0 /\ To("loop") /\ UNCHANGED <<page, faulting, got>>

\* Mutant: EAGAIN ends the handler as any other error.
ReadMsgFatal(stage) ==
  /\ From("ready") /\ UNCHANGED <<page, wait>>
  /\ \/ msg # 0 /\ got' = msg /\ msg' = 0 /\ To(stage)
     \/ msg = 0 /\ ExitHandler /\ UNCHANGED <<got, msg, hit>>

\* read of the message, and what is done with it first: stage.
ReadMsg(stage) ==
  /\ From("ready") /\ UNCHANGED <<page, wait>>
  /\ \/ msg # 0 /\ got' = msg /\ msg' = 0 /\ To(stage)
     \/ msg = 0 /\ To("loop") /\ UNCHANGED <<got, msg>>
     \/ Hit("read") /\ ExitHandler /\ UNCHANGED <<got, msg>>

\* UFFDIO_SWAP_PREFETCH of page g: the kernel may refuse a page that is not mapped.
Prefetch(g, stage) ==
  /\ From("prefetch") /\ UNCHANGED <<faulting, got>>
  /\ \/ /\ To(stage)
        /\ page' = [h \in Pages |-> IF h = g /\ page[h] = "swapped" THEN "data" ELSE page[h]]
     \/ g \notin mapped /\ ExitHandler /\ UNCHANGED <<page, hit>>
     \/ Hit("prefetch") /\ ExitHandler /\ page' = page

\* Mutant: the copy is tried again when it has succeeded.
CopyPageAgain ==
  /\ From("copy") /\ UNCHANGED <<got, msg>>
  /\ page' = [page EXCEPT ![got] = "buf"]
  /\ wait' = (IF wait = got THEN 0 ELSE wait) /\ To("copy")

\* Mutant: copy.mode with UFFDIO_COPY_MODE_DONTWAKE.
CopyPageNoWake ==
  /\ From("copy") /\ UNCHANGED <<got, msg, wait>>
  /\ page' = [page EXCEPT ![got] = "buf"] /\ To("loop")

\* UFFDIO_COPY of buf to page got, which wakes main; EEXIST when the page is there.
CopyPage ==
  /\ From("copy") /\ UNCHANGED <<got, msg>>
  /\ \/ IF page[got] = "absent"
        THEN /\ page' = [page EXCEPT ![got] = "buf"] /\ To("loop")
             /\ wait' = (IF wait = got THEN 0 ELSE wait)
        ELSE ExitHandler /\ UNCHANGED <<page, wait, hit>>
     \/ Hit("copy") /\ ExitHandler /\ UNCHANGED <<page, wait>>

HandlerPoll ==
  /\ program = "poll"
  /\ TopOfLoop \/ PollFd \/ PollTimeout \/ ReadMsg("copy") \/ CopyPage

\* The handler with the next page as the one to prefetch.
HandlerPrefetch ==
  /\ program = "prefetch"
  /\ TopOfLoop \/ PollFd \/ ReadMsg("prefetch") \/ Prefetch(got + 1, "loop")

\* The faulting page is prefetched (i is 0 in the loop), then copied.
PrefetchAndCopy == TopOfLoop \/ PollFd \/ ReadMsg("prefetch") \/ Prefetch(got, "copy") \/ CopyPage

HandlerMulti == program = "multi" /\ PrefetchAndCopy

HandlerMerge == program = "merge" /\ PrefetchAndCopy

-----------------------------------------------------------------------------
MainNext ==
  OpenUffd \/ Reserve \/ Commit \/ Register \/ CreateThread \/ Touch \/ AccessWords
  \/ MainReturns \/ Exit

HandlerNext == HandlerPoll \/ HandlerPrefetch \/ HandlerMulti \/ HandlerMerge

Next == MainNext \/ HandlerNext \/ SwapIn \/ SwapOut

Spec == Init /\ [][Next]_vars

\* A step that is not a fault.
Runs(A) == A /\ hit' = hit

\* Both threads are scheduled and the kernel serves a swap fault.  It need never swap a
\* page out.
FairSpec ==
  Spec /\ WF_vars(Runs(MainNext)) /\ WF_vars(Runs(HandlerNext)) /\ WF_vars(SwapIn)

-----------------------------------------------------------------------------
TypeOK ==
  /\ program \in {"poll", "prefetch", "multi", "merge"} /\ hit \subseteq Faults
  /\ main \in {"run", "returned", "ended", "crashed"}
  /\ pc \in 1 .. (Len(Main) + 1) /\ at \in Nat \ {0} /\ user_buf \in BOOLEAN
  /\ mapped \subseteq Pages /\ reg \subseteq mapped
  /\ page \in [Pages -> {"absent", "zero", "buf", "data", "swapped"}]
  /\ seen \in [Pages -> {"none", "zero", "buf", "data"}]
  /\ wait \in Pages \cup {0} /\ msg \in Pages \cup {0} /\ got \in Pages \cup {0}
  /\ handler \in {"none", "loop", "polling", "ready", "prefetch", "copy", "gone"}
  /\ args \in {"unset", "heap", "stack", "freed", "dead"}

\* What main reads shows who resolved the fault: the handler's buffer where the range
\* was registered after its last commit ("poll", "merge"), zeros from the kernel in
\* "multi", whose second mmap loses the registration, and the words of the sequential
\* loop in "prefetch", however often the page was swapped.
ReadsResolvedBy ==
  LET value == [poll |-> "buf", merge |-> "buf", multi |-> "zero", prefetch |-> "data"]
  IN  \A g \in Pages : seen[g] \in {"none", value[program]}

\* UFFDIO_COPY is only asked for the page that main still waits for and that is not
\* there: it cannot fail with EEXIST, which the handler would take for fatal.
CopyFillsHole == handler = "copy" => wait = got /\ page[got] = "absent"

\* The handler reads struct pthread_args while it exists, with one exception: after
\* main of "multi" or "merge" has returned, the top of the loop may read the dead frame
\* (never the read or an ioctl, which would act on another descriptor).
ArgsAlive ==
  /\ handler \in {"loop", "ready", "prefetch", "copy"} => args \in {"heap", "stack", "dead"}
  /\ args = "dead" => handler \notin {"ready", "prefetch", "copy"} /\ main # "run"

\* main only dies of a touch when a mapping failed, and only in the tests that do not
\* find that out from UFFDIO_REGISTER: "multi" commits after it, "merge" registers by
\* address, around the hole.
CrashExplained == main = "crashed" => "mmap" \in hit /\ program \in {"multi", "merge"}

\* The handler only leaves its loop after an error of a call, of which EAGAIN and a
\* poll that is interrupted are none; on a dead frame; or in "prefetch", after a fault
\* on the last page, when it asks for the page behind the range.
HandlerLeaves ==
  handler = "gone" =>
    \/ hit \cap {"poll", "read", "prefetch", "copy"} # {}
    \/ args = "dead"
    \/ program = "prefetch" /\ got = PagesPerRange

\* Every test ends, whichever thread is first and whatever fails in the setup.  The
\* tests whose pages only the handler fills hang for ever when there is no handler any
\* more, or when main faults with the lock of stderr and the handler prints.
TestEnds ==
  <>(\/ main \in {"ended", "crashed"}
     \/ program \in {"poll", "merge"}
          /\ hit \cap {"thread", "poll", "read", "prefetch", "copy", "lock"} # {})
====
