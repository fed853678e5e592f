---------------------------- MODULE DwarfsckMain ----------------------------
(***************************************************************************)
(* The verifier tool, dwarfsck_main of src/src/dwarfsck_main.cpp.          *)
(*                                                                         *)
(* The main thread checks the options, opens the image and does what was   *)
(* asked for: print the header, export the metadata, or check the image    *)
(* and print information, the list of files and their checksums.  For the  *)
(* checksums do_checksum walks the image and hands one job per regular     *)
(* file to a group of worker threads.  A job waits for the data of its     *)
(* file, range by range, and writes one line under a mutex.  The main      *)
(* thread waits for the jobs and returns the exit code.  An exception     *)
(* that leaves the walk unwinds do_checksum past the wait: its mutex is    *)
(* destroyed, then its worker group, and the handler of dwarfsck_main      *)
(* returns 1.                                                              *)
(*                                                                         *)
(* The file system, the block cache behind it and the streams are the      *)
(* environment: an Image record says what opening, checking, dumping and   *)
(* writing answer, and every getattr, readv, future and line may fail.     *)
(* The worker group is the environment too: its workers take the jobs in   *)
(* the order of add_job, wait() returns when none is queued or running,    *)
(* and its destructor lets the workers finish what is queued and joins     *)
(* them.                                                                   *)
(***************************************************************************)
EXTENDS Integers, Sequences, FiniteSetsExt

CONSTANTS
    Workers,    \* the threads of the worker group
    Entries,    \* the entries of the image, a sequence in data order
    Regular,    \* the entries that are regular files
    Ranges,     \* the number of futures readv returns for a regular file
    Cmdlines,   \* the command lines, as records of options
    Images      \* the images, as records of what they answer

VARIABLES
    pc,       \* main thread: "main", "checksum" (in do_checksum), "unwind"
              \* (an exception is leaving do_checksum) or "exit"
    exit,     \* the exit code, -1 while the tool runs
    errors,   \* the errors fs.check counted
    shown,    \* the kinds of output written, whole, short or cut
    todo,     \* the entries walk_data_order has not visited
    queue,    \* the jobs of the worker group that no worker has taken
    worker,   \* what each worker is doing
    mx,       \* the worker that holds the mutex, or None
    out,      \* the files whose checksum line was given to iol.out, in order
    logged    \* the files an error was logged for

vars == <<pc, exit, errors, shown, todo, queue, worker, mx, out, logged>>

None == "none"

Idling == [at |-> "idle", file |-> None, left |-> 0]

-----------------------------------------------------------------------------
(***************************************************************************)
(* dwarfsck_main up to do_checksum: the steps at which it may return, in   *)
(* program order.  A step says whether the function returns there, with    *)
(* which code, and what has been written to iol.out when it is passed.     *)
(***************************************************************************)
Step(stops, code, shows) == [stops |-> stops, code |-> code, shows |-> shows]

\* An exception that leaves the try block: the handler writes what it says
\* to iol.err and returns 1.
Throws(stops, shows) == Step(stops, 1, shows)

\* An output that a stream did not take to its end, and one that an
\* exception ended.
Short == [usage |-> "short_usage", header |-> "short_header",
          metadata |-> "short_metadata", info |-> "short_info",
          list |-> "short_list", checksums |-> "short_checksums"]

Cut == [info |-> "cut_info", list |-> "cut_list"]

\* What a write to a stream shows: the output, or the short one when the
\* stream fails.
Written(cond, kind, ok) ==
    IF cond THEN {IF ok THEN kind ELSE Short[kind]} ELSE {}

\* print_header goes with none of the other outputs.
HeaderWithOthers(o) ==
    o.print_header /\ (o.json \/ o.export \/ o.check_integrity \/ o.list
                         \/ o.checksum # "absent")

\* The errors of the check: none is made with --no-check.
Errors(o, img) == IF o.no_check THEN 0 ELSE img.errors

\* The exit code that is the number of errors.
FinalCodeCount(errs) == errs

\* The exit code at the end of the normal mode.
FinalCode(errs) == IF errs > 0 THEN 1 ELSE 0

\* What the shell sees of a process that a signal ended.
Killed == 139

\* What the shell sees of a process that std::terminate ended.
Aborted == 134

\* A stream whose state nobody looks at.
Unchecked(ok) == FALSE

\* iol.out.bad() || iol.out.fail()
Failed(ok) == ~ok

\* max_width: max_element is the end of a vector without elements.
AtEnd(img) == ~img.owners

\* do_list_files up to its first line: *max of an image without uids or
\* gids is undefined, and either ends the process or gives some width.
ListCrashes(o, img, crash) == o.list /\ AtEnd(img) /\ crash

\* do_list_files: fs.readlink(iv).value() throws for a link that cannot
\* be read, after the lines of the entries before it.
ListThrows(o, img) == o.list /\ o.verbose /\ ~img.linksOk

\* fs.check is called unless --no-check, and may throw.
CheckThrows(o, img) == ~o.no_check /\ ~img.checkOk

\* The information is printed when nothing else was asked for.
Informs(o) == ~o.quiet /\ ~o.list /\ o.checksum = "absent"

\* fs.info_as_dynamic and fs.dump may throw.
InfoThrows(o, img) == Informs(o) /\ ~img.infoOk

Steps(o, img, crash) ==
    << Step(~o.parses, 1, {}),
       Step(o.help \/ ~o.input, 0,
            Written(o.help \/ ~o.input, "usage", img.writeOk)),
       Step(o.no_check /\ o.check_integrity, 1, {}),
       Step(o.checksum = "unavailable", 1, {}),
       Step(HeaderWithOthers(o), 1, {}),
       Throws(~img.offsetOk \/ ~img.mapOk, {}),
       Step(o.print_header /\ ~img.header, 2, {}),
       Step(o.print_header /\ Failed(img.writeOk), 1,
            Written(o.print_header /\ ~img.writeOk, "header", FALSE)),
       Step(o.print_header, 0,
            Written(o.print_header, "header", img.writeOk)),
       Throws(~img.fsOk, {}),
       Step(o.export /\ ~img.openOk, 1, {}),
       Step(o.export /\ ~img.closeOk, 1,
            Written(o.export /\ ~img.exportOk, "metadata", FALSE)),
       Step(o.export, 0, Written(o.export, "metadata", img.exportOk)),
       Throws(CheckThrows(o, img), {}),
       Throws(InfoThrows(o, img),
              IF InfoThrows(o, img) THEN {Cut.info} ELSE {}),
       Step(ListCrashes(o, img, crash), Killed, {}),
       Throws(ListThrows(o, img),
              IF ListThrows(o, img) THEN {Cut.list} ELSE {}),
       Step(o.checksum = "absent", FinalCode(Errors(o, img)),
            Written(Informs(o), "info", img.writeOk)
               \cup Written(o.list, "list", img.writeOk)) >>

\* The steps dwarfsck_main passes: up to the first at which it returns, or
\* all of them on the way to do_checksum.
StepsPassed(steps) ==
    LET stopping == {i \in DOMAIN steps : steps[i].stops}
    IN 1..(IF stopping = {} THEN Len(steps) ELSE Min(stopping))

\* dwarfsck_main with these steps before it and errs errors of the check.
MainEnds(steps, errs) ==
    LET passed == StepsPassed(steps)
        last == steps[Max(passed)]
    IN /\ shown' = UNION {steps[i].shows : i \in passed}
       /\ errors' = IF Max(passed) = Len(steps) THEN errs ELSE 0
       /\ pc' = IF last.stops THEN "exit" ELSE "checksum"
       /\ exit' = IF last.stops THEN last.code ELSE -1
       /\ todo' = IF last.stops THEN <<>> ELSE Entries

Main(o, img) ==
    /\ pc = "main"
    /\ \E crash \in BOOLEAN : MainEnds(Steps(o, img, crash), Errors(o, img))
    /\ UNCHANGED <<queue, worker, mx, out, logged>>

-----------------------------------------------------------------------------
(***************************************************************************)
(* do_checksum: the walk of the main thread.                               *)
(***************************************************************************)
Walk ==
    /\ pc = "checksum"
    /\ todo # <<>>
    /\ todo' = Tail(todo)
    /\ LET de == Head(todo)
       IN \/ /\ de \notin Regular
             /\ UNCHANGED <<queue, logged>>
          \/ /\ de \in Regular
             /\ \/ queue' = Append(queue, de) /\ UNCHANGED logged
                \/ logged' = logged \cup {de} /\ UNCHANGED queue
    /\ UNCHANGED <<pc, exit, errors, shown, worker, mx, out>>

\* An exception leaves the walk, out of walk_data_order or out of add_job
\* that cannot store the job: do_checksum is left without wg.wait().  Its
\* locals are destroyed in the reverse order of their declaration, mx
\* before wg, so the workers are still running when the mutex is gone.
WalkThrows ==
    /\ pc = "checksum"
    /\ todo # <<>>
    /\ pc' = "unwind"
    /\ UNCHANGED <<exit, errors, shown, todo, queue, worker, mx, out, logged>>

\* wg.wait(): no job is queued and none is running.
JobsDone == queue = <<>> /\ \A w \in Workers : worker[w] = Idling

Return ==
    /\ pc = "checksum"
    /\ todo = <<>>
    /\ JobsDone
    /\ pc' = "exit"
    /\ exit' = FinalCode(errors)
    /\ UNCHANGED <<errors, shown, todo, queue, worker, mx, out, logged>>

\* The destructor of wg has joined the workers, and the handler of
\* dwarfsck_main returns 1.
Unwound ==
    /\ pc = "unwind"
    /\ JobsDone
    /\ pc' = "exit"
    /\ exit' = 1
    /\ UNCHANGED <<errors, shown, todo, queue, worker, mx, out, logged>>

-----------------------------------------------------------------------------
(***************************************************************************)
(* The job of a worker.                                                    *)
(***************************************************************************)
TakeJob(w) ==
    /\ worker[w] = Idling
    /\ queue # <<>>
    /\ worker' = [worker EXCEPT ![w] = [at |-> "get", file |-> Head(queue),
                                        left |-> Ranges[Head(queue)]]]
    /\ queue' = Tail(queue)
    /\ UNCHANGED <<pc, exit, errors, shown, todo, mx, out, logged>>

\* An error that is not logged.
Dropped(file) == logged

\* LOG_ERROR of the job whose future threw.
ReadFailed(file) == logged \cup {file}

\* fut.get(): the range arrives, or the future throws and the job ends.
GetRange(w) ==
    /\ worker[w].at = "get"
    /\ worker[w].left > 0
    /\ \/ /\ worker' = [worker EXCEPT ![w].left = @ - 1]
          /\ UNCHANGED logged
       \/ /\ worker' = [worker EXCEPT ![w] = Idling]
          /\ logged' = ReadFailed(worker[w].file)
    /\ UNCHANGED <<pc, exit, errors, shown, todo, queue, mx, out>>

\* A lock that is given to whoever asks.
LockAlways(w) == TRUE

\* std::lock_guard lock(mx), when the mutex is free.
MayLock(w) == mx = None

\* The lock of a mutex that was destroyed is undefined: where the
\* destructor leaves the memory as it is the lock works as before, and
\* where it does not lock() throws in the worker and ends the process.
Lock(w) ==
    /\ worker[w].at = "get"
    /\ worker[w].left = 0
    /\ \/ /\ MayLock(w)
          /\ mx' = w
          /\ worker' = [worker EXCEPT ![w].at = "write"]
          /\ UNCHANGED <<pc, exit>>
       \/ /\ pc = "unwind"
          /\ pc' = "exit"
          /\ exit' = Aborted
          /\ UNCHANGED <<mx, worker>>
    /\ UNCHANGED <<errors, shown, todo, queue, out, logged>>

\* The mutex kept after the line was written.
KeepLocked(w) == w

\* The end of the scope of the lock_guard.
Unlocked(w) == None

\* iol.out has failed: a stream that failed takes nothing more.
StreamFailed == shown \cap {Short.list, Short.checksums} # {}

\* iol.out << output, which nobody looks at the result of, and the end of
\* the job.
Write(w) ==
    /\ worker[w].at = "write"
    /\ out' = Append(out, worker[w].file)
    /\ \E ok \in {FALSE} \cup {~StreamFailed} :
          shown' = shown \cup Written(TRUE, "checksums", ok)
    /\ mx' = Unlocked(w)
    /\ worker' = [worker EXCEPT ![w] = Idling]
    /\ UNCHANGED <<pc, exit, errors, todo, queue, logged>>

\* What a worker does while the process runs.
Job(w) ==
    /\ pc \in {"checksum", "unwind"}
    /\ TakeJob(w) \/ GetRange(w) \/ Lock(w) \/ Write(w)

-----------------------------------------------------------------------------
Init ==
    /\ pc = "main"
    /\ exit = -1
    /\ errors = 0
    /\ shown = {}
    /\ todo = <<>>
    /\ queue = <<>>
    /\ worker = [w \in Workers |-> Idling]
    /\ mx = None
    /\ out = <<>>
    /\ logged = {}

\* The process has ended.
Exited == pc = "exit" /\ UNCHANGED vars

Next ==
    \/ \E o \in Cmdlines, img \in Images : Main(o, img)
    \/ Walk
    \/ WalkThrows
    \/ Return
    \/ Unwound
    \/ \E w \in Workers : Job(w)
    \/ Exited

\* The main thread and every worker of the group run when they can.
Fairness ==
    /\ WF_vars(Walk \/ WalkThrows \/ Return \/ Unwound)
    /\ WF_vars(\E o \in Cmdlines, img \in Images : Main(o, img))
    /\ \A w \in Workers : WF_vars(Job(w))

Spec == Init /\ [][Next]_vars /\ Fairness

-----------------------------------------------------------------------------
TypeOK ==
    /\ pc \in {"main", "checksum", "unwind", "exit"}
    /\ exit \in {-1, 0, 1, 2, Killed, Aborted}
    /\ errors \in Nat
    /\ shown \subseteq DOMAIN Short \cup {Short[k] : k \in DOMAIN Short}
                           \cup {Cut[k] : k \in DOMAIN Cut}
    /\ \A w \in Workers :
          /\ worker[w].at \in {"idle", "get", "write"}
          /\ worker[w].file \in Regular \cup {None}
          /\ worker[w].left \in Nat
    /\ mx \in Workers \cup {None}
    /\ logged \subseteq Regular
    /\ (pc = "exit") = (exit # -1)

\* The lines of the workers do not run into each other: at any time at
\* most one worker is writing to iol.out, and it holds the mutex.
OutputLinesAreWhole ==
    \A w \in Workers : worker[w].at = "write" =>
        /\ mx = w
        /\ \A v \in Workers \ {w} : worker[v].at # "write"

\* do_checksum with its walk, its queue, its workers and its mutex does
\* what ChecksumList asks for: every add_job, fut.get() and write of a
\* line is a step of the list or changes nothing of it, so no file gets
\* two lines or a line and an error, none is forgotten, and wg.wait()
\* returns only when every regular file has been dealt with.  Only a
\* do_checksum that an exception took out of its walk ends with files
\* left, and it ends as failed.
Phase == CASE pc = "main" -> "start"
           [] pc \in {"checksum", "unwind"} -> "listing"
           [] pc = "exit" -> IF todo = <<>> THEN "done" ELSE "failed"

Promised == INSTANCE ChecksumList
                WITH phase <- Phase, listed <- out, reported <- logged

ImplementsChecksumList == Promised!Spec

\* The exit codes of section "Exit codes": 0 is success.  What
\* dwarfsck_main notices fails the run, whatever was printed, listed or
\* summed after it: errors that the check of the image counted, when the
\* exit code is made after do_checksum; a header that iol.out did not
\* take, the one write whose stream is looked at; an exception that cut
\* the information or the list short; and an exception that took
\* do_checksum out of its walk while the workers went on writing lines.
\* (Not part of this: the usage, the information, the list and the lines
\* of the checksums are written to iol.out and the exported metadata to
\* its file without a look at the stream, and when such a write fails
\* the run ends with 0.)
NoticedFailuresFailTheRun ==
    exit = 0 =>
        /\ errors = 0
        /\ todo = <<>>
        /\ shown \cap {Short.header, Cut.info, Cut.list} = {}

\* dwarfsck ends: the workers get through their jobs and wg.wait() returns,
\* however the jobs contend for the mutex.
DwarfsckTerminates == <>(pc = "exit")

\* The mutex of do_checksum outlives the jobs that lock it: the jobs take
\* mx by reference, and std::mutex must not be destroyed while a thread
\* owns it nor locked afterwards.  wg.wait() at the end of do_checksum
\* sees to that, but mx is declared after wg: when an exception leaves the
\* walk, mx is destroyed first and the jobs that were queued and running
\* lock it before the destructor of wg has joined their workers.
MutexOutlivesItsJobs ==
    pc = "unwind" => \A w \in Workers : worker[w].at # "write"

\* What the exit code promises: 0 is success, 1 a user or I/O error.  A
\* file that could not be read while the checksums were made is logged and
\* left out of the list, and dwarfsck still exits with 0.
ExitZeroMeansAllWasRead == exit = 0 => logged = {}

=============================================================================
