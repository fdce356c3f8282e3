------------------------------- MODULE Shell --------------------------------
(***************************************************************************)
(* The shell (src/sh.c) and the commands that use descriptors              *)
(* (src/io_util.c: cat and loadf) on top of FileIO.  A command is one step *)
(* for every call it makes.  What the other system calls do is in Hfs: here*)
(* they are called, with the arguments the shell finds for them.           *)
(***************************************************************************)
EXTENDS FileIO, TLC

CONSTANTS
  Lines,    \* what is typed: sequences of words
  MaxArgs,  \* the length of argv[] (MAXARGS)
  BufSize,  \* bytes that cat and loadf move at a time (BUFSIZ: two blocks)
  File,     \* the pathname of the file; lookups of others fail
  Sources,  \* the files of the system outside, by their names
  FarFds    \* words that are numbers, but of no entry of openfiles[]

\* The buffers and the counts of FileIO are those that cat and loadf use.
ASSUME ShellAssumption ==
  /\ BufSize \in ReadCounts /\ BufSize > 0
  /\ \A n \in 0 .. BufSize : [1 .. n -> Bytes] \subseteq Buffers
  /\ \A name \in DOMAIN Sources : Sources[name] \in Seq(Bytes)
  /\ Lines \subseteq Seq(STRING) /\ MaxArgs \in Nat
  /\ FarFds \subseteq STRING

VARIABLES
  argc, argv,
  sysargs,  \* the arguments of the last calls
  called,   \* the last system call, with the line it is in
  task,     \* the command that is running
  stdout,   \* what cat has printed of the file it has open
  running   \* FALSE after quit

fileVars == << blocks, data, size, opened, offset, call, ret, alive >>
shVars == << argc, argv, sysargs, called, running >>
allVars == << fileVars, shVars, task, stdout >>

NoTask == [cmd |-> "none"]
NoCall == [name |-> "none", args |-> << >>, line |-> << >>]

\* What argv[] holds where no word of this line is: NULL, or a pointer into a
\* line before, whose buffer getline has overwritten.
NoWord == ""
Stale == "?"

\* The commands of process_args, with the numbers of words they take.
Builtins ==
  [ls |-> 1 .. MaxArgs, cat |-> 2 .. MaxArgs, loadf |-> {3}, cd |-> {2},
   stat |-> {2}, readl |-> {2}]

\* syscall_handler: get_sysnum knows lseek, read and write, and its switch
\* does not.
Arity ==
  [mount |-> 1, unmount |-> 0, open |-> 1, close |-> 1, unlink |-> 1, link |-> 2,
   mkdir |-> 1, rmdir |-> 1, creat |-> 1, rename |-> 2, reset |-> 0, symlink |-> 2]

\* (A fault: a line may have fewer words than the call has arguments.)
ArgsGivenOrLess(name, count) == count <= Arity[name] + 1

\* check_argc.
ArgsGiven(name, count) == count = Arity[name] + 1

\* atol, with numbers as their numerals: what is not a number is 0.
Atol(word) == IF word \in FarFds \union {ToString(fd) : fd \in Fds} THEN word ELSE ToString(0)

\* SYSCALL_ARGINT for the calls that take a number, SYSCALL_ARGPTR for others.
Value(name, word) == IF name \in {"mount", "close"} THEN Atol(word) ELSE word

-----------------------------------------------------------------------------
(* Commands.                                                                *)

(* whole, cut and before are not in the code.  They say that no write was   *)
(* short, that a fread failed, and what the file was when loadf found it.   *)

CatTask(paths) ==
  [cmd |-> "cat", at |-> "open", paths |-> paths, fd |-> 0, whole |-> TRUE]

LoadTask(source, path) ==
  [cmd |-> "loadf", at |-> "open", path |-> path, fd |-> 0,
   source |-> source, rest |-> source, cut |-> FALSE, before |-> Content]

At(cmd, place) == task.cmd = cmd /\ task.at = place

\* cat goes on with its next argument, if there is one (stdout starts anew).
NextFile ==
  task' = IF Len(task.paths) = 1 THEN NoTask ELSE CatTask(Tail(task.paths))

\* fs_open of a command: whether it gets a descriptor.
OpensFile(path) == path = File /\ Fds \ opened # {}

CatOpen ==
  /\ At("cat", "open") /\ stdout' = << >> /\ UNCHANGED shVars
  /\ IF OpensFile(task.paths[1])
     THEN Open /\ task' = [task EXCEPT !.at = "read", !.fd = ret'.fd]
     ELSE NextFile /\ UNCHANGED fileVars

CatRead ==
  /\ At("cat", "read") /\ ReadBegin(task.fd, BufSize)
  /\ task' = [task EXCEPT !.at = "print"]
  /\ UNCHANGED << shVars, stdout >>

\* (A fault: cat ends at the first read that gets less than it asked for.)
CatPrintShort ==
  /\ At("cat", "print") /\ Ready /\ UNCHANGED << fileVars, shVars >>
  /\ IF ret.n < BufSize THEN task' = [task EXCEPT !.at = "close"] /\ UNCHANGED stdout
     ELSE stdout' = stdout \o ret.buf /\ task' = [task EXCEPT !.at = "read"]

\* What was read is printed, or as much of it as write takes: cat does not
\* ask.  When write fails cat returns, and the descriptor stays open.
CatPrint ==
  /\ At("cat", "print") /\ Ready /\ UNCHANGED << fileVars, shVars >>
  /\ \/ /\ ret.n = 0
        /\ task' = [task EXCEPT !.at = "close"] /\ UNCHANGED stdout
     \/ \E k \in 1 .. ret.n :
          /\ stdout' = stdout \o SubSeq(ret.buf, 1, k)
          /\ task' = [task EXCEPT !.at = "read", !.whole = @ /\ k = ret.n]
     \/ ret.n > 0 /\ NextFile /\ stdout' = << >>

CatClose ==
  /\ At("cat", "close") /\ Close(task.fd) /\ NextFile
  /\ stdout' = << >> /\ UNCHANGED shVars

LoadOpen ==
  /\ At("loadf", "open") /\ UNCHANGED << shVars, stdout >>
  /\ IF OpensFile(task.path)
     THEN Open /\ task' = [task EXCEPT !.at = "fread", !.fd = ret'.fd]
     ELSE task' = NoTask /\ UNCHANGED fileVars

\* fread, and fs_write of what it got.  It gets less than there is when it
\* fails; nothing at all is taken for the end of the source.
LoadRead ==
  LET n == Smaller(BufSize, Len(task.rest))
  IN  /\ At("loadf", "fread") /\ UNCHANGED << shVars, stdout >>
      /\ \E k \in 0 .. n :
           IF k = 0
           THEN /\ task' = [task EXCEPT !.at = "close", !.cut = @ \/ n > 0]
                /\ UNCHANGED fileVars
           ELSE /\ WriteBegin(task.fd, SubSeq(task.rest, 1, k))
                /\ task' = [task EXCEPT !.at = "write", !.cut = @ \/ k < n,
                              !.rest = SubSeq(@, k + 1, Len(@))]

\* (A fault: loadf reads on after a write that failed.)
LoadWrittenAnyway ==
  /\ At("loadf", "write") /\ Ready /\ UNCHANGED << fileVars, shVars, stdout >>
  /\ task' = [task EXCEPT !.at = "fread"]

\* After a write that failed loadf returns, and the descriptor stays open.
LoadWritten ==
  /\ At("loadf", "write") /\ Ready /\ UNCHANGED << fileVars, shVars, stdout >>
  /\ task' = IF ret.code = "OK" THEN [task EXCEPT !.at = "fread"] ELSE NoTask

\* (A fault: loadf does not return when it has read everything.)
LoadCloseAgain ==
  /\ At("loadf", "close") /\ Close(task.fd)
  /\ task' = [task EXCEPT !.at = "open"]
  /\ UNCHANGED << shVars, stdout >>

LoadClose ==
  /\ At("loadf", "close") /\ Close(task.fd) /\ task' = NoTask
  /\ UNCHANGED << shVars, stdout >>

-----------------------------------------------------------------------------
(* Lines.                                                                   *)

Quits(line) == line # << >> /\ line[1] \in {"quit", "q"}

\* process fills argv[] up to its end, or up to the command that ends it.
Parsed(line) ==
  LET n == IF Quits(line) THEN 1 ELSE Smaller(Len(line), MaxArgs)
  IN  /\ argc' = n
      /\ argv' = [k \in 0 .. MaxArgs - 1 |->
                    IF k < n THEN line[k + 1]
                    ELSE IF k = 0 \/ argv[k] = NoWord THEN NoWord ELSE Stale]

\* A builtin; only cat and loadf are commands of more than a step.
Builtin(line) ==
  /\ line[1] \in DOMAIN Builtins
  /\ UNCHANGED << fileVars, sysargs, called >>
  /\ task' = IF Len(line) \notin Builtins[line[1]] THEN NoTask
             ELSE IF line[1] = "cat" THEN CatTask(Tail(line))
             ELSE IF line[1] = "loadf" /\ line[2] \in DOMAIN Sources
             THEN LoadTask(Sources[line[2]], line[3])
             ELSE NoTask

\* fs_close of a number that is not in the table is not refused: it writes to
\* memory that is something else's, or the process dies of it.
CloseFar == \/ UNCHANGED fileVars
            \/ Dies("close", -1)

\* The call itself: open and close change the descriptors, the others (see
\* Bounded) leave the file and its entry alone.
Effect(name, args) ==
  \/ name = "open" /\ args[0] = File /\ Open
  \/ name = "open" /\ args[0] # File /\ UNCHANGED fileVars
  \/ name = "close" /\ \E fd \in Fds : ToString(fd) = args[0] /\ Close(fd)
  \/ name = "close" /\ args[0] \in FarFds /\ CloseFar
  \/ name \notin {"open", "close"} /\ UNCHANGED fileVars

\* syscall_handler, on argv[] as process left it.
Syscall(line) ==
  LET name == argv'[0]
  IN  /\ name \in DOMAIN Arity /\ UNCHANGED task
      /\ IF ArgsGiven(name, argc')
         THEN /\ sysargs' = [k \in DOMAIN sysargs |->
                               IF k < Arity[name] THEN Value(name, argv'[k + 1])
                               ELSE sysargs[k]]
              /\ called' = [name |-> name, args |-> sysargs', line |-> line]
              /\ Effect(name, sysargs')
         ELSE UNCHANGED << sysargs, called, fileVars >>

\* A line that is empty, that has too many words or that has no such command.
Refused(line) ==
  /\ \/ line = << >> \/ Len(line) > MaxArgs
     \/ line # << >> /\ line[1] \notin DOMAIN Builtins \union DOMAIN Arity
  /\ ~ Quits(line)
  /\ UNCHANGED << fileVars, sysargs, called, task >>

process(line) ==
  /\ running /\ Ready /\ task = NoTask
  /\ Parsed(line) /\ UNCHANGED stdout
  /\ running' = ~ Quits(line)
  /\ \/ Refused(line)
     \/ Quits(line) /\ UNCHANGED << fileVars, sysargs, called, task >>
     \/ line # << >> /\ Len(line) <= MaxArgs /\ (Builtin(line) \/ Syscall(line))

-----------------------------------------------------------------------------
ShInit ==
  /\ Init
  /\ argc = 0 /\ argv = [k \in 0 .. MaxArgs - 1 |-> NoWord]
  /\ sysargs = [k \in 0 .. 1 |-> NoWord]
  /\ called = NoCall /\ task = NoTask /\ stdout = << >> /\ running = TRUE

\* Reading and writing, while a command waits for it.
Transfer ==
  /\ ReadTurn \/ ReadEnd \/ WriteTurn \/ WriteEnd
  /\ UNCHANGED << shVars, task, stdout >>

Commands ==
  \/ CatOpen \/ CatRead \/ CatPrint \/ CatClose
  \/ LoadOpen \/ LoadRead \/ LoadWritten \/ LoadClose
  \/ Transfer

(* Two bounds.  A file that is printed has at most one block, unless chunks  *)
(* end where blocks do (a read over the end of a block does not return).    *)
(* And no line takes the file from under its descriptors: that is in Hfs.   *)
(* It is not unlinked, renamed, reset or unmounted, and its directory has   *)
(* room, so that new names do not convert it.                               *)
Bounded(line) ==
  line # << >> =>
    /\ line[1] = "cat" => size <= BSize \/ BSize % BufSize = 0
    /\ line[1] \notin {"unlink", "rename", "reset", "mount", "unmount"}

ShNext ==
  \/ \E line \in Lines : Bounded(line) /\ process(line)
  \/ Commands

ShSpec == ShInit /\ [][ShNext]_allVars

\* The emulator is one thread: a command that was started goes on.
ShFairSpec == ShSpec /\ WF_allVars(Commands)
=============================================================================
