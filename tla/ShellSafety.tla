---------------------------- MODULE ShellSafety -----------------------------
(* What the commands of the shell come to.                                  *)
EXTENDS Shell

(* ArgsFresh: a system call gets the words of its own line, or their        *)
(* numbers, although argv[] and sysargs[] keep what lines before put there,  *)
(* and a line that was refused half way too (process, syscall_handler).     *)
ArgsFresh ==
  called # NoCall =>
    \A k \in 0 .. Arity[called.name] - 1 :
      /\ k + 2 <= Len(called.line)
      /\ called.args[k] = Value(called.name, called.line[k + 2])

(* CatPrintsFile: what cat has printed when it comes to close its file is   *)
(* the file, whatever was loaded into it, over what, and how often, unless  *)
(* a write was short, which cat does not see (cat, do_read).                *)
CatPrintsFile == At("cat", "close") /\ task.whole => stdout = Content

(* LoadStores: a loadf that gets to its end has put what it read of its     *)
(* source at the start of the file, in as many writes as it takes, and left *)
(* what the file had after that; and it has read all, unless a fread failed *)
(* (loadf, do_write).                                                       *)
LoadStores ==
  LET n == Len(task.source) - Len(task.rest)
  IN  At("loadf", "close") =>
        /\ Content = SubSeq(task.source, 1, n) \o SubSeq(task.before, n + 1, Len(task.before))
        /\ ~ task.cut => n = Len(task.source)

(* CommandsReturn: cat and loadf return to the shell, also when there is no *)
(* descriptor, no such file, a file that gets too large, a write that is    *)
(* short or a read that fails.                                              *)
CommandsReturn == task # NoTask ~> task = NoTask
=============================================================================
