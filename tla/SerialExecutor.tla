--------------------------- MODULE SerialExecutor ---------------------------
(***************************************************************************)
(* What the controller thread promises the rest of the program             *)
(* (ControllerThread.h): commands are executed one at a time, in the order *)
(* in which they were accepted, each of them once; and, a promise of the   *)
(* code that the header does not make, nothing is accepted while a command *)
(* is being executed.                                                      *)
(***************************************************************************)
EXTENDS Sequences

CONSTANTS Commands,  \* every command that may be accepted
          Initial    \* the commands accepted before the thread starts

VARIABLES line,  \* accepted and not yet finished, oldest first
          busy   \* whether the oldest is being executed

Init == line = Initial /\ busy = FALSE

Accept ==
  /\ ~busy
  /\ \E c \in Commands : line' = Append(line, c)
  /\ UNCHANGED busy

Begin ==
  /\ ~busy /\ line # <<>>
  /\ busy' = TRUE
  /\ UNCHANGED line

Finish ==
  /\ busy
  /\ busy' = FALSE
  /\ line' = Tail(line)

Next == Accept \/ Begin \/ Finish

Spec == Init /\ [][Next]_<<line, busy>>
=============================================================================
