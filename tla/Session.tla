------------------------------ MODULE Session -------------------------------
(***************************************************************************)
(* What Exec promises whoever holds the terminal, wherever the command     *)
(* runs: api.Service.Exec over api.Streams.  Input reaches the command in  *)
(* order and complete before its end is announced; output reaches the      *)
(* terminal in order, and all of it before the exit status.  Chunks of     *)
(* input and of output are counted.                                        *)
(***************************************************************************)
EXTENDS Naturals

VARIABLES
  typed,        \* chunks of input there have been
  stdinOpen,    \* there may be more
  fed,          \* chunks the command has been handed
  eof,          \* the command has been told there is no more
  emitted,      \* chunks of output the command has produced
  ended,        \* the command has ended
  shown,        \* chunks of output that have reached the terminal
  result        \* "none", then "exited" with a status, or "lost"

sessionVars == <<typed, stdinOpen, fed, eof, emitted, ended, shown, result>>

Init ==
  /\ typed = 0 /\ stdinOpen = TRUE /\ fed = 0 /\ eof = FALSE
  /\ emitted = 0 /\ ended = FALSE
  /\ shown = 0 /\ result = "none"

Type ==
  /\ stdinOpen /\ typed' = typed + 1
  /\ UNCHANGED <<stdinOpen, fed, eof, emitted, ended, shown, result>>

CloseStdin ==
  /\ stdinOpen /\ stdinOpen' = FALSE
  /\ UNCHANGED <<typed, fed, eof, emitted, ended, shown, result>>

Feed ==
  /\ fed < typed /\ ~eof /\ ~ended
  /\ fed' = fed + 1
  /\ UNCHANGED <<typed, stdinOpen, eof, emitted, ended, shown, result>>

\* Only a session that is lost cuts input short.
EndInput ==
  /\ ~eof /\ ~ended
  /\ result = "lost" \/ (~stdinOpen /\ fed = typed)
  /\ eof' = TRUE
  /\ UNCHANGED <<typed, stdinOpen, fed, emitted, ended, shown, result>>

Emit ==
  /\ ~ended /\ emitted' = emitted + 1
  /\ UNCHANGED <<typed, stdinOpen, fed, eof, ended, shown, result>>

End ==
  /\ ~ended /\ ended' = TRUE
  /\ UNCHANGED <<typed, stdinOpen, fed, eof, emitted, shown, result>>

Show ==
  /\ shown < emitted /\ result = "none"
  /\ shown' = shown + 1
  /\ UNCHANGED <<typed, stdinOpen, fed, eof, emitted, ended, result>>

Exit ==
  /\ result = "none" /\ ended /\ shown = emitted
  /\ result' = "exited"
  /\ UNCHANGED <<typed, stdinOpen, fed, eof, emitted, ended, shown>>

Lose ==
  /\ result = "none" /\ result' = "lost"
  /\ UNCHANGED <<typed, stdinOpen, fed, eof, emitted, ended, shown>>

Next ==
  \/ Type \/ CloseStdin \/ Feed \/ EndInput
  \/ Emit \/ End \/ Show \/ Exit \/ Lose

Spec == Init /\ [][Next]_sessionVars
=============================================================================
