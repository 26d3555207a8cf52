------------------------------ MODULE StateFile ------------------------------
(***************************************************************************)
(* A file replaced as a whole: writePrivateFile (tokens.go),               *)
(* writeProxySelectionState and writeStatusFile (cmd/proxy-demo/main.go)   *)
(* take the same steps.  Every caller goes on after a failed write, with a *)
(* warning, so the result is not kept.  The process may die between steps: *)
(* that is the step Interrupted.                                           *)
(***************************************************************************)
EXTENDS Naturals

CONSTANTS NoContent     \* the file does not exist

VARIABLES
    file,       \* what the path holds
    writer      \* the write in progress

fileVars == <<file, writer>>

NoWriter == [pc |-> "idle", new |-> NoContent]
Idle == writer.pc = "idle"

Begin(content) ==
    /\ Idle
    /\ writer' = [pc |-> "temp", new |-> content]

\* The temporary file is complete.  Mutation: the old file is removed first.
RemoveFirst == "remove"
AfterTemp == "rename"

TempWritten ==
    /\ writer.pc = "temp"
    /\ writer' = [writer EXCEPT !.pc = AfterTemp]
    /\ UNCHANGED file

Renamed ==
    /\ writer.pc \in {"rename", "again"}
    /\ file' = writer.new
    /\ writer' = NoWriter

\* The path is taken away before the second attempt.
Removed ==
    /\ writer.pc = "remove"
    /\ file' = NoContent
    /\ writer' = [writer EXCEPT !.pc = "again"]

WriteStep == TempWritten \/ Renamed \/ Removed

-----------------------------------------------------------------------------
(* The file system refuses.                                                *)

RenameFails ==
    /\ writer.pc = "rename"
    /\ writer' = [writer EXCEPT !.pc = "remove"]
    /\ UNCHANGED file

\* The write is given up: the temporary file cannot be made, or the old file not be
\* removed, or the second attempt fails too.
GivesUp ==
    /\ writer.pc \in {"temp", "remove", "again"}
    /\ writer' = NoWriter
    /\ UNCHANGED file

WriteFault == RenameFails \/ GivesUp

\* The process ends: what is left is the file as it is and a temporary file nobody
\* looks at.
Interrupted == writer' = NoWriter /\ UNCHANGED file
=============================================================================
