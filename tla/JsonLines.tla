----------------------------- MODULE JsonLines -------------------------------
(***************************************************************************)
(* Files of one JSON record per line that only grow: event journals, the   *)
(* PUF challenge ledger, the audit log.                                    *)
(*                                                                         *)
(* A file is the sequence of records written to it and the way it ends:    *)
(* "absent" (no such file), "clean", "unterminated" (the last record is    *)
(* whole but its newline is missing) or "garbage" (a line does not parse). *)
(***************************************************************************)
EXTENDS Sequences

Tail_     == {"absent", "clean", "unterminated", "garbage"}
NoFile    == [lines |-> <<>>, tail |-> "absent"]
EmptyFile == [lines |-> <<>>, tail |-> "clean"]

Parses(file) == file.tail # "garbage"

(* Fault: opening truncates.                                               *)
OpenedEmpty(file) == EmptyFile

(* os.open with O_CREAT and O_APPEND.                                      *)
Opened(file) == IF file.tail = "absent" THEN EmptyFile ELSE file

(* os.write of one line; a line that lands after a missing newline joins   *)
(* the record there and neither parses any more, for good.                 *)
WriteLine(file, record) ==
  [lines |-> Append(file.lines, record),
   tail  |-> IF file.tail \in {"absent", "clean"} THEN "clean" ELSE "garbage"]

(* The same write cut short: only the newline is lost, or part of the text.*)
WritePart(file, record, left) ==
  IF left = "unterminated"
  THEN [lines |-> Append(file.lines, record),
        tail  |-> IF file.tail \in {"absent", "clean"} THEN left ELSE "garbage"]
  ELSE [file EXCEPT !.tail = "garbage"]
=============================================================================
