------------------------------ MODULE LineLog -------------------------------
(***************************************************************************)
(* A file of one JSON object per line that processes append to: the ledger *)
(* of the capital pool and the log of order intents.                       *)
(*                                                                         *)
(* A line that a kill cut short has no newline, so the next line appended  *)
(* is glued to it and neither can be parsed.  A line can also reach the    *)
(* file whole but for its newline: it can be read until the next line is   *)
(* glued to it, and then both are lost.                                    *)
(***************************************************************************)
EXTENDS Naturals, Sequences

(* A line that does not parse.                                             *)
Torn == [event |-> "TORN"]

(* The lines l after row is appended; u says that the last of l is         *)
(* unended.                                                                *)
Put(l, u, row) == IF u THEN [l EXCEPT ![Len(l)] = Torn] ELSE Append(l, row)

(* What a kill inside a write leaves of the row.                           *)
PartOf(row) == {Torn, row}

Last(I) == CHOOSE i \in I : \A j \in I : j <= i
=============================================================================
