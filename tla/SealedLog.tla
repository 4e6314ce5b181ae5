------------------------------ MODULE SealedLog ------------------------------
(***************************************************************************)
(* What an evidence capture promises to whoever reads its two files: a log *)
(* that only grows until it is sealed and never changes again, and beside  *)
(* it a summary that is an earlier session's until the log is sealed, and  *)
(* from then on torn or a true account of exactly this log. Once the       *)
(* capture says it is done, the summary does not change either.            *)
(*                                                                         *)
(* How records get into the log, what the TPM does, and what may fail are  *)
(* not spoken of here.                                                     *)
(***************************************************************************)
EXTENDS Naturals, Sequences

CONSTANTS
  Start,            \* the logs a session may start with
  Earlier,          \* what may be in place of the summary before the session
  TornSummary,      \* a summary that cannot be read
  Seals(_),         \* whether a log ends as a sealed log must
  Describes(_, _)   \* whether a summary is a true account of a log

VARIABLES
  log,      \* the evidence file
  sealed,   \* no record is written any more
  summary,  \* the file at summary_out
  done      \* the summary has been reported as written

sealedLogVars == <<log, sealed, summary, done>>

Extends(longer, shorter) ==
  /\ Len(longer) >= Len(shorter)
  /\ SubSeq(longer, 1, Len(shorter)) = shorter

Init ==
  /\ log \in Start
  /\ sealed = FALSE
  /\ summary \in Earlier
  /\ done = FALSE

(* Records reach the log. *)
Grow ==
  /\ ~sealed
  /\ Extends(log', log)
  /\ UNCHANGED <<sealed, summary, done>>

(* A summary is written, or not, or torn; if the capture is done it was    *)
(* one of the first and the last.                                          *)
Publish ==
  /\ \/ summary' = summary
     \/ summary' = TornSummary
     \/ Describes(summary', log')
  /\ done' => summary' = TornSummary \/ Describes(summary', log')

(* The last record, and the first attempt to publish. *)
Seal ==
  /\ ~sealed
  /\ Extends(log', log) /\ Seals(log')
  /\ sealed' = TRUE
  /\ Publish

(* Another attempt. *)
Retry ==
  /\ sealed /\ ~done
  /\ UNCHANGED <<log, sealed>>
  /\ Publish

Next == Grow \/ Seal \/ Retry

Spec == Init /\ [][Next]_sealedLogVars
=============================================================================
