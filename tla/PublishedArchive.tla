--------------------------- MODULE PublishedArchive ---------------------------
(***************************************************************************)
(* What the report component promises its readers: numbered editions of    *)
(* one report.  At most one edition is being worked on, always the one     *)
(* numbered last; it either becomes a document filed for good under its    *)
(* number (api.download_report_pdf serves it as report-v<number>.pdf) or   *)
(* is abandoned when the next edition is opened.                           *)
(***************************************************************************)
EXTENDS Integers

CONSTANT Documents   \* what a reader may see as the text of an edition

VARIABLES
  issued,   \* number of the last edition opened, 0 before the first
  open,     \* whether that edition is still being worked on
  archive   \* the documents published, by edition number

vars == <<issued, open, archive>>

Init ==
  /\ issued = 0
  /\ open = FALSE
  /\ archive = [n \in {} |-> 0]

OpenEdition ==
  /\ issued' = issued + 1
  /\ open' = TRUE
  /\ UNCHANGED archive

Publish(doc) ==
  /\ open
  /\ open' = FALSE
  /\ archive' = [n \in DOMAIN archive \cup {issued} |-> IF n = issued THEN doc ELSE archive[n]]
  /\ UNCHANGED issued

Next == OpenEdition \/ \E doc \in Documents : Publish(doc)

Spec == Init /\ [][Next]_vars
=============================================================================
