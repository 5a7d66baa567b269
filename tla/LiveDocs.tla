------------------------------ MODULE LiveDocs ------------------------------
(***************************************************************************)
(* What 'aisio-docs-serve' promises its author: the PDF follows the text.  *)
(* docs/README.md: whenever the sources change "the HTML and PDF version   *)
(* of the docs are rebuilt", with "a status page of the build-process";    *)
(* the page: "Use this to confirm that PDF generation is healthy".         *)
(*                                                                         *)
(* The abstract specification that DocsServe, the watcher, the builds and  *)
(* the servers of docs/tooling/aisio_docs.py, is shown to implement.       *)
(***************************************************************************)
EXTENDS Integers

VARIABLES
  text,    \* the version of the text
  asked,   \* the version of the text when the last build began
  report,  \* the version of it in the last PDF that was built, 0 is none
  badge    \* what the status page says of the last build

vars == <<text, asked, report, badge>>

Badges == {"Unknown", "Building", "OK", "Error"}

Init == text \in Nat /\ asked = 0 /\ report = 0 /\ badge = "Unknown"

Edit == text' = text + 1 /\ UNCHANGED <<asked, report, badge>>

Build ==
  /\ badge # "Building" /\ badge' = "Building"
  /\ asked' = text
  /\ UNCHANGED <<text, report>>

\* A build delivers a text that has all it had when the page began to say Building
Deliver ==
  /\ badge = "Building" /\ badge' = "OK"
  /\ report' \in asked..text
  /\ UNCHANGED <<text, asked>>

Fail == badge = "Building" /\ badge' = "Error" /\ UNCHANGED <<text, asked, report>>

\* The servers are started again, and know of no build
Restart == badge' = "Unknown" /\ UNCHANGED <<text, asked, report>>

Next == Edit \/ Build \/ Deliver \/ Fail \/ Restart

Spec == Init /\ [][Next]_vars
=============================================================================
