------------------------------- MODULE MCUiHub -------------------------------
(***************************************************************************)
(* Instances of UiHub for TLC: a stream without outages; outages of one    *)
(* source or both on a page that comes back; one outage amid the stream.   *)
(***************************************************************************)
EXTENDS UiHub

\* Only records, polls, outages and pages are held back, and none of them is fair.
Told ==
  /\ Next
  /\ \/ outages' = 0 /\ visits' <= 1
     \/ records' <= 1 /\ polls' = 0
     \/ records' + polls' <= 2 /\ outages' <= 1 /\ visits' <= 1

StorySpec == Init /\ [][Told]_vars /\ Fairness
=============================================================================
