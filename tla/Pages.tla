-------------------------------- MODULE Pages --------------------------------
(***************************************************************************)
(* The pages of the user interface, which share nothing: the live board    *)
(* and its feed, the analyses, the states that are polled and written, and *)
(* what the reader selects.                                                *)
(***************************************************************************)
EXTENDS Feed, AnalysesPage, StatePages, QueryPages

\* Feed, AnalysesPage, StatePages, QueryPages: the board shows consecutive events; what a page
\* shows never goes back and answers what is selected; it shows its own writes, the analyses
\* started on it and the document asked for last.
PagesAdvance ==
  /\ [](EventsAreARun /\ OwnRunStays /\ OwnWriteShown /\ DocumentIsLatest)
  /\ SessionsAdvance /\ DetailsAdvance /\ PageAdvances /\ AnswersAdvance
=============================================================================
