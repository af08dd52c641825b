------------------------------- MODULE Connectors -------------------------------
(***************************************************************************)
(* The two kinds of passive connectors: those that read a listing page by  *)
(* page, and those that read a stream or an index in chunks.  A connector  *)
(* is of one kind and shares no state with another, so the two compose by  *)
(* conjunction: a step of one is a stutter of the other.                   *)
(***************************************************************************)
EXTENDS PagedSources, StreamSources

ConnectorsSpec == PagedSpec /\ StreamSpec

\* What a connector found is kept, whatever ends it; it reports success only for a whole
\* listing or stream, and failure only for a failure; and no page is asked for twice.
ConnectorsKeep == WholeWhenOk /\ NoFalseAlarm /\ NoRefetch /\ PagesKept /\ StreamKept
=============================================================================
