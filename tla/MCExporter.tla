----------------------------- MODULE MCExporter -----------------------------
(***************************************************************************)
(* An exporter with four concurrent offers of mixed sizes and two          *)
(* consumers, for TLC.                                                     *)
(***************************************************************************)
EXTENDS Exporter

CONSTANTS o1, o2, o3, o4

\* One element as large as the queue, one larger, and two that fit together.
ExporterSizes == [o \in Offers |-> IF o = o3 THEN 2 ELSE IF o = o4 THEN 3 ELSE 1]
=============================================================================
