----------------------------- MODULE MCDownload -----------------------------
(* A log of two sectors of two pages behind the parameter sector.  A chunk *)
(* and a package are as 90 and 1024 are to a page of 256, nearly: a        *)
(* chunk crosses pages, a package is several, and what is left of a full   *)
(* log does not fit in package_size.                                       *)
EXTENDS Download

RecordLengths == <<3, 1>>
=============================================================================
