--------------------------- MODULE MetadataTypes ----------------------------
(* What src/metadata passes around: links to a song (SongUrl), and bytes   *)
(* that may or may not parse.                                              *)

CONSTANTS
  Platforms,  \* what MetadataWebSource::identify says
  Urls,       \* what a source may link to
  NoUrl,      \* the empty string
  Malformed   \* what a parser rejects

ASSUME NoUrlAssumption == NoUrl \notin Urls

Links == [url : Urls, source : Platforms]
=============================================================================
