----------------------------- MODULE MCEnricher -----------------------------
(***************************************************************************)
(* Enricher as main.cpp sets it up: Apple Music first, Last.fm second.     *)
(***************************************************************************)
EXTENDS Enricher, Matching, CacheCodec, TLC

CONSTANTS
  Letters,     \* what texts are made of
  MaxText,     \* how long they are at most
  MaxRow       \* how long a row of the cache is at most

MCSources == <<"applemusic", "lastfm">>

(* Two answers of a source are only told apart.                            *)
AnyUrls == Permutations(Urls)

Texts == UNION {[1..n -> Letters] : n \in 0..MaxText}
Pages == UNION {[1..n -> Items] : n \in 0..MaxItems}

ASSUME PagesAssumption == Malformed \notin Pages

(* The numbers in the rows that are checked fit in a row.                  *)
ASSUME RowsAssumption == 3 < Weight[Width]

Short == UNION {[1..n -> Bytes] : n \in 0..1}
Lists == UNION {[1..n -> [source : Short, url : Short]] : n \in 0..2}
Rows == UNION {[1..n -> {0, 1}] : n \in 0..MaxRow}

(* The statements about the functions a search is made of are evaluated    *)
(* once, for all bounded inputs.                                           *)
EditsChecked == EditsAreLeast(Texts)
DecorationsChecked == DecorationsMatch(Texts, Texts)
PagesChecked == FirstMatchIsTaken(Pages)
Images == [writtenAt : 0..3, type : Bytes, source : Short, url : Short]

CodecChecked ==
  /\ KeysTellApart([title : Short, artist : Short, album : Short])
  /\ NothingIsMadeUp(Rows)
  /\ RowsReadBack(Images, Lists)
  /\ CutRowsReadShort(Images, Lists)

(* matching_test.cpp, "The substring fallback is opt-in": what is appended *)
(* to an artist makes another artist of it only past two thirds of the     *)
(* name's length; a title stays the same title from the floor on.  Both    *)
(* verdicts are about the fewest edits between two texts, which is what    *)
(* the table in levenshteinDistance computes.                              *)
VerdictsAreRight == step = "sources" => EditsChecked /\ DecorationsChecked

(* Scraper::searchTrack gives the link and the image of the first item     *)
(* whose title and artist match, if no item lacks a part.                  *)
FirstMatchTaken == step = "sources" => PagesChecked

(* What findEntry finds is what writeEntry wrote for this song; of a row   *)
(* cut short, what stands before the cut; of a damaged one, no more than   *)
(* its bytes say, or an exception where its count is past all memory.      *)
EntriesReadBack == step = "sources" => CodecChecked
=============================================================================
