------------------------------- MODULE Search -------------------------------
(***************************************************************************)
(* What one call of a source or an uploader comes back with, from what the *)
(* server answered: Scraper::searchTrack over a page of Apple Music,       *)
(* LastFm::searchTrack over a list of results, Imgur::uploadImage.  Each   *)
(* makes one request (src/metadata/http/curlWrapper.cpp).                  *)
(*                                                                         *)
(* Abstracted: a name is kept as whether it matches the track's (fuzzyMatch*)
(* of module Matching); an image as whether there is one; of the markup of *)
(* a page, the items in document order and which of them begin a list of   *)
(* their own (an item within an item is not modelled).                     *)
(***************************************************************************)
EXTENDS Naturals, Sequences, FiniteSetsExt, MetadataTypes

CONSTANTS
  Absent,     \* a part that an item does not have
  MaxItems    \* how many items a body has at most

ASSUME AbsentAssumption == Absent \notin Urls
ASSUME MaxItemsAssumption == MaxItems \in Nat

Bodies(items) == {Malformed} \union UNION {[1..n -> items] : n \in 0..MaxItems}

(* CurlWrapper::performCall: whether curl could be set up and carried the  *)
(* request out, and how the server answered.                               *)
Responses(bodies) ==
  [curl : {"noInit", "failed", "ok"}, HTTPCode : {199, 200, 299, 300}, output : bodies]

transferred(r) == r.curl = "ok"
httpOk(r) == r.HTTPCode >= 200 /\ r.HTTPCode < 300
checkResponse(r) == transferred(r) /\ httpOk(r)

(* No connection, a bad response and no match are an empty SearchResult:   *)
(* no image and no link.                                                   *)
Nothing == <<FALSE, NoUrl>>

-----------------------------------------------------------------------------
(* Scraper                                                                 *)

Items == [title : {"match", "differ", Absent}, artist : {"match", "differ", Absent},
          link : Urls \union {NoUrl, Absent}, image : {"url", "none", Absent},
          first : BOOLEAN]

(* An item and the ones after it in its list.                              *)
FromItem(page, i) == {j \in i..Len(page) : \A k \in (i + 1)..j : ~page[k].first}

(* Faulty: goes on into the lists that follow.                             *)
BadFindDescendantWithAttr(page, i, part) ==
  LET there == {j \in 1..Len(page) : page[j][part] # Absent}
  IN  IF there = {} THEN Absent ELSE page[Min(there)][part]

(* findDescendantWithAttr is called with the item itself, and goes through *)
(* the later items of its list as well.                                    *)
findDescendantWithAttr(page, i, part) ==
  LET there == {j \in FromItem(page, i) : page[j][part] # Absent}
  IN  IF there = {} THEN Absent ELSE page[Min(there)][part]

trackMatches(page, i) ==
  /\ findDescendantWithAttr(page, i, "title") = "match"
  /\ findDescendantWithAttr(page, i, "artist") = "match"

(* A missing node has the empty string for its attribute.                  *)
getAttribute(value) == IF value = Absent THEN NoUrl ELSE value

scraperSearchTrack(r) ==
  LET page == r.output
      hits == {i \in DOMAIN page : trackMatches(page, i)}
      hit == Min(hits)
  IN  IF ~checkResponse(r) \/ page = Malformed \/ hits = {} THEN Nothing
      ELSE <<findDescendantWithAttr(page, hit, "image") = "url",
             getAttribute(findDescendantWithAttr(page, hit, "link"))>>

ScraperResponses == Responses(Bodies(Items))
ScraperAnswers == {scraperSearchTrack(r) : r \in ScraperResponses}

-----------------------------------------------------------------------------
(* LastFm and Imgur                                                        *)

(* A missing field reads as "", which no track has for its title.          *)
Tracks == [name : {"match", "differ", Malformed}, artist : {"match", "differ", Malformed},
           url : Urls \union {NoUrl, Malformed}]

lastFmMatches(found) == found.name = "match" /\ found.artist = "match"
throws(found) == Malformed \in {found.name, found.artist, found.url}

(* The first match, unless reading a track on the way to it throws.        *)
lastFmSearchTrack(r) ==
  LET stops == {i \in DOMAIN r.output : lastFmMatches(r.output[i]) \/ throws(r.output[i])}
      stop == r.output[Min(stops)]
  IN  IF ~checkResponse(r) \/ r.output = Malformed \/ stops = {} THEN Nothing
      ELSE IF throws(stop) THEN Nothing
      ELSE <<FALSE, stop.url>>

LastFmResponses == Responses(Bodies(Tracks))
LastFmAnswers == {lastFmSearchTrack(r) : r \in LastFmResponses}

(* Whether uploadImage came back with a link.                              *)
uploadImage(r) == checkResponse(r) /\ r.output = "link"

ImgurAnswers ==
  {uploadImage(r) : r \in Responses({"link", "noLink", "refused", Malformed})}

-----------------------------------------------------------------------------
IsMatch(item) == item.title = "match" /\ item.artist = "match"
IsComplete(item) == \A part \in {"title", "artist", "link", "image"} : item[part] # Absent

(* As long as every item has all its parts, the link and the image come    *)
(* from the one item whose title and artist match, the first there is, and *)
(* an item of another list never lends a part.                             *)
FirstMatchIsTaken(pages) ==
  \A page \in pages :
    (\A i \in DOMAIN page : IsComplete(page[i])) =>
      LET matches == {i \in DOMAIN page : IsMatch(page[i])}
          match == page[Min(matches)]
      IN  scraperSearchTrack([curl |-> "ok", HTTPCode |-> 200, output |-> page]) =
            IF matches = {} THEN Nothing ELSE <<match.image = "url", match.link>>
=============================================================================
