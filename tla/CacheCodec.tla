----------------------------- MODULE CacheCodec -----------------------------
(***************************************************************************)
(* src/metadata/cache_codec.cpp: the keys and the bytes of the rows behind *)
(* `images` and `links` of module MetadataCache.  A number takes Width     *)
(* bytes, the lowest first (four in the code, eight for a timestamp); a    *)
(* text is its bytes.                                                      *)
(***************************************************************************)
EXTENDS Naturals, SequencesExt

CONSTANTS
  Base,        \* a byte is one of 0 .. Base - 1
  Width,       \* how many bytes a number takes
  Bar, Dash,   \* the bytes of '|' and '-'
  Rejected,    \* std::nullopt
  Room,        \* the longest list there is memory for
  Thrown       \* std::bad_alloc or std::length_error, out of reserve

ASSUME NumbersAssumption == Base \in Nat \ {0, 1} /\ Width \in Nat
ASSUME RoomAssumption == Room \in Nat
ASSUME BarAssumption == Bar # Dash

Bytes == 0..(Base - 1)

normalize(text) == [i \in DOMAIN text |-> IF text[i] = Bar THEN Dash ELSE text[i]]

getKey(track) ==
  normalize(track.title) \o <<Bar>> \o normalize(track.artist) \o <<Bar>> \o normalize(track.album)

-----------------------------------------------------------------------------
(* What a byte counts for: one, then a Base each.                          *)
Weight[i \in 0..Width] == IF i = 0 THEN 1 ELSE Base * Weight[i - 1]

putU32(value) == [i \in 1..Width |-> (value \div Weight[i - 1]) % Base]

putText(text) == putU32(Len(text)) \o text

hasU32(buf, offset) == offset + Width <= Len(buf)

(* What the first bytes say, of each number of them.                       *)
Sums(buf, offset) ==
  LET sum[i \in 0..Width] ==
        IF i = 0 THEN 0 ELSE sum[i - 1] + buf[offset + i] * Weight[i - 1]
  IN  sum

readU32(buf, offset) == Sums(buf, offset)[Width]

(* readU32 and readBytes: a text preceded by its length, and where it ends.*)
BadHasText(buf, offset) ==           \* off by one: no text is the last of its row
  hasU32(buf, offset) /\ offset + Width + readU32(buf, offset) < Len(buf)

hasText(buf, offset) ==
  hasU32(buf, offset) /\ offset + Width + readU32(buf, offset) <= Len(buf)
endOfText(buf, offset) == offset + Width + readU32(buf, offset)
readText(buf, offset) == SubSeq(buf, offset + Width + 1, endOfText(buf, offset))

createImageValue(image) ==
  putU32(image.writtenAt) \o <<image.type>> \o putText(image.source) \o image.url

parseImageValue(raw) ==
  IF Len(raw) <= Width \/ ~hasText(raw, Width + 1) THEN Rejected
  ELSE [writtenAt |-> readU32(raw, 0), type |-> raw[Width + 1],
        source |-> readText(raw, Width + 1),
        url |-> SubSeq(raw, endOfText(raw, Width + 1) + 1, Len(raw))]

putUrl(songUrl) == putText(songUrl.source) \o putText(songUrl.url)
putUrls(urls) == FlattenSeq([i \in DOMAIN urls |-> putUrl(urls[i])])

createUrlValue(urls) == putU32(Len(urls)) \o putUrls(urls)

(* The loop over the links: what has been read, and up to where.  It stops *)
(* at the first that is not whole.                                         *)
readUrl(raw, last) ==
  LET middle == endOfText(raw, last.offset)
  IN  IF hasText(raw, last.offset) /\ hasText(raw, middle)
      THEN [urls |-> Append(last.urls, [source |-> readText(raw, last.offset),
                                        url |-> readText(raw, middle)]),
            offset |-> endOfText(raw, middle)]
      ELSE last

Reading(raw) ==
  LET read[i \in 0..readU32(raw, 0)] ==
        IF i = 0 THEN [urls |-> <<>>, offset |-> Width] ELSE readUrl(raw, read[i - 1])
  IN  read

(* Memory for the whole list is reserved by its count, before any of it is *)
(* read.                                                                   *)
parseUrlValue(raw) ==
  IF ~hasU32(raw, 0) THEN <<>>
  ELSE IF readU32(raw, 0) > Room THEN Thrown
  ELSE Reading(raw)[readU32(raw, 0)].urls

-----------------------------------------------------------------------------
(* Only tracks that differ in nothing but bars share a row.                *)
KeysTellApart(tracks) ==
  \A s, t \in tracks :
    getKey(s) = getKey(t) => \A part \in {"title", "artist", "album"} :
                               normalize(s[part]) = normalize(t[part])

(* Whatever bytes are found, nothing is read that they do not say: an      *)
(* image that is read would be written as the same bytes, and links as the *)
(* first of the bytes after the count.  A damaged count may still make the *)
(* code throw, against cache_codec.hpp's "stops cleanly at the first       *)
(* malformed entry rather than throwing".                                  *)
NothingIsMadeUp(rows) ==
  \A raw \in rows :
    LET image == parseImageValue(raw)
        urls == parseUrlValue(raw)
    IN  /\ image = Rejected \/ createImageValue(image) = raw
        /\ urls \in {<<>>, Thrown} \/
             /\ Len(urls) <= readU32(raw, 0)
             /\ LET written == createUrlValue(urls)
                IN  IsPrefix(SubSeq(written, Width + 1, Len(written)), SubSeq(raw, Width + 1, Len(raw)))

(* What was written is read, if there is memory for it.                    *)
RowsReadBack(found, lists) ==
  /\ \A image \in found : parseImageValue(createImageValue(image)) = image
  /\ \A urls \in lists : Len(urls) <= Room => parseUrlValue(createUrlValue(urls)) = urls

(* And of a row that is only cut short, the links that stand before the    *)
(* cut, so that nothing is thrown; but an image is rejected only where the *)
(* cut is before its url, and has the shorter url otherwise.               *)
CutRowsReadShort(found, lists) ==
  /\ \A image \in found :
       LET row == createImageValue(image)
           header == Len(row) - Len(image.url)
       IN  \A cut \in 0..Len(row) :
             parseImageValue(SubSeq(row, 1, cut)) =
               IF cut < header THEN Rejected
               ELSE [image EXCEPT !.url = SubSeq(image.url, 1, cut - header)]
  /\ \A urls \in lists : Len(urls) <= Room =>
       LET row == createUrlValue(urls)
       IN  \A cut \in 0..Len(row) : parseUrlValue(SubSeq(row, 1, cut)) \in Prefixes(urls)
=============================================================================
