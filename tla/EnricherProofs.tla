--------------------------- MODULE EnricherProofs ---------------------------
(***************************************************************************)
(* Safety of Enricher over MetadataCache for any tracks, sources, clock    *)
(* and time to live.                                                       *)
(***************************************************************************)
EXTENDS Enricher, FiniteSetTheorems, WellFoundedInduction, TLAPS

(* Without an enrichment there is nothing in flight.                       *)
AtRest ==
  ~Enriching => /\ began = now
                /\ asked = 0
                /\ out = [image |-> NoImage, songUrls |-> {}]
                /\ ~changed

(* What findEntry found is part of the result until it is written.         *)
Seeded == Enriching => links[key] \subseteq out.songUrls

(* And so is an image that was fresh then.                                 *)
Kept ==
  Enriching /\ images[key] \notin {NoRow, Malformed} /\ began < images[key].writtenAt + ImageTtl
    => out.image = images[key].image

(* Uploaders are for a track without an image.                             *)
Imageless == step = "uploaders" => NeedImage

IInv == TypeOK /\ AtRest /\ OneLinkPerPlatform /\ Seeded /\ Kept /\ Imageless

-----------------------------------------------------------------------------
LEMMA InvInit == Init => IInv
  <1> SUFFICES ASSUME Init PROVE IInv
    OBVIOUS
  <1>1. CacheTypeOK
    BY DEF Init, CacheInit, CacheTypeOK
  <1>2. TypeOK
    <2>1. Len(Sources) \in Nat /\ Slowness \in Nat /\ now \in Times /\ now \in Nat
      BY SourcesAssumption, ClockAssumption DEF Init, CacheInit
    <2>2. changed \in BOOLEAN
      BY DEF Init
    <2> QED
      BY <1>1, <2>1, <2>2 DEF Init, TypeOK, Results
  <1>3. AtRest /\ OneLinkPerPlatform /\ Seeded /\ Kept /\ Imageless
    BY DEF Init, CacheInit, Imageless, AtRest, Enriching, OneLinkPerPlatform, OneLinkEach, Seeded, Kept
  <1> QED
    BY <1>2, <1>3 DEF IInv

LEMMA LeaveRest ==
  ASSUME TypeOK, Leave, UNCHANGED now, step' \in {"closed", "idle"}
  PROVE  /\ AtRest' /\ Seeded' /\ Kept' /\ Imageless' /\ OneLinkEach(out.songUrls)'
         /\ asked' \in 0..Len(Sources) /\ out' \in Results /\ changed' \in BOOLEAN
         /\ key' \in Keys /\ began' \in Times /\ began' <= now' /\ now' <= began' + Slowness
  <1>1. ~Enriching'
    BY DEF Enriching
  <1>2. now \in Nat /\ Slowness \in Nat /\ Len(Sources) \in Nat
    BY SourcesAssumption, ClockAssumption DEF TypeOK, CacheTypeOK
  <1>3. changed' \in BOOLEAN /\ out' \in Results
    BY DEF Leave, Results
  <1>4. AtRest' /\ Seeded' /\ Kept' /\ Imageless'
    BY <1>1 DEF Leave, AtRest, Seeded, Kept, Imageless
  <1> QED
    BY <1>2, <1>3, <1>4 DEF Leave, TypeOK, CacheTypeOK, OneLinkEach

(* Enriching only reads the cache and adds to the result.                  *)
LEMMA BeginStep == ASSUME IInv, NEW k \in Keys, Begin(k) PROVE IInv'
  <1>1. /\ step = "idle" /\ step' = "sources" /\ key' = k /\ out' = findEntry(k)
        /\ UNCHANGED <<now, images, links, disk, asked, changed, began>>
        /\ ~Enriching /\ Enriching'
    BY DEF Begin, cacheVars, Enriching
  <1>2. began = now /\ asked = 0
    BY <1>1 DEF IInv, AtRest
  <1>3. findEntry(k).image \in Times \union {NoImage} /\ findEntry(k).songUrls = links[k]
    BY DEF findEntry, Usable, IInv, TypeOK, CacheTypeOK, ImageRows
  <1>4. links[k] \in SUBSET Links
    BY DEF IInv, TypeOK, CacheTypeOK
  <1>5. out' \in Results
    BY <1>1, <1>3, <1>4 DEF findEntry, Results
  <1>6. TypeOK'
    BY <1>1, <1>5 DEF IInv, TypeOK, CacheTypeOK
  <1>7. OneLinkPerPlatform'
    BY <1>1, <1>3 DEF IInv, OneLinkPerPlatform, OneLinkEach
  <1>8. Seeded'
    BY <1>1, <1>3 DEF Seeded
  <1>9. Kept'
    BY <1>1, <1>2 DEF Kept, findEntry, Usable, isFresh
  <1> QED
    BY <1>1, <1>6, <1>7, <1>8, <1>9 DEF IInv, AtRest, Imageless

(* A set of positions that is not empty has a first.                       *)
Less == {ss \in Nat \X Nat : ss[1] < ss[2]}

LEMMA LessIsWellFounded == IsWellFoundedOn(Less, Nat)
  BY NatLessThanWellFounded DEF OpToRel, Less

LEMMA FirstIsThere == \A T \in SUBSET Nat : T # {} => Min(T) \in T
  <1> SUFFICES ASSUME NEW T \in SUBSET Nat, T # {} PROVE Min(T) \in T
    OBVIOUS
  <1>1. PICK x \in T : \A y \in T : ~(<<y, x>> \in Less)
    BY WFMin, LessIsWellFounded
  <1>2. ASSUME NEW y \in T PROVE x <= y
    <2>1. x \in Nat /\ y \in Nat
      OBVIOUS
    <2>2. ~(y < x)
      BY <1>1, <2>1 DEF Less
    <2> QED
      BY <2>1, <2>2
  <1> QED
    BY <1>2 DEF Min

(* A body that parses is a list of so many items.                          *)
LEMMA ParsedBody ==
  \A items, body : body \in Bodies(items) /\ body # Malformed
     => \E n \in 0..MaxItems : body \in [1..n -> items]
  BY DEF Bodies

LEMMA PairOf == \A S, T : \A s \in S, t \in T : <<s, t>> \in S \X T
  OBVIOUS

(* Whatever a page says, what comes back is an image or none and a link or *)
(* none; a list of Last.fm's never has an image.                           *)
LEMMA ScraperAnswerTypes == ScraperAnswers \subseteq BOOLEAN \X (Urls \union {NoUrl})
  <1> SUFFICES ASSUME NEW r \in ScraperResponses
               PROVE  scraperSearchTrack(r) \in BOOLEAN \X (Urls \union {NoUrl})
    BY DEF ScraperAnswers
  <1> DEFINE page == r.output
             hits == {i \in DOMAIN page : trackMatches(page, i)}
             hit == Min(hits)
  <1>1. CASE ~checkResponse(r) \/ page = Malformed \/ hits = {}
    <2>1. scraperSearchTrack(r) = Nothing
      BY <1>1 DEF scraperSearchTrack
    <2>2. NoUrl \in Urls \union {NoUrl} /\ FALSE \in BOOLEAN
      OBVIOUS
    <2> QED
      BY ONLY <2>1, <2>2, PairOf DEF Nothing
  <1>2. CASE ~(~checkResponse(r) \/ page = Malformed \/ hits = {})
    <2>0. page \in Bodies(Items)
      BY DEF ScraperResponses, Responses
    <2>1. PICK n \in 0..MaxItems : page \in [1..n -> Items]
      <3>1. page # Malformed
        BY <1>2
      <3> QED
        BY <3>1, <2>0, ParsedBody
    <2>2. DOMAIN page = 1..n /\ Len(page) = n
      BY <2>1, MaxItemsAssumption
    <2>3. hit \in 1..n
      <3>1. hits \subseteq 1..n /\ hits \in SUBSET Nat
        BY <2>2
      <3> HIDE DEF hits
      <3> QED
        BY <3>1, <1>2, FirstIsThere
    <2> DEFINE value == findDescendantWithAttr(page, hit, "link")
    <2>4. value \in Urls \union {NoUrl, Absent}
      <3> DEFINE there == {k \in FromItem(page, hit) : page[k]["link"] # Absent}
      <3>1. CASE there = {}
        BY <3>1 DEF findDescendantWithAttr
      <3>2. CASE there # {}
        <4>1. there \subseteq 1..n /\ there \in SUBSET Nat
          <5>1. \A k \in hit..Len(page) : k \in 1..n
            BY <2>2, <2>3
          <5>2. FromItem(page, hit) \subseteq hit..Len(page)
            BY DEF FromItem
          <5> QED
            BY <5>1, <5>2
        <4>2. value = page[Min(there)]["link"]
          BY <3>2 DEF findDescendantWithAttr
        <4> HIDE DEF there
        <4>3. Min(there) \in 1..n
          BY <3>2, <4>1, FirstIsThere
        <4>4. page[Min(there)] \in Items
          BY <4>3, <2>1
        <4> QED
          BY <4>2, <4>4 DEF Items
      <3> QED
        BY <3>1, <3>2
    <2>5. scraperSearchTrack(r) =
            <<findDescendantWithAttr(page, hit, "image") = "url", getAttribute(value)>>
      BY <1>2 DEF scraperSearchTrack
    <2>6. getAttribute(value) \in Urls \union {NoUrl}
      BY <2>4 DEF getAttribute
    <2> DEFINE image == findDescendantWithAttr(page, hit, "image") = "url"
    <2>7. image \in BOOLEAN
      OBVIOUS
    <2>8. <<image, getAttribute(value)>> \in BOOLEAN \X (Urls \union {NoUrl})
      <3> HIDE DEF image, value
      <3> QED
        BY <2>6, <2>7, PairOf
    <2> QED
      BY <2>5, <2>8, Zenon
  <1> QED
    BY <1>1, <1>2

LEMMA LastFmAnswerTypes == LastFmAnswers \subseteq {FALSE} \X (Urls \union {NoUrl})
  <1> SUFFICES ASSUME NEW r \in LastFmResponses
               PROVE  lastFmSearchTrack(r) \in {FALSE} \X (Urls \union {NoUrl})
    BY DEF LastFmAnswers
  <1> DEFINE tracks == r.output
             stops == {i \in DOMAIN tracks : lastFmMatches(tracks[i]) \/ throws(tracks[i])}
             stop == tracks[Min(stops)]
  <1>1. CASE ~checkResponse(r) \/ tracks = Malformed \/ stops = {} \/ throws(stop)
    <2>1. lastFmSearchTrack(r) = Nothing
      BY <1>1 DEF lastFmSearchTrack
    <2>2. NoUrl \in Urls \union {NoUrl} /\ FALSE \in {FALSE}
      OBVIOUS
    <2> QED
      BY ONLY <2>1, <2>2, PairOf DEF Nothing
  <1>2. CASE ~(~checkResponse(r) \/ tracks = Malformed \/ stops = {} \/ throws(stop))
    <2>0. tracks \in Bodies(Tracks)
      BY DEF LastFmResponses, Responses
    <2>1. PICK n \in 0..MaxItems : tracks \in [1..n -> Tracks]
      <3>1. tracks # Malformed
        BY <1>2
      <3> QED
        BY <3>1, <2>0, ParsedBody
    <2>2. stop \in Tracks
      <3>1. stops \subseteq 1..n /\ stops \in SUBSET Nat
        BY <2>1
      <3> HIDE DEF stops
      <3> QED
        BY <2>1, <3>1, <1>2, FirstIsThere
    <2>3. lastFmSearchTrack(r) = <<FALSE, stop.url>>
      BY <1>2 DEF lastFmSearchTrack
    <2>4. stop.url \in Urls \union {NoUrl}
      BY <1>2, <2>2 DEF throws, Tracks
    <2>5. <<FALSE, stop.url>> \in {FALSE} \X (Urls \union {NoUrl})
      <3> HIDE DEF stop
      <3> QED
        BY <2>4, PairOf
    <2> QED
      BY <2>3, <2>5, Zenon
  <1> QED
    BY <1>1, <1>2

LEMMA AnswerTypes ==
  \A platform : \A answer \in Answers(platform) :
     answer[1] \in BOOLEAN /\ answer[2] \in Urls \union {NoUrl}
  BY ScraperAnswerTypes, LastFmAnswerTypes DEF Answers

LEMMA HostedTypes == ImgurAnswers \subseteq BOOLEAN
  BY DEF ImgurAnswers, uploadImage, checkResponse, transferred, httpOk

LEMMA AskStep == IInv /\ Ask => IInv'
  <1> SUFFICES ASSUME IInv, Ask PROVE IInv'
    OBVIOUS
  <1> DEFINE platform == Sources[asked + 1]
  <1>0. PICK answer \in Answers(platform) : Learn(platform, answer[1], answer[2])
    BY DEF Ask
  <1> DEFINE url == answer[2]
             takeImage == NeedImage /\ answer[1]
             takeLink == platform \notin OwnedPlatforms /\ url # NoUrl
             link == [url |-> url, source |-> platform]
  <1>1. /\ step = "sources" /\ asked < Len(Sources) /\ asked' = asked + 1
        /\ out' = [image |-> IF takeImage THEN now ELSE out.image,
                   songUrls |-> out.songUrls \union (IF takeLink THEN {link} ELSE {})]
        /\ UNCHANGED <<now, images, links, disk, step, key, began>>
        /\ Enriching /\ Enriching'
    BY <1>0 DEF Ask, Learn, cacheVars, Enriching
  <1>2. changed' \in BOOLEAN
    BY <1>0 DEF Learn, IInv, TypeOK
  <1>3. asked \in Nat /\ Len(Sources) \in Nat /\ platform \in Platforms
    BY <1>1, SourcesAssumption DEF IInv, TypeOK
  <1>4. /\ out.image \in Times \union {NoImage} /\ out.songUrls \in SUBSET Links
        /\ now \in Times
    BY DEF IInv, TypeOK, CacheTypeOK, Results
  <1>5. takeLink => link \in Links
    BY <1>3, AnswerTypes DEF Links
  <1>6. out' \in Results
    BY <1>1, <1>4, <1>5 DEF Results
  <1>7. asked' \in 0..Len(Sources)
    BY <1>1, <1>3
  <1>8. TypeOK'
    BY <1>1, <1>2, <1>6, <1>7 DEF IInv, TypeOK, CacheTypeOK
  <1>9. OneLinkEach(out.songUrls)'
    <2>1. OneLinkEach(out.songUrls)
      BY DEF IInv, OneLinkPerPlatform
    <2>2. takeLink => \A l \in out.songUrls : l.source # link.source
      BY DEF OwnedPlatforms
    <2>3. out'.songUrls = out.songUrls \union (IF takeLink THEN {link} ELSE {})
      BY <1>1
    <2> HIDE DEF link, takeLink
    <2> QED
      BY <2>1, <2>2, <2>3 DEF OneLinkEach
  <1>10. OneLinkPerPlatform'
    BY <1>1, <1>9 DEF IInv, OneLinkPerPlatform, OneLinkEach
  <1>11. Seeded'
    BY <1>1 DEF IInv, Seeded
  <1>12. Kept'
    <2>1. out'.image = IF takeImage THEN now ELSE out.image
      BY <1>1
    <2> SUFFICES ASSUME images[key] \notin {NoRow, Malformed},
                        began < images[key].writtenAt + ImageTtl
                 PROVE  out'.image = images[key].image
      BY <1>1 DEF Kept
    <2>2. out.image = images[key].image
      BY <1>1 DEF IInv, Kept
    <2>3. images[key].image \in Times
      BY DEF IInv, TypeOK, CacheTypeOK, ImageRows
    <2> QED
      BY <2>1, <2>2, <2>3, NoneAssumption, <1>1 DEF NeedImage
  <1> QED
    BY <1>1, <1>8, <1>10, <1>11, <1>12 DEF IInv, AtRest, Imageless

LEMMA SkipStep == IInv /\ (PassOver \/ AllAsked) => IInv'
  <1> SUFFICES ASSUME IInv, PassOver \/ AllAsked PROVE IInv'
    OBVIOUS
  <1>1. /\ UNCHANGED <<now, images, links, disk, key, out, changed, began>>
        /\ Enriching /\ Enriching'
        /\ step' \in {"sources", "uploaders", "writing"}
    BY DEF PassOver, AllAsked, cacheVars, Enriching
  <1>2. /\ asked' \in 0..Len(Sources)
        /\ step' \in {"uploaders", "writing"} => asked' = Len(Sources)
    BY SourcesAssumption DEF PassOver, AllAsked, IInv, TypeOK
  <1>3. Imageless'
    BY <1>1 DEF PassOver, AllAsked, Imageless, NeedImage
  <1> QED
    BY <1>1, <1>2, <1>3 DEF IInv, TypeOK, CacheTypeOK, AtRest, OneLinkPerPlatform, OneLinkEach,
       Seeded, Kept

LEMMA RehostStep == IInv /\ Rehost => IInv'
  <1> SUFFICES ASSUME IInv, Rehost PROVE IInv'
    OBVIOUS
  <1>1. /\ UNCHANGED <<now, images, links, disk, key, asked, began>>
        /\ step = "uploaders" /\ step' = "writing" /\ Enriching /\ Enriching'
    BY DEF Rehost, cacheVars, Enriching
  <1>2. changed' \in BOOLEAN
    BY DEF Rehost, IInv, TypeOK
  <1>3. /\ out' \in Results /\ out'.songUrls = out.songUrls
        /\ out.image # NoImage => out'.image = out.image
    BY DEF Rehost, IInv, TypeOK, CacheTypeOK, Results, Imageless, NeedImage
  <1>4. TypeOK'
    BY <1>1, <1>2, <1>3 DEF IInv, TypeOK, CacheTypeOK
  <1>5. OneLinkPerPlatform' /\ Seeded' /\ Imageless' /\ AtRest'
    BY <1>1, <1>3 DEF IInv, OneLinkPerPlatform, OneLinkEach, Seeded, Imageless, AtRest
  <1>6. Kept'
    <2> SUFFICES ASSUME images[key] \notin {NoRow, Malformed},
                        began < images[key].writtenAt + ImageTtl
                 PROVE  out'.image = images[key].image
      BY <1>1 DEF Kept
    <2>1. out.image = images[key].image
      BY <1>1 DEF IInv, Kept
    <2>2. images[key].image \in Times
      BY DEF IInv, TypeOK, CacheTypeOK, ImageRows
    <2> QED
      BY <1>3, <2>1, <2>2, NoneAssumption
  <1> QED
    BY <1>4, <1>5, <1>6 DEF IInv

(* What is written back is the result, for the seeded links are part of it.*)
LEMMA Written ==
  ASSUME IInv, step = "writing", writeEntry(key, out)
  PROVE  /\ images' \in [Keys -> ImageRows \union {NoRow, Malformed}]
         /\ links' \in [Keys -> SUBSET Links]
         /\ links'[key] \subseteq out.songUrls
         /\ \A k \in Keys : links[k] \subseteq links'[k] /\ (k # key => links'[k] = links[k])
  <1>1. /\ images \in [Keys -> ImageRows \union {NoRow, Malformed}]
        /\ links \in [Keys -> SUBSET Links] /\ key \in Keys /\ now \in Times
        /\ out.image \in Times \union {NoImage} /\ out.songUrls \in SUBSET Links
    BY DEF IInv, TypeOK, CacheTypeOK, Results
  <1>2. out.image # NoImage => [image |-> out.image, writtenAt |-> now] \in ImageRows
    BY <1>1 DEF ImageRows
  <1>3. images' \in [Keys -> ImageRows \union {NoRow, Malformed}]
    BY <1>1, <1>2 DEF writeEntry
  <1>4. links[key] \subseteq out.songUrls
    BY DEF IInv, Seeded, Enriching
  <1>5. links' = [links EXCEPT ![key] = mergeSongUrls(@, out.songUrls)]
    BY DEF writeEntry
  <1> QED
    BY <1>1, <1>3, <1>4, <1>5 DEF mergeSongUrls

LEMMA ReturnStep == IInv /\ Return => IInv'
  <1> SUFFICES ASSUME IInv, Return PROVE IInv'
    OBVIOUS
  <1>1. /\ step = "writing" /\ step' = "idle" /\ Leave /\ UNCHANGED <<now, disk>>
        /\ writeEntry(key, out) \/ UNCHANGED <<images, links>>
    BY DEF Return
  <1>2. /\ AtRest' /\ Seeded' /\ Kept' /\ Imageless' /\ OneLinkEach(out.songUrls)'
        /\ asked' \in 0..Len(Sources) /\ out' \in Results /\ changed' \in BOOLEAN
        /\ key' \in Keys /\ began' \in Times /\ began' <= now' /\ now' <= began' + Slowness
    BY <1>1, LeaveRest DEF IInv
  <1>3. /\ images' \in [Keys -> ImageRows \union {NoRow, Malformed}]
        /\ links' \in [Keys -> SUBSET Links]
    BY <1>1, Written DEF IInv, TypeOK, CacheTypeOK
  <1>4. TypeOK'
    BY <1>1, <1>2, <1>3 DEF IInv, TypeOK, CacheTypeOK
  <1>5. \A k \in Keys : OneLinkEach(links[k])'
    BY <1>1, Written DEF IInv, OneLinkPerPlatform, OneLinkEach
  <1>6. OneLinkPerPlatform'
    BY <1>1, <1>2, <1>5 DEF IInv, OneLinkPerPlatform, OneLinkEach
  <1> QED
    BY <1>2, <1>4, <1>6 DEF IInv

LEMMA OpenStep == IInv /\ Open => IInv'
  <1> SUFFICES ASSUME IInv, Open PROVE IInv'
    OBVIOUS
  <1>1. /\ UNCHANGED <<now, links, disk, key, asked, out, changed, began>>
        /\ step' = "idle" /\ ~Enriching /\ ~Enriching'
    BY DEF Open, Enriching
  <1>2. images' \in [Keys -> ImageRows \union {NoRow, Malformed}]
    BY DEF Open, sweepExpired, IInv, TypeOK, CacheTypeOK
  <1> QED
    BY <1>1, <1>2 DEF IInv, TypeOK, CacheTypeOK, AtRest, OneLinkPerPlatform, OneLinkEach, Seeded,
       Kept, Imageless

LEMMA EndStep == IInv /\ (Die \/ PowerFails) => IInv'
  <1> SUFFICES ASSUME IInv, Die \/ PowerFails PROVE IInv'
    OBVIOUS
  <1>1. /\ step' = "closed" /\ Leave /\ UNCHANGED <<now, disk>>
        /\ \/ UNCHANGED <<images, links>>
           \/ images' = disk.images /\ links' = disk.links
    BY DEF Die, PowerFails, LosePower, cacheVars
  <1>2. /\ AtRest' /\ Seeded' /\ Kept' /\ Imageless' /\ OneLinkEach(out.songUrls)'
        /\ asked' \in 0..Len(Sources) /\ out' \in Results /\ changed' \in BOOLEAN
        /\ key' \in Keys /\ began' \in Times /\ began' <= now' /\ now' <= began' + Slowness
    BY <1>1, LeaveRest DEF IInv
  <1>3. CacheTypeOK'
    BY <1>1 DEF IInv, TypeOK, CacheTypeOK
  <1>4. TypeOK'
    BY <1>1, <1>2, <1>3 DEF TypeOK
  <1>5. OneLinkPerPlatform'
    BY <1>1, <1>2 DEF IInv, OneLinkPerPlatform, OneLinkEach
  <1> QED
    BY <1>2, <1>4, <1>5 DEF IInv

LEMMA OutsideStep ==
  ASSUME IInv, WriteReachesDisk \/ \E t \in Times : ClockMoves(t)
  PROVE  IInv'
  <1>1. CASE WriteReachesDisk
    <2>1. /\ disk' = [images |-> images, links |-> links]
          /\ UNCHANGED <<now, images, links, step, key, asked, out, changed, began>>
      BY <1>1 DEF WriteReachesDisk, Sync, enrichVars
    <2>2. TypeOK'
      BY <2>1 DEF IInv, TypeOK, CacheTypeOK
    <2> QED
      BY <2>1, <2>2 DEF IInv, AtRest, Enriching, OneLinkPerPlatform, OneLinkEach, Seeded, Kept,
         Imageless, NeedImage
  <1>2. CASE \E t \in Times : ClockMoves(t)
    <2>1. PICK t \in Times : ClockMoves(t)
      BY <1>2
    <2>2. /\ now' = t /\ UNCHANGED <<images, links, disk, step, key, asked, out, changed>>
          /\ began' = IF Enriching THEN began ELSE t
          /\ Enriching => now <= t /\ t <= began + Slowness
          /\ Enriching' = Enriching
      BY <2>1 DEF ClockMoves, Enriching
    <2>3. /\ began \in Nat /\ now \in Nat /\ t \in Nat /\ Slowness \in Nat
          /\ began <= now
      BY ClockAssumption, SourcesAssumption DEF IInv, TypeOK, CacheTypeOK
    <2>4. began' \in Times /\ began' <= now' /\ now' <= began' + Slowness
      BY <2>2, <2>3 DEF IInv, TypeOK
    <2>5. TypeOK'
      BY <2>2, <2>4 DEF IInv, TypeOK, CacheTypeOK
    <2> QED
      BY <2>2, <2>5 DEF IInv, AtRest, OneLinkPerPlatform, OneLinkEach, Seeded, Kept, Imageless,
         NeedImage
  <1> QED
    BY <1>1, <1>2

LEMMA Invariance == Spec => []IInv
  <1>1. IInv /\ UNCHANGED vars => IInv'
    BY DEF vars, cacheVars, enrichVars, IInv, TypeOK, CacheTypeOK, AtRest, Enriching,
       OneLinkPerPlatform, OneLinkEach, Seeded, Kept, Imageless, NeedImage
  <1>2. IInv /\ [Next]_vars => IInv'
    BY <1>1, BeginStep, AskStep, SkipStep, RehostStep, ReturnStep, OpenStep, EndStep, OutsideStep
       DEF Next
  <1> QED
    BY <1>2, InvInit, PTL DEF Spec

-----------------------------------------------------------------------------
(* Every variable keeps its type, and every source was asked or passed     *)
(* over before the thumbnail is uploaded and the result written.           *)
THEOREM EnricherTypes == Spec => []TypeOK
  <1>1. IInv => TypeOK
    BY DEF IInv
  <1> QED
    BY <1>1, Invariance, PTL

(* A track never has two links to one platform, whatever was lost.         *)
THEOREM LinksStaySingle == Spec => []OneLinkPerPlatform
  <1>1. IInv => OneLinkPerPlatform
    BY DEF IInv
  <1> QED
    BY <1>1, Invariance, PTL

(* Only a power failure takes a link away.                                 *)
THEOREM LinksAreKept == Spec => LinksNeverExpire
  <1>1. IInv /\ [Next]_vars => PowerFails \/ (\A k \in Keys : links[k] \subseteq links'[k]) \/ UNCHANGED vars
    <2> SUFFICES ASSUME IInv, Next, ~PowerFails PROVE \A k \in Keys : links[k] \subseteq links'[k]
      OBVIOUS
    <2>1. CASE Return
      BY <2>1, Written DEF Return
    <2>2. CASE (\E k \in Keys : Begin(k)) \/ Ask
      BY <2>2 DEF Begin, Ask, cacheVars
    <2>3. CASE PassOver \/ AllAsked \/ Rehost \/ Open \/ Die
      BY <2>3 DEF PassOver, AllAsked, Rehost, Open, Die, cacheVars
    <2>4. CASE WriteReachesDisk \/ \E t \in Times : ClockMoves(t)
      BY <2>4 DEF WriteReachesDisk, Sync, ClockMoves
    <2> QED
      BY <2>1, <2>2, <2>3, <2>4 DEF Next
  <1> QED
    BY <1>1, Invariance, PTL DEF Spec, LinksNeverExpire

(* The one write an enrichment makes leaves an image it found fresh.       *)
THEOREM FreshImageKept == Spec => FreshImageStands
  <1> DEFINE Stands(k) ==
        step = "writing" /\ images'[k] # images[k] /\ ~PowerFails
          => \/ images[k] \in {NoRow, Malformed}
             \/ images'[k].image = images[k].image
             \/ ~(began < images[k].writtenAt + ImageTtl)
  <1>1. IInv /\ [Next]_vars => (\A k \in Keys : Stands(k)) \/ UNCHANGED vars
    <2> SUFFICES ASSUME IInv, Next, NEW k \in Keys, step = "writing", images'[k] # images[k],
                        ~PowerFails, images[k] \notin {NoRow, Malformed},
                        began < images[k].writtenAt + ImageTtl
                 PROVE  images'[k].image = images[k].image
      OBVIOUS
    <2>1. Return /\ writeEntry(key, out)
      BY DEF Next, Begin, PassOver, Ask, AllAsked, Rehost, Return, Open, Die, WriteReachesDisk, Sync,
         ClockMoves, cacheVars
    <2>2. out.image # NoImage /\ images' = [images EXCEPT ![key] = [image |-> out.image, writtenAt |-> now]]
      BY <2>1 DEF writeEntry
    <2>3. images \in [Keys -> ImageRows \union {NoRow, Malformed}]
      BY DEF IInv, TypeOK, CacheTypeOK
    <2>4. k = key /\ images'[k].image = out.image
      BY <2>2, <2>3
    <2> QED
      BY <2>4 DEF IInv, Kept, Enriching
  <1> QED
    BY <1>1, Invariance, PTL DEF Spec, FreshImageStands

-----------------------------------------------------------------------------
(* How old an image can be.  Its row was first written within Slowness of  *)
(* the second it was supplied in, and renewed at most once for each link.  *)

Renewal == ImageTtl - 1 + Slowness

(* A track's links are to registered sources only, so they are few.        *)
Registered(ls) == \A l \in ls : \E i \in 1..Len(Sources) : l.source = Sources[i]

Aged(row, ls) ==
  row \notin {NoRow, Malformed} =>
    row.writtenAt <= row.image + Slowness + Renewal * Cardinality(ls)

RowsAged ==
  /\ Registered(out.songUrls)
  /\ \A k \in Keys : Registered(links[k]) /\ Registered(disk.links[k])
  /\ \A k \in Keys : Aged(images[k], links[k]) /\ Aged(disk.images[k], disk.links[k])

(* The image of the result is new, or the row's; and if the row's is       *)
(* written back it is because there is a new link.                         *)
FromRow == /\ images[key] \notin {NoRow, Malformed}
           /\ began < images[key].writtenAt + ImageTtl
           /\ out.image = images[key].image
           /\ changed => out.songUrls # links[key]

InFlight == Enriching /\ out.image # NoImage => began <= out.image \/ FromRow

AgeInv == IInv /\ RowsAged /\ InFlight

LEMMA Numbers ==
  /\ ImageTtl \in Nat /\ ImageTtl > 0 /\ Slowness \in Nat /\ Renewal \in Nat
  /\ Len(Sources) \in Nat /\ Times \subseteq Nat
  BY SourcesAssumption, ClockAssumption DEF Renewal

LEMMA RenewalOnce ==
  ASSUME NEW m \in Nat, NEW n \in Nat
  PROVE  /\ Renewal * m \in Nat
         /\ Renewal * (m + 1) = Renewal * m + Renewal
         /\ m <= n => Renewal * m <= Renewal * n
  <1>1. Renewal \in Nat
    BY Numbers
  <1>2. \A r \in Nat : r * m \in Nat /\ r * (m + 1) = r * m + r /\ (m <= n => r * m <= r * n)
    OBVIOUS
  <1> QED
    BY <1>1, <1>2

(* One link for each platform, and no other platforms than those asked.    *)
LEMMA FewLinks ==
  ASSUME NEW ls, OneLinkEach(ls), Registered(ls)
  PROVE  IsFiniteSet(ls) /\ Cardinality(ls) \in Nat /\ Cardinality(ls) <= Len(Sources)
  <1> DEFINE Place(l) == CHOOSE i \in 1..Len(Sources) : l.source = Sources[i]
             place == [l \in ls |-> Place(l)]
  <1>1. \A l \in ls : Place(l) \in 1..Len(Sources) /\ l.source = Sources[Place(l)]
    BY DEF Registered
  <1>2. place \in [ls -> 1..Len(Sources)]
    BY <1>1
  <1>3. \A l, m \in ls : place[l] = place[m] => l = m
    BY <1>1 DEF OneLinkEach
  <1>4. place \in Injection(ls, 1..Len(Sources))
    BY <1>2, <1>3 DEF Injection, IsInjective
  <1>5. IsFiniteSet(1..Len(Sources)) /\ Cardinality(1..Len(Sources)) = Len(Sources)
    <2>1. 1 \in Int /\ Len(Sources) \in Int /\ Len(Sources) >= 0
      BY Numbers
    <2>2. /\ IsFiniteSet(1..Len(Sources))
          /\ Cardinality(1..Len(Sources)) = IF 1 > Len(Sources) THEN 0 ELSE Len(Sources) - 1 + 1
      BY <2>1, FS_Interval, Zenon
    <2> QED
      BY <2>1, <2>2
  <1>6. IsFiniteSet(ls) /\ Cardinality(ls) <= Len(Sources)
    BY <1>4, <1>5, FS_Injection
  <1> QED
    BY <1>6, FS_CardinalityType

LEMMA MoreLinks ==
  ASSUME NEW more, OneLinkEach(more), Registered(more), NEW ls \in SUBSET more
  PROVE  /\ IsFiniteSet(ls) /\ Cardinality(ls) \in Nat /\ Cardinality(more) \in Nat
         /\ Cardinality(ls) <= Cardinality(more)
         /\ ls # more => Cardinality(ls) + 1 <= Cardinality(more)
  <1>1. IsFiniteSet(more) /\ Cardinality(more) \in Nat
    BY FewLinks
  <1>2. IsFiniteSet(ls) /\ Cardinality(ls) <= Cardinality(more)
        /\ (Cardinality(more) = Cardinality(ls) => more = ls)
    BY <1>1, FS_Subset
  <1>3. Cardinality(ls) \in Nat
    BY <1>2, FS_CardinalityType
  <1> QED
    BY <1>1, <1>2, <1>3

LEMMA AgeInit == Init => AgeInv
  <1> SUFFICES ASSUME Init PROVE AgeInv
    OBVIOUS
  <1>1. IInv
    BY InvInit
  <1>2. RowsAged /\ InFlight
    BY DEF Init, CacheInit, RowsAged, Registered, Aged, InFlight, Enriching
  <1> QED
    BY <1>1, <1>2 DEF AgeInv

(* Nothing is in flight once an enrichment is over.                        *)
LEMMA LeaveAge ==
  ASSUME Leave, step' \in {"closed", "idle"}
  PROVE  InFlight' /\ Registered(out.songUrls)'
  BY DEF Leave, InFlight, Enriching, Registered

LEMMA AgeBegin == ASSUME AgeInv, NEW k \in Keys, Begin(k) PROVE RowsAged' /\ InFlight'
  <1>1. /\ UNCHANGED <<now, images, links, disk, changed, began>>
        /\ key' = k /\ out' = findEntry(k) /\ ~Enriching
    BY DEF Begin, cacheVars, Enriching
  <1>2. began = now /\ ~changed
    BY <1>1 DEF AgeInv, IInv, AtRest
  <1>3. RowsAged'
    BY <1>1 DEF AgeInv, RowsAged, findEntry, Registered, Aged
  <1>4. InFlight'
    BY <1>1, <1>2 DEF InFlight, FromRow, findEntry, Usable, isFresh
  <1> QED
    BY <1>3, <1>4

LEMMA AgeAsk == AgeInv /\ Ask => RowsAged' /\ InFlight'
  <1> SUFFICES ASSUME AgeInv, Ask PROVE RowsAged' /\ InFlight'
    OBVIOUS
  <1> DEFINE platform == Sources[asked + 1]
  <1>1. PICK answer \in Answers(platform) : Learn(platform, answer[1], answer[2])
    BY DEF Ask
  <1> DEFINE takeImage == NeedImage /\ answer[1]
             takeLink == platform \notin OwnedPlatforms /\ answer[2] # NoUrl
             link == [url |-> answer[2], source |-> platform]
  <1>2. /\ UNCHANGED <<now, images, links, disk, key, began>>
        /\ Enriching /\ asked < Len(Sources)
        /\ out' = [image |-> IF takeImage THEN now ELSE out.image,
                   songUrls |-> out.songUrls \union (IF takeLink THEN {link} ELSE {})]
        /\ changed' = (changed \/ takeImage \/ takeLink)
    BY <1>1 DEF Ask, Learn, cacheVars, Enriching
  <1>3. asked + 1 \in 1..Len(Sources)
    BY <1>2, Numbers DEF AgeInv, IInv, TypeOK
  <1>4. takeLink => link \notin out.songUrls
    BY DEF OwnedPlatforms
  <1>5. Registered(out.songUrls)'
    <2>1. Registered(out.songUrls)
      BY DEF AgeInv, RowsAged
    <2>2. link.source = Sources[asked + 1]
      OBVIOUS
    <2>3. out'.songUrls = out.songUrls \union (IF takeLink THEN {link} ELSE {})
      BY <1>2
    <2> HIDE DEF link, takeLink
    <2> QED
      BY <1>3, <2>1, <2>2, <2>3 DEF Registered
  <1>6. RowsAged'
    BY <1>2, <1>5 DEF AgeInv, RowsAged, Registered, Aged
  <1>7. InFlight'
    <2> SUFFICES ASSUME out'.image # NoImage, ~(began <= out'.image) PROVE FromRow'
      BY <1>2 DEF InFlight
    <2>1. began <= now
      BY DEF AgeInv, IInv, TypeOK
    <2>2. ~takeImage /\ out'.image = out.image
      BY <1>2, <2>1
    <2>3. FromRow
      BY <1>2, <2>2 DEF AgeInv, InFlight
    <2>4. changed' => out'.songUrls # links[key]
      <3>1. CASE takeLink
        <4>1. link \notin links[key]
          BY <1>2, <1>4, <3>1 DEF AgeInv, IInv, Seeded
        <4>2. link \in out'.songUrls
          BY <1>2, <3>1
        <4> QED
          BY <4>1, <4>2
      <3>2. CASE ~takeLink
        BY <1>2, <2>2, <2>3, <3>2 DEF FromRow
      <3> QED
        BY <3>1, <3>2
    <2> QED
      BY <1>2, <2>2, <2>3, <2>4 DEF FromRow
  <1> QED
    BY <1>6, <1>7

LEMMA AgeRehost == AgeInv /\ Rehost => RowsAged' /\ InFlight'
  <1> SUFFICES ASSUME AgeInv, Rehost PROVE RowsAged' /\ InFlight'
    OBVIOUS
  <1>1. PICK hosted \in ImgurAnswers :
           /\ out' = IF hosted THEN [out EXCEPT !.image = now] ELSE out
           /\ changed' = (changed \/ hosted)
    BY DEF Rehost
  <1>2. /\ UNCHANGED <<now, images, links, disk, key, began>>
        /\ Enriching /\ out.image = NoImage
    BY DEF Rehost, cacheVars, Enriching, AgeInv, IInv, Imageless, NeedImage
  <1>3. out'.songUrls = out.songUrls /\ (out'.image = now \/ out'.image = NoImage)
    BY <1>1, <1>2 DEF AgeInv, IInv, TypeOK, Results
  <1>4. began <= now
    BY DEF AgeInv, IInv, TypeOK
  <1> QED
    BY <1>2, <1>3, <1>4 DEF AgeInv, RowsAged, Registered, Aged, InFlight

(* The step that renews a row.                                             *)
LEMMA AgeReturn == AgeInv /\ Return => RowsAged' /\ InFlight'
  <1> SUFFICES ASSUME AgeInv, Return PROVE RowsAged' /\ InFlight'
    OBVIOUS
  <1>1. InFlight' /\ Registered(out.songUrls)' /\ UNCHANGED <<now, disk>> /\ Enriching
    BY LeaveAge DEF Return, Enriching
  <1>2. CASE UNCHANGED <<images, links>>
    BY <1>1, <1>2 DEF AgeInv, RowsAged, Registered, Aged
  <1>3. CASE changed /\ writeEntry(key, out)
    <2>1. /\ links'[key] \subseteq out.songUrls /\ links[key] \subseteq links'[key]
          /\ \A k \in Keys : k # key => links'[k] = links[k]
          /\ key \in Keys
      BY <1>3, Written DEF AgeInv, IInv, TypeOK, Return
    <2>2. links'[key] = out.songUrls
      <3>1. out.songUrls \in SUBSET Links /\ links \in [Keys -> SUBSET Links]
        BY DEF AgeInv, IInv, TypeOK, CacheTypeOK, Results
      <3>2. \A l \in out.songUrls : l.url # NoUrl
        BY <3>1, NoUrlAssumption DEF Links
      <3> QED
        BY <1>3, <2>1, <3>1, <3>2 DEF writeEntry, mergeSongUrls
    <2>3. OneLinkEach(out.songUrls) /\ Registered(out.songUrls)
      BY DEF AgeInv, IInv, OneLinkPerPlatform, RowsAged
    <2> DEFINE c == Cardinality(links[key])
               d == Cardinality(out.songUrls)
    <2>4. /\ c \in Nat /\ d \in Nat /\ c <= d
          /\ links[key] # out.songUrls => c + 1 <= d
      BY <2>1, <2>2, <2>3, MoreLinks
    <2>5. /\ Renewal * c \in Nat /\ Renewal * d \in Nat
          /\ Renewal * (c + 1) = Renewal * c + Renewal
          /\ Renewal * c <= Renewal * d
          /\ c + 1 <= d => Renewal * (c + 1) <= Renewal * d
      BY <2>4, RenewalOnce
    <2>6. /\ images \in [Keys -> ImageRows \union {NoRow, Malformed}]
          /\ began \in Nat /\ now \in Nat /\ now <= began + Slowness
          /\ out.image # NoImage => out.image \in Nat
      BY Numbers DEF AgeInv, IInv, TypeOK, CacheTypeOK, Results
    <2>7. images[key] \notin {NoRow, Malformed} =>
             /\ images[key].writtenAt \in Nat /\ images[key].image \in Nat
             /\ images[key].writtenAt <= images[key].image + Slowness + Renewal * c
      BY <2>1, <2>6, Numbers DEF AgeInv, RowsAged, Aged, ImageRows
    <2>8. Aged(images'[key], links'[key])
      <3>1. CASE out.image = NoImage
        <4>1. images'[key] = images[key]
          BY <1>3, <3>1 DEF writeEntry
        <4> QED
          BY <2>2, <2>5, <2>7, <4>1, Numbers, SMTT(30) DEF Aged
      <3>2. CASE out.image # NoImage /\ began <= out.image
        <4>1. images'[key].writtenAt = now /\ images'[key].image = out.image
          BY <1>3, <2>1, <2>6, <3>2 DEF writeEntry
        <4> QED
          BY <2>2, <2>5, <2>6, <3>2, <4>1, Numbers DEF Aged
      <3>3. CASE out.image # NoImage /\ FromRow
        <4>1. images'[key].writtenAt = now /\ images'[key].image = out.image
          BY <1>3, <2>1, <2>6, <3>3 DEF writeEntry
        <4>2. c + 1 <= d
          BY <1>3, <2>4, <3>3 DEF FromRow
        <4>3. now <= images[key].writtenAt + Renewal
          BY <2>6, <2>7, <3>3, Numbers DEF FromRow, Renewal
        <4>4. now <= out.image + Slowness + (Renewal * c + Renewal)
          BY <2>5, <2>6, <2>7, <3>3, <4>3, Numbers, SMTT(30) DEF FromRow
        <4>5. now <= out.image + Slowness + Renewal * d
          BY <2>5, <2>6, <3>3, <4>2, <4>4, Numbers
        <4> QED
          BY <2>2, <4>1, <4>5 DEF Aged
      <3> QED
        BY <1>1, <3>1, <3>2, <3>3 DEF AgeInv, InFlight
    <2>9. \A k \in Keys : k # key => images'[k] = images[k]
      BY <1>3, <2>6 DEF writeEntry
    <2> HIDE DEF c, d
    <2>10. \A k \in Keys : Aged(images'[k], links'[k]) /\ Registered(links'[k])
      <3> SUFFICES ASSUME NEW k \in Keys PROVE Aged(images'[k], links'[k]) /\ Registered(links'[k])
        OBVIOUS
      <3>1. Aged(images[k], links[k]) /\ Registered(links[k])
        BY DEF AgeInv, RowsAged
      <3>2. CASE k = key
        BY <2>2, <2>3, <2>8, <3>2
      <3>3. CASE k # key
        BY <2>1, <2>9, <3>1, <3>3
      <3> QED
        BY <3>2, <3>3
    <2>11. \A k \in Keys : Aged(disk'.images[k], disk'.links[k]) /\ Registered(disk'.links[k])
      BY <1>1 DEF AgeInv, RowsAged
    <2> QED
      BY <1>1, <2>10, <2>11 DEF RowsAged, Aged, Registered
  <1> QED
    BY <1>2, <1>3 DEF Return

LEMMA AgeOther ==
  ASSUME AgeInv, PassOver \/ AllAsked \/ Open \/ Die \/ PowerFails \/ WriteReachesDisk
                 \/ \E t \in Times : ClockMoves(t)
  PROVE  RowsAged' /\ InFlight'
  <1>1. CASE PassOver \/ AllAsked
    BY <1>1 DEF PassOver, AllAsked, cacheVars, Enriching, AgeInv, RowsAged, Registered, Aged, InFlight,
       FromRow
  <1>2. CASE Open
    <2>1. /\ UNCHANGED <<links, disk, out>> /\ ~Enriching'
          /\ \A k \in Keys : images'[k] \in {images[k], NoRow}
      BY <1>2 DEF Open, sweepExpired, Enriching
    <2> QED
      BY <2>1 DEF AgeInv, RowsAged, Registered, Aged, InFlight
  <1>3. CASE Die
    BY <1>3, LeaveAge DEF Die, cacheVars, AgeInv, RowsAged, Registered, Aged
  <1>4. CASE PowerFails
    BY <1>4, LeaveAge DEF PowerFails, LosePower, AgeInv, RowsAged, Registered, Aged
  <1>5. CASE WriteReachesDisk
    BY <1>5 DEF WriteReachesDisk, Sync, enrichVars, Enriching, AgeInv, RowsAged, Registered, Aged,
       InFlight, FromRow
  <1>6. CASE \E t \in Times : ClockMoves(t)
    BY <1>6 DEF ClockMoves, Enriching, AgeInv, RowsAged, Registered, Aged, InFlight, FromRow
  <1> QED
    BY <1>1, <1>2, <1>3, <1>4, <1>5, <1>6

LEMMA AgeInvariance == Spec => []AgeInv
  <1>1. AgeInv /\ UNCHANGED vars => RowsAged' /\ InFlight'
    BY DEF vars, cacheVars, enrichVars, AgeInv, RowsAged, Registered, Aged, InFlight, FromRow, Enriching
  <1>2. AgeInv /\ [Next]_vars => RowsAged' /\ InFlight'
    BY <1>1, AgeBegin, AgeAsk, AgeRehost, AgeReturn, AgeOther DEF Next
  <1>3. AgeInv /\ [Next]_vars /\ IInv' => AgeInv'
    BY <1>2 DEF AgeInv
  <1> QED
    BY <1>3, AgeInit, Invariance, PTL DEF Spec

(* However often its timestamp is renewed, an image is let go in the end.  *)
THEOREM ImagesAreLetGo == Spec => []StalenessBounded
  <1>1. AgeInv => StalenessBounded
    <2> SUFFICES ASSUME AgeInv, Enriching, out.image # NoImage
                 PROVE  began <= out.image + (ImageTtl - 1 + Slowness) * (Len(Sources) + 1)
      BY DEF StalenessBounded
    <2>1. began \in Nat /\ out.image \in Nat /\ key \in Keys
      BY Numbers DEF AgeInv, IInv, TypeOK, CacheTypeOK, Results
    <2> DEFINE c == Cardinality(links[key])
               n == Len(Sources)
    <2>2. c \in Nat /\ n \in Nat /\ c <= n
      BY <2>1, FewLinks, Numbers DEF AgeInv, IInv, OneLinkPerPlatform, RowsAged
    <2>3. /\ Renewal * c \in Nat /\ Renewal * n \in Nat /\ Renewal * c <= Renewal * n
          /\ Renewal * (n + 1) = Renewal * n + Renewal
      BY <2>2, RenewalOnce
    <2>4. CASE began <= out.image
      BY <2>1, <2>3, <2>4, Numbers DEF Renewal
    <2>5. CASE FromRow
      <3>1. /\ images[key].writtenAt \in Nat
            /\ images[key].writtenAt <= out.image + Slowness + Renewal * c
        BY <2>1, <2>5, Numbers DEF FromRow, AgeInv, IInv, TypeOK, CacheTypeOK, RowsAged, Aged, ImageRows
      <3>2. began <= images[key].writtenAt + (ImageTtl - 1)
        BY <2>1, <2>5, <3>1, Numbers DEF FromRow
      <3>3. Slowness + (ImageTtl - 1) = Renewal
        BY Numbers DEF Renewal
      <3>4. began <= out.image + (Renewal * n + Renewal)
        <4>1. began <= out.image + Slowness + Renewal * c + (ImageTtl - 1)
          BY <2>1, <2>3, <3>1, <3>2, Numbers
        <4>2. Renewal \in Nat
          BY Numbers DEF Renewal
        <4> QED
          BY <2>1, <2>3, <3>3, <4>1, <4>2, Numbers
      <3>5. began <= out.image + Renewal * (n + 1)
        BY <2>3, <3>4
      <3> QED
        BY <3>5 DEF Renewal
    <2> QED
      BY <2>4, <2>5 DEF AgeInv, InFlight
  <1> QED
    BY <1>1, AgeInvariance, PTL

(* findEntry finds as much after the sweep as before it.                   *)
THEOREM SweepsUnseen == Spec => SweepIsInvisible
  <1>1. [Next]_vars => (Open => \A k \in Keys : findEntry(k)' = findEntry(k)) \/ UNCHANGED vars
    <2> SUFFICES ASSUME Open, NEW k \in Keys PROVE findEntry(k)' = findEntry(k)
      OBVIOUS
    <2>1. /\ UNCHANGED <<now, links>>
          /\ images'[k] = images[k] \/ (~Usable(images[k]) /\ images'[k] = NoRow)
      BY DEF Open, sweepExpired
    <2> QED
      BY <2>1 DEF findEntry, Usable, isFresh
  <1> QED
    BY <1>1, PTL DEF Spec, SweepIsInvisible
=============================================================================
