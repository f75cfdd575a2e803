------------------------------ MODULE Enricher ------------------------------
(***************************************************************************)
(* src/metadata/enricher.cpp: an enrichment seeds its result from the      *)
(* cache, asks the sources in order for what is missing, has the thumbnail *)
(* uploaded if there is still no image, and writes the result back if it   *)
(* learnt anything.  Each source is a slow call, the process may die and   *)
(* the power fail at any moment, a write may fail unnoticed, and the       *)
(* system clock may be set.                                                *)
(*                                                                         *)
(* Assumed: LevelDB reads what it holds; while an enrichment runs, which   *)
(* curl's timeouts bound, the clock only advances, and by no more than     *)
(* Slowness.                                                               *)
(***************************************************************************)
EXTENDS MetadataCache, Search

CONSTANTS
  Sources,    \* the registered sources' platforms, in order
  Scrapers,   \* those of them that have images: Last.fm's search has none
  Slowness    \* how far the clock gets during an enrichment

ASSUME SourcesAssumption ==
  /\ Sources \in Seq(Platforms)
  /\ \A i, j \in 1..Len(Sources) : Sources[i] = Sources[j] => i = j
  /\ Scrapers \subseteq Platforms
  /\ Slowness \in Nat

VARIABLES
  step,       \* "closed", "idle", "sources", "uploaders" or "writing"
  key,        \* the track being enriched
  asked,      \* how many sources were asked or passed over
  out,        \* the EnrichedTrack
  changed,
  began       \* when findEntry looked, or would look now

enrichVars == <<step, key, asked, out, changed, began>>
vars == <<cacheVars, enrichVars>>

Results == [image : Times \union {NoImage}, songUrls : SUBSET Links]

TypeOK ==
  /\ CacheTypeOK
  /\ step \in {"closed", "idle", "sources", "uploaders", "writing"}
  /\ key \in Keys
  /\ asked \in 0..Len(Sources)
  /\ out \in Results
  /\ changed \in BOOLEAN
  /\ began \in Times
  /\ began <= now /\ now <= began + Slowness
  /\ step \in {"uploaders", "writing"} => asked = Len(Sources)

Init ==
  /\ CacheInit
  /\ step = "closed"
  /\ key \in Keys
  /\ asked = 0
  /\ out = [image |-> NoImage, songUrls |-> {}]
  /\ changed = FALSE
  /\ began = now

(* The locals of an enrichment go with it.                                 *)
Leave ==
  /\ asked' = 0
  /\ out' = [image |-> NoImage, songUrls |-> {}]
  /\ changed' = FALSE
  /\ began' = now
  /\ UNCHANGED key

(* What searchTrack may come back with: whether an image, and what link.   *)
Answers(platform) == IF platform \in Scrapers THEN ScraperAnswers ELSE LastFmAnswers

Enriching == step \in {"sources", "uploaders", "writing"}
NeedImage == out.image = NoImage
OwnedPlatforms == {l.source : l \in out.songUrls}

-----------------------------------------------------------------------------
(* Faulty variants, used only to show that a property can fail, are named  *)
(* Bad... and stand before what they would replace.                        *)

BadBegin(k) ==                       \* does not seed the links
  /\ step = "idle"
  /\ step' = "sources"
  /\ key' = k
  /\ out' = [image |-> findEntry(k).image, songUrls |-> {}]
  /\ UNCHANGED <<cacheVars, asked, changed, began>>

Begin(k) ==
  /\ step = "idle"
  /\ step' = "sources"
  /\ key' = k
  /\ out' = findEntry(k)
  /\ UNCHANGED <<cacheVars, asked, changed, began>>

(* A source that could give neither an image nor a link is not asked.      *)
PassOver ==
  /\ step = "sources"
  /\ asked < Len(Sources)
  /\ ~NeedImage
  /\ Sources[asked + 1] \in OwnedPlatforms
  /\ asked' = asked + 1
  /\ UNCHANGED <<cacheVars, step, key, out, changed, began>>

BadLearn(platform, found, url) ==    \* takes an image that is not needed
  LET takeLink == platform \notin OwnedPlatforms /\ url # NoUrl
  IN  /\ out' = [image |-> IF found THEN now ELSE out.image,
                 songUrls |-> out.songUrls \union
                   (IF takeLink THEN {[url |-> url, source |-> platform]} ELSE {})]
      /\ changed' = (changed \/ found \/ takeLink)

(* searchTrack came back: what was missing is taken.                       *)
Learn(platform, found, url) ==
  LET takeImage == NeedImage /\ found
      takeLink == platform \notin OwnedPlatforms /\ url # NoUrl
  IN  /\ out' = [image |-> IF takeImage THEN now ELSE out.image,
                 songUrls |-> out.songUrls \union
                   (IF takeLink THEN {[url |-> url, source |-> platform]} ELSE {})]
      /\ changed' = (changed \/ takeImage \/ takeLink)

Ask ==
  /\ step = "sources"
  /\ asked < Len(Sources)
  /\ asked' = asked + 1
  /\ LET platform == Sources[asked + 1]
     IN  /\ NeedImage \/ platform \notin OwnedPlatforms
         /\ \E answer \in Answers(platform) : Learn(platform, answer[1], answer[2])
  /\ UNCHANGED <<cacheVars, step, key, began>>

BadAllAsked ==                       \* an image and a link are enough
  /\ step = "sources"
  /\ asked = Len(Sources) \/ (~NeedImage /\ out.songUrls # {})
  /\ step' = IF NeedImage THEN "uploaders" ELSE "writing"
  /\ UNCHANGED <<cacheVars, key, asked, out, changed, began>>

AllAsked ==
  /\ step = "sources"
  /\ asked = Len(Sources)
  /\ step' = IF NeedImage THEN "uploaders" ELSE "writing"
  /\ UNCHANGED <<cacheVars, key, asked, out, changed, began>>

(* The thumbnail, if there is one, goes to the first uploader to take it.  *)
Rehost ==
  /\ step = "uploaders"
  /\ step' = "writing"
  /\ \E hosted \in ImgurAnswers :
       /\ out' = IF hosted THEN [out EXCEPT !.image = now] ELSE out
       /\ changed' = (changed \/ hosted)
  /\ UNCHANGED <<cacheVars, key, asked, began>>

BadReturn ==                         \* whether it learnt anything or not
  /\ step = "writing"
  /\ step' = "idle"
  /\ writeEntry(key, out)
  /\ Leave
  /\ UNCHANGED <<now, disk>>

(* The result is handed to the caller even if the write failed.            *)
Return ==
  /\ step = "writing"
  /\ step' = "idle"
  /\ \/ changed /\ writeEntry(key, out)
     \/ UNCHANGED <<images, links>>
  /\ Leave
  /\ UNCHANGED <<now, disk>>

-----------------------------------------------------------------------------
(* MetadataCache::open, whose sweep may fail unnoticed, too.               *)
BadOpen ==                           \* sweeps the links of a swept image
  /\ step = "closed"
  /\ step' = "idle"
  /\ sweepExpired
  /\ links' = [k \in Keys |-> IF Usable(images[k]) THEN links[k] ELSE {}]
  /\ UNCHANGED <<now, disk, key, asked, out, changed, began>>

Open ==
  /\ step = "closed"
  /\ step' = "idle"
  /\ sweepExpired \/ UNCHANGED images
  /\ UNCHANGED <<now, links, disk, key, asked, out, changed, began>>

(* The process ends, at whatever point.                                    *)
Die ==
  /\ step # "closed"
  /\ step' = "closed"
  /\ Leave
  /\ UNCHANGED cacheVars

PowerFails ==
  /\ step' = "closed"
  /\ LosePower
  /\ Leave

WriteReachesDisk == Sync /\ UNCHANGED enrichVars

(* Time goes by, or somebody sets the clock.                               *)
ClockMoves(t) ==
  /\ Enriching => now <= t /\ t <= began + Slowness
  /\ now' = t
  /\ began' = IF Enriching THEN began ELSE t
  /\ UNCHANGED <<images, links, disk, step, key, asked, out, changed>>

Next ==
  \/ \E k \in Keys : Begin(k)
  \/ PassOver \/ Ask \/ AllAsked \/ Rehost \/ Return \/ Open \/ Die \/ PowerFails \/ WriteReachesDisk
  \/ \E t \in Times : ClockMoves(t)

Spec == Init /\ [][Next]_vars

-----------------------------------------------------------------------------
(* However sources answer from one enrichment to the next, and whatever    *)
(* was lost between, a track has one link for each platform: the presence  *)
(* has one button for each.                                                *)
OneLinkEach(ls) == \A l, m \in ls : l.source = m.source => l = m

OneLinkPerPlatform ==
  /\ OneLinkEach(out.songUrls)
  /\ \A k \in Keys : OneLinkEach(links[k]) /\ OneLinkEach(disk.links[k])

(* A row's timestamp is renewed whenever a link is added to a track whose  *)
(* image was cached, so an image may outlive kImageTtl; but each platform  *)
(* can do this once, and with that an image is let go in the end.          *)
StalenessBounded ==
  Enriching /\ out.image # NoImage =>
     began <= out.image + (ImageTtl - 1 + Slowness) * (Len(Sources) + 1)

(* "How long a cached image URL is trusted before it must be re-fetched"   *)
TrustedForTtl ==
  Enriching /\ out.image # NoImage => began < out.image + ImageTtl

(* A failed write or a power failure apart, a known link stays known.      *)
LinksNeverExpire ==
  [][PowerFails \/ \A k \in Keys : links[k] \subseteq links'[k]]_vars

(* Sweeping takes nothing that findEntry would still have used.            *)
SweepIsInvisible ==
  [][Open => \A k \in Keys : findEntry(k)' = findEntry(k)]_vars

(* An image the enrichment found fresh is not replaced by what it learns.  *)
FreshImageStands ==
  [][\A k \in Keys : step = "writing" /\ images'[k] # images[k] /\ ~PowerFails
       => \/ images[k] \in {NoRow, Malformed}
          \/ images'[k].image = images[k].image
          \/ ~(began < images[k].writtenAt + ImageTtl)]_vars
=============================================================================
