--------------------------- MODULE MetadataCache ----------------------------
(***************************************************************************)
(* src/metadata/cache.cpp over src/metadata/cache_codec.cpp: what is known *)
(* of a track, in a LevelDB database that outlives the process.  A track   *)
(* has an image row, which carries the second it was written and is        *)
(* trusted for kImageTtl from then, and a row of song links, which never   *)
(* expire.                                                                 *)
(*                                                                         *)
(* Abstracted: a track is its key (getKey turns bars into dashes, so       *)
(* tracks that differ in these only are one); an image is the second it    *)
(* was supplied in; the list of links is the set of its entries, for it is *)
(* merged without duplicates; of the bytes of a row, only an image row's   *)
(* failure to parse is kept.                                               *)
(***************************************************************************)
EXTENDS Naturals, MetadataTypes

CONSTANTS
  Keys,       \* tracks
  Times,      \* what the system clock may show
  ImageTtl,   \* kImageTtl
  NoImage,    \* an ImageUrl with an empty url
  NoRow       \* a key that is not in the database

ASSUME NoneAssumption == NoImage \notin Times
ASSUME ClockAssumption == Times \subseteq Nat /\ ImageTtl \in Nat \ {0}

VARIABLES
  now,    \* the system clock
  images, \* the image row of each key
  links,  \* the url row of each key, {} if it has none
  disk    \* both, as a loss of power would leave them

cacheVars == <<now, images, links, disk>>

ImageRows == [image : Times, writtenAt : Times]

CacheTypeOK ==
  /\ now \in Times
  /\ images \in [Keys -> ImageRows \union {NoRow, Malformed}]
  /\ links \in [Keys -> SUBSET Links]
  /\ disk \in [images : [Keys -> ImageRows \union {NoRow, Malformed}],
               links : [Keys -> SUBSET Links]]

(* The database may have been written by an earlier version.               *)
CacheInit ==
  /\ now \in Times
  /\ images \in [Keys -> {NoRow, Malformed}]
  /\ links = [k \in Keys |-> {}]
  /\ disk = [images |-> images, links |-> links]

-----------------------------------------------------------------------------
(* A timestamp in the future is fresh.                                     *)
isFresh(writtenAt) == now < writtenAt + ImageTtl

Usable(row) == row \notin {NoRow, Malformed} /\ isFresh(row.writtenAt)

(* findEntry: nullopt is an entry of no image and no links.                *)
findEntry(k) ==
  [image |-> IF Usable(images[k]) THEN images[k].image ELSE NoImage,
   songUrls |-> links[k]]

mergeSongUrls(existing, incoming) == existing \union {l \in incoming : l.url # NoUrl}

(* writeEntry: one batch, whose status nobody looks at.                    *)
writeEntry(k, entry) ==
  /\ images' = IF entry.image = NoImage THEN images
               ELSE [images EXCEPT ![k] = [image |-> entry.image, writtenAt |-> now]]
  /\ links' = [links EXCEPT ![k] = mergeSongUrls(@, entry.songUrls)]

(* Faulty: a row is swept a second before findEntry would withhold it.     *)
BadSweepExpired ==
  images' = [k \in Keys |-> IF Usable(images[k]) /\ now + 1 < images[k].writtenAt + ImageTtl
                            THEN images[k] ELSE NoRow]

(* sweepExpired: image rows only.                                          *)
sweepExpired == images' = [k \in Keys |-> IF Usable(images[k]) THEN images[k] ELSE NoRow]

(* LevelDB writes without sync: what was written reaches the disk sometime,*)
(* in the order it was written.                                            *)
Sync ==
  /\ disk' = [images |-> images, links |-> links]
  /\ UNCHANGED <<now, images, links>>

LosePower ==
  /\ images' = disk.images
  /\ links' = disk.links
  /\ UNCHANGED <<now, disk>>
=============================================================================
