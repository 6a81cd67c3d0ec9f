---------------------------- MODULE ListingCache ----------------------------
(***************************************************************************)
(* What PyeZipImporter's cache of archive listings promises, without       *)
(* threads, locks or importers: a slot is filled only while it is empty,   *)
(* with a listing the archive had on disk at some moment since the caches  *)
(* were last invalidated, and an invalidation empties every slot.          *)
(* PyeZipImporter implements this specification.                           *)
(***************************************************************************)
CONSTANTS
  Zips,        \* paths of files that may be zip archives
  Contents,    \* what such a path may hold on disk
  Archive(_),  \* whether a content is a readable archive (its listing)
  NoListing    \* an empty slot

VARIABLES
  disk,        \* the content of every path of Zips
  listing,     \* the cached listing of every archive, or NoListing
  since        \* the contents each path had since the last invalidation

cacheVars == <<disk, listing, since>>

Init ==
  /\ disk \in [Zips -> Contents]
  /\ listing = [z \in Zips |-> NoListing]
  /\ since = [z \in Zips |-> {disk[z]}]

Write(z, c) ==
  /\ disk' = [disk EXCEPT ![z] = c]
  /\ since' = [since EXCEPT ![z] = @ \union {c}]
  /\ UNCHANGED listing

Fill(z) ==
  /\ listing[z] = NoListing
  /\ \E c \in since[z] : Archive(c) /\ listing' = [listing EXCEPT ![z] = c]
  /\ UNCHANGED <<disk, since>>

Clear ==
  /\ listing' = [z \in Zips |-> NoListing]
  /\ since' = [z \in Zips |-> {disk[z]}]
  /\ UNCHANGED disk

Next ==
  \/ \E z \in Zips, c \in Contents : Write(z, c)
  \/ \E z \in Zips : Fill(z)
  \/ Clear

Spec == Init /\ [][Next]_cacheVars
=============================================================================
