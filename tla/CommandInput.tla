----------------------------- MODULE CommandInput -----------------------------
(***************************************************************************)
(* What users type into /seek and /playlist, until the worker is asked for *)
(* the position or the tracks are queued                                   *)
(* (src/src/commands/playback_controls.rs and playlist.rs).  One command   *)
(* is typed at a time.                                                     *)
(*                                                                         *)
(* --playlist-end asks yt-dlp for no more entries than the limit, the      *)
(* unavailable ones included; the resolver does not rely on it.            *)
(***************************************************************************)
EXTENDS SeekPosition, YtDlp

CONSTANTS
  MaxFields,             \* bound: fields of a position
  MaxPlaylistItems,      \* MAX_PLAYLIST_ITEMS
  DefaultPlaylistItems,  \* DEFAULT_PLAYLIST_ITEMS
  MaxPrinted             \* bound: entries that yt-dlp prints

ASSUME PlaylistAssumption ==
  /\ MaxFields \in Nat /\ MaxPrinted \in Nat
  /\ MaxPlaylistItems \in Nat \ {0}
  /\ DefaultPlaylistItems \in 1 .. MaxPlaylistItems

VARIABLES
  typed,     \* /seek: the fields typed so far
  position,  \* what the last /seek asked the worker for
  at,        \* /playlist: "none", "printing", or "resolved"
  limit,     \* how many tracks are asked for
  document,  \* what yt-dlp has printed
  result     \* what the resolver made of it

seek == << typed, position >>
playlist == << at, limit, document, result >>
vars == << seek, playlist >>

NoDocument == [kind |-> "malformed", items |-> << >>]

Init ==
  /\ typed = << >> /\ position = NoPosition
  /\ at = "none" /\ limit = 0 /\ document = NoDocument /\ result = Failed("none")

------------------------------------------------------------------------------
(* /seek *)

TypeField ==
  /\ at = "none" /\ Len(typed) < MaxFields
  /\ \E field \in TypedNumbers \union {NoNumber} : typed' = Append(typed, field)
  /\ position' = NoPosition
  /\ UNCHANGED playlist

Seek ==
  /\ typed # << >> /\ typed' = << >>
  /\ position' = ParseSeekPosition(typed)
  /\ UNCHANGED playlist

------------------------------------------------------------------------------
(* /playlist *)

(* A typed number, or nothing. *)
Numbers == {{}} \union {{n} : n \in 0 .. MaxPlaylistItems + 1}

(* 0 means that the limit is refused. *)
PlaylistLimit(typedLimit) ==
  LET number == IF typedLimit = {} THEN DefaultPlaylistItems
                                   ELSE CHOOSE n \in typedLimit : TRUE
  IN  IF number \in 1 .. MaxPlaylistItems THEN number ELSE 0

(* A refused limit changes nothing. *)
Ask ==
  /\ at = "none" /\ typed = << >>
  /\ \E number \in Numbers :
       PlaylistLimit(number) # 0 /\ limit' = PlaylistLimit(number)
  /\ at' = "printing" /\ document' \in Documents({<< >>})
  /\ position' = NoPosition
  /\ UNCHANGED << typed, result >>

PrintEntry ==
  /\ at = "printing" /\ document.kind = "entries"
  /\ Len(document.items) < MaxPrinted
  /\ \E entry \in PrintedEntries :
       document' = [document EXCEPT !.items = Append(@, entry)]
  /\ UNCHANGED << seek, at, limit, result >>

(* The request is an HTTP URL: /playlist takes no other. *)
Parse ==
  /\ at = "printing" /\ at' = "resolved"
  /\ result' = ParsePlaylistTracks(document, {"request"}, limit)
  /\ UNCHANGED << seek, limit, document >>

(* The tracks are queued, or the error is shown. *)
Conclude ==
  /\ at = "resolved" /\ at' = "none"
  /\ limit' = 0 /\ document' = NoDocument /\ result' = Failed("none")
  /\ UNCHANGED seek

------------------------------------------------------------------------------
Next == TypeField \/ Seek \/ Ask \/ PrintEntry \/ Parse \/ Conclude

Spec == Init /\ [][Next]_vars

------------------------------------------------------------------------------
(* What a clock reading means, without any limit to the arithmetic. *)
Meaning(fields) ==
  LET Read[n \in 0 .. Len(fields)] ==
        IF n = 0 THEN 0 ELSE 60 * Read[n - 1] + fields[n]
  IN  Read[Len(fields)]

Sensible(fields) ==
  /\ Len(fields) \in 1 .. 3 /\ NoNumber \notin ToSet(fields)
  /\ \A i \in 2 .. Len(fields) : fields[i] \in 0 .. 59

(* /seek never seeks elsewhere than it was told to: each clock reading     *)
(* whose milliseconds fit in a u64 is read as the position it means, and   *)
(* everything else, a value that overflows on the way included, is refused *)
(* and neither wraps around nor saturates.                                 *)
SeekReadsClock ==
  [][typed # << >> /\ typed' = << >> =>
       position' = IF Sensible(typed) /\ Meaning(typed) <= MaxU64 \div 1000
                   THEN 1000 * Meaning(typed) ELSE NoPosition]_vars

(* /playlist queues what was asked for out of the entries that yt-dlp      *)
(* prints: the usable ones in their order, at most as many as the limit,   *)
(* and an entry that is not there costs no other its place: none is passed *)
(* over while the limit leaves room for it.  It fails only if nothing      *)
(* within the limit is usable, and a single video is a playlist of one.    *)
PlaylistAsAsked ==
  at = "resolved" =>
    LET items == document.items
        taken == [n \in DOMAIN result.tracks |-> result.tracks[n].entry]
        single == document.kind = "value"
        usable == {i \in DOMAIN items :
                     "title" \in items[i] /\ (single \/ items[i] \ {"title"} # {})}
        Before(i) == {j \in 1 .. i - 1 : items[j] # Null}
    IN  /\ Len(taken) <= limit
        /\ \A m, n \in DOMAIN taken : m < n => taken[m] < taken[n]
        /\ ToSet(taken) = {i \in usable : Cardinality(Before(i)) < limit}
        /\ (result.error = "none") <=> (taken # << >>)
===============================================================================
