--------------------------------- MODULE YtDlp ---------------------------------
(***************************************************************************)
(* How the resolver reads what yt-dlp prints (src/src/media/ytdlp.rs).     *)
(*                                                                         *)
(* yt-dlp prints one JSON value: a track, or an object whose `entries' are *)
(* tracks or nulls.  A track is the set of its usable fields, a field of   *)
(* the wrong type and a `url' that is not HTTP being of no use.            *)
(***************************************************************************)
EXTENDS Naturals, SequencesExt, FiniteSetsExt

CONSTANT PrintedEntries   \* the entries that the checks let yt-dlp print

Fields == {"title", "webpage_url", "original_url", "url"}

Null == {"null"}

ASSUME EntryAssumption == PrintedEntries \subseteq (SUBSET Fields) \union {Null}

(* One value is a document of one item; `entries' may be no array. *)
Documents(entries) ==
  [kind : {"value"}, items : [1 .. 1 -> PrintedEntries \ {Null}]]
    \union [kind : {"entries"}, items : entries]
    \union [kind : {"malformed"}, items : {<< >>}]

(* The places in S, in their order: what a filter leaves of an iterator. *)
InOrder(S) ==
  CHOOSE s \in [1 .. Cardinality(S) -> S] :
    \A m, n \in DOMAIN s : m < n => s[m] < s[n]

(* The entries that are there, by their places in the document. *)
Present(doc) == InOrder({i \in DOMAIN doc.items : doc.items[i] # Null})

(* What a resolution yields: tracks, or the reason there are none. *)
Failed(reason) == [error |-> reason, tracks |-> << >>]
Resolved(tracks) == [error |-> "none", tracks |-> tracks]

(* Where a value says the track is to be found, by preference; the request *)
(* stands in if it is an HTTP URL.                                         *)
Preference == << "webpage_url", "original_url", "url", "request" >>

Locators(value, request) ==
  {k \in DOMAIN Preference : Preference[k] \in value \union request}

ParseResolvedValue(doc, i, request) ==
  LET locators == Locators(doc.items[i], request)
  IN  IF "title" \notin doc.items[i] THEN Failed("title")
      ELSE IF locators = {} THEN Failed("webpage_url")
      ELSE Resolved(<< [entry |-> i, locator |-> Preference[Min(locators)]] >>)

(* The first entry that is there. *)
ParseResolvedTrack(doc, request) ==
  IF Present(doc) = << >> THEN Failed("NoResults")
  ELSE ParseResolvedValue(doc, Head(Present(doc)), request)

Take(s, limit) == SubSeq(s, 1, Min({limit, Len(s)}))

(* Mutant: nulls are among the entries that count. *)
ConsideredWithNulls(doc, limit) ==
  InOrder({i \in 1 .. Min({limit, Len(doc.items)}) : doc.items[i] # Null})

(* The entries that are looked at. *)
Considered(doc, limit) == Take(Present(doc), limit)

(* What can be parsed is kept; the first error counts if nothing can. *)
ParsePlaylistTracks(doc, request, limit) ==
  LET parsed == [i \in DOMAIN doc.items |-> ParseResolvedValue(doc, i, {})]
      considered == Considered(doc, limit)
      good == InOrder({i \in ToSet(considered) : parsed[i].error = "none"})
  IN  CASE doc.kind = "value" -> ParseResolvedTrack(doc, request)
        [] doc.kind # "value" /\ good # << >> ->
             Resolved([n \in DOMAIN good |-> parsed[good[n]].tracks[1]])
        [] doc.kind # "value" /\ good = << >> ->
             IF considered = << >> THEN Failed("NoResults")
             ELSE parsed[Head(considered)]

ParsePlayableMedia(doc) ==
  IF Present(doc) = << >> THEN "NoResults"
  ELSE IF "url" \in doc.items[Head(Present(doc))] THEN "none" ELSE "InvalidMediaUrl"
===============================================================================
