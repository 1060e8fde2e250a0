----------------------------- MODULE MCDecoderTask ----------------------------
(* Streams of up to three packets, cut into pages of up to three segments: *)
(* a packet may span two pages, fill one, or share it with others, and may *)
(* be too large.  What yt-dlp prints has media or it has not.              *)
EXTENDS DecoderTask

MCPrintedEntries == {Null, {"title"}, {"title", "url"}}
===============================================================================
