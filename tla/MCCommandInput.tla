---------------------------- MODULE MCCommandInput ----------------------------
(* A u64 has 22 bits here: the longest position is 1:09:54, so that each    *)
(* product and sum of the parser has numbers below, at and beyond its limit.*)
(* The entries of a playlist are a null, one with nothing, and the          *)
(* combinations of title and locators that the resolver tells apart.        *)
EXTENDS CommandInput

MCTypedNumbers ==
  {0, 1, 9, 53, 54, 55, 59, 60, 61, 69, 70, 1165, 1166, 4194, 4195, 69905, 69906, 500000}

MCPrintedEntries ==
  {Null, {}, {"title"}, {"url"}, {"title", "webpage_url"}, {"title", "url"},
   {"webpage_url", "url"}, Fields}
===============================================================================
