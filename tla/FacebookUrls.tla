------------------------------ MODULE FacebookUrls ------------------------------
(***************************************************************************)
(* The rewriting of URLs (src/face/url_utils.py) and their classification  *)
(* (src/face/url_classifier.py).                                           *)
(*                                                                         *)
(* A URL is its host, the segments of its path, whether a slash ends it,   *)
(* and the parameters of its query.  A parameter may have another one      *)
(* packed in its value (the address a login page returns to, say): its     *)
(* separator is percent-encoded as often as "layers" says.                 *)
(***************************************************************************)
EXTENDS Naturals, FiniteSets, Sequences, SequencesExt

FACEBOOK_HOST_ALIASES == {"www.facebook.com", "m.facebook.com"}

TRACKING_QUERY_PARAMS == {"fbclid", "ref", "__cft__"}

\* normalize_url returns None.
NoUrl == [host |-> "none", path |-> <<>>, slash |-> FALSE, query |-> <<>>]

Plain(key, value) == [key |-> key, value |-> value, packed |-> <<>>, layers |-> 0]

\* The keys that occur, in the order of sorted().
KeyOrder == <<"__cft__", "fbclid", "id", "next", "ref", "v">>

\* Any parameter; one is packed in it under one or more layers.
Parameters ==
  {p \in [key : Range(KeyOrder), value : Nat,
          packed : {<<>>} \cup (Range(KeyOrder) \X Nat), layers : Nat] :
     p.layers = 0 <=> p.packed = <<>>}

\* What unquote makes of a parameter: one layer is taken off the packed one, and
\* the last layer sets it free.
Unquote(p) ==
  CASE p.layers = 0 -> <<p>>
    [] p.layers = 1 -> <<Plain(p.key, p.value), Plain(p.packed[1], p.packed[2])>>
    [] OTHER -> <<[p EXCEPT !.layers = @ - 1]>>

\* The order of sorted() on the parameters: keys, then values.
Position(key) == CHOOSE i \in DOMAIN KeyOrder : KeyOrder[i] = key

Before(p, q) ==
  \/ Position(p.key) < Position(q.key)
  \/ p.key = q.key /\ p.value < q.value

\* The parameters of a query that has been unquoted once, without the tracking ones:
\* each at the place of the one it comes from and its own place there.
Cleaned(query) ==
  LET places == {x \in (DOMAIN query) \X {1, 2} :
                   /\ x[2] \in DOMAIN Unquote(query[x[1]])
                   /\ Unquote(query[x[1]])[x[2]].key \notin TRACKING_QUERY_PARAMS}
  IN [x \in places |-> Unquote(query[x[1]])[x[2]]]

\* p may be the n-th of the parameters in order: fewer come before it, and with its
\* equals they are enough.
HasPlace(p, n, params) ==
  /\ Cardinality({x \in DOMAIN params : Before(params[x], p)}) < n
  /\ n <= Cardinality({x \in DOMAIN params : ~Before(p, params[x])})

\* sorted(cleaned_query)
Sorted(params) ==
  [n \in 1..Cardinality(DOMAIN params) |-> CHOOSE p \in Range(params) : HasPlace(p, n, params)]

\* Mutant of Normalize: the parameters stay in the order of the URL.
NormalizeUnsorted(u) ==
  IF u.host \notin FACEBOOK_HOST_ALIASES
  THEN NoUrl
  ELSE [NoUrl EXCEPT !.host = "www.facebook.com", !.path = u.path,
                     !.query = SelectSeq(FlattenSeq([i \in DOMAIN u.query |-> Unquote(u.query[i])]),
                                         LAMBDA p : p.key \notin TRACKING_QUERY_PARAMS)]

\* extract_facebook_url, which is normalize_url.  (The target of a search engine's
\* redirect is decoded once for having been encoded once, and is like any other.)
Normalize(u) ==
  IF u.host \notin FACEBOOK_HOST_ALIASES
  THEN NoUrl
  ELSE [NoUrl EXCEPT !.host = "www.facebook.com", !.path = u.path,
                     !.query = Sorted(Cleaned(u.query))]

\* strip_tracking_params: normalizes once more, and finds nothing left to strip.
StripTracking(u) == Normalize(u)

Starts(path, segments) == path # <<>> /\ path[1] \in segments

\* The path has "segments" as its first or as its second segment, and something
\* behind it.
HasPart(path, segments) ==
  \/ Len(path) >= 2 /\ path[1] \in segments
  \/ Len(path) >= 3 /\ path[2] \in segments

Classify(u) ==
  LET path == u.path IN
  CASE Len(path) >= 2 /\ Starts(path, {"reel", "reels"}) -> "reel"
    [] Starts(path, {"watch"}) \/ HasPart(path, {"videos"}) -> "video"
    [] HasPart(path, {"posts", "permalink"}) -> "post"
    [] Len(path) >= 2 /\ Starts(path, {"groups"}) -> "group"
    [] Len(path) >= 2 /\ Starts(path, {"events"}) -> "event"
    [] Len(path) >= 2 /\ Starts(path, {"photos"}) -> "photo"
    [] OTHER -> "page"
================================================================================
