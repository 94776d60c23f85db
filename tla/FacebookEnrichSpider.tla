-------------------------- MODULE FacebookEnrichSpider --------------------------
(***************************************************************************)
(* A run of the enrich spider: the URL that the search stage stored is     *)
(* requested, Facebook redirects and answers with a page, and              *)
(* parse_facebook turns it into the one item of the run.                   *)
(***************************************************************************)
EXTENDS FacebookUrls, EngagementText

CONSTANTS Results,  \* URLs in the answers of the search backend
          Links,    \* canonical links, and NoUrl for a page without one
          Pages,    \* texts of pages: posts, and the labels with dates
          Today,    \* days on which the spider may run
          MaxHops   \* bound: redirects of the request

\* What the search backend answers are URLs; the text of a page are mentions, and its
\* elements parts of it; the clock shows a day.
ASSUME FacebookEnrichSpiderAssumption ==
  /\ MaxHops \in Nat
  /\ \A u \in Results : u.query \in Seq(Parameters)
  /\ \A page \in Pages :
       LET parts == (1..(Len(page.text) + 1)) \X (0..Len(page.text)) IN
       /\ page.text \in Seq(Mentions)
       /\ page.scope \in parts /\ {page.inner, page.elements} \subseteq Seq(parts)
       /\ {page.ownAction, page.otherAction} \subseteq Seq(Seq(Mentions))
  /\ Today \subseteq [day : 1..31, month : 1..12, year : Nat]

VARIABLES
  task,  \* what the search found, and the arguments of the run
  url,   \* the URL of the request, after its redirects the one of the response
  hops,  \* redirects so far
  item   \* NoItem, LostItem or the item of the run

vars == <<task, url, hops, item>>

NoItem == [status |-> "none"]
LostItem == [status |-> "lost"]

\* A URL of the search backend that the search spider can normalize is stored, and
\* its record sent to the enrich queue.
Init ==
  /\ \E found \in {u \in Results : Normalize(u) # NoUrl} :
       task = [found |-> found, url |-> Normalize(found),
               category |-> Classify(StripTracking(Normalize(found)))]
  /\ url = task.url
  /\ hops = 0
  /\ item = NoItem

\* Other ways in which Facebook writes the URL of a page.
Variants(u) ==
  {[u EXCEPT !.host = h] : h \in {"www.facebook.com", "m.facebook.com", "pt-br.facebook.com"}}
  \cup {[u EXCEPT !.slash = s] : s \in BOOLEAN}
  \cup {[u EXCEPT !.query = Append(@, Plain(k, 1))] : k \in TRACKING_QUERY_PARAMS}
  \cup {[u EXCEPT !.query = Reverse(@)]}

\* The request is redirected to the same page under another URL.
Redirect ==
  /\ item = NoItem
  /\ hops < MaxHops
  /\ url' \in Variants(url) \ {url}
  /\ hops' = hops + 1
  /\ UNCHANGED <<task, item>>

\* The request fails for good: the selector it waits for does not come, or the
\* callback raises.
RequestFails ==
  /\ item = NoItem
  /\ item' = LostItem
  /\ UNCHANGED <<task, url, hops>>

\* Mutant of Key: nothing in the place of a link that cannot be normalized.
KeyOrNone(canonical) == Normalize(IF canonical = NoUrl THEN url ELSE canonical)

\* parse_facebook's url_normalized: that of the canonical link or, without one, of
\* the response; its URL as it is if that cannot be normalized.
Key(canonical) ==
  LET source == IF canonical = NoUrl THEN url ELSE canonical
  IN IF Normalize(source) = NoUrl THEN url ELSE Normalize(source)

\* _detect_category
DetectCategory(key) == Classify(IF StripTracking(key) = NoUrl THEN key ELSE StripTracking(key))

\* _extract_metadata_by_category: of a page, which is also what a URL is taken for that
\* is nothing else, neither counts nor dates are read; of everything else the same.
CommentsRead(category, page) == IF category = "page" THEN {NoCount} ELSE CommentCount(page)
ViewsRead(category, page) == IF category = "page" THEN {NoCount} ELSE ViewCount(page)

DateRead(category, page, now) ==
  IF category = "page" THEN NoDate ELSE ParsePublishedAt(PublishedAtText(page.labels), now)

\* The response: its canonical link, its text, and the clock.
ParseFacebook(canonical, page, now) ==
  /\ item = NoItem
  /\ LET category == DetectCategory(Key(canonical)) IN
     \E comments \in CommentsRead(category, page), views \in ViewsRead(category, page) :
       item' = [status |-> "enriched",
                canonical |-> canonical, page |-> page, now |-> now,
                url_normalized |-> Key(canonical), category |-> category,
                comment_count |-> comments, view_count |-> views,
                published_at |-> DateRead(category, page, now)]
  /\ UNCHANGED <<task, url, hops>>

Next ==
  \/ Redirect
  \/ RequestFails
  \/ \E canonical \in Links, page \in Pages, now \in Today : ParseFacebook(canonical, page, now)

Spec == Init /\ [][Next]_vars

------------------------------------------------------------------------------
(* Properties. *)

Counts == Nat \cup {NoCount}

TypeOK ==
  /\ hops \in 0..MaxHops
  /\ task.url.host = "www.facebook.com"
  /\ item.status \in {"none", "lost", "enriched"}
  /\ item.status = "enriched" =>
       /\ item.comment_count \in Counts
       /\ item.view_count \in Counts
       /\ item.url_normalized # NoUrl
       /\ item.category \in {"reel", "video", "post", "group", "event", "photo", "page"}

\* Two URLs of one page: hosts the program knows, the same path, and the same
\* parameters but for tracking, each as often, whatever their order.  Nothing is
\* packed in those of the first.
Kept(query) == {i \in DOMAIN query : query[i].key \notin TRACKING_QUERY_PARAMS}

SamePage(u, v) ==
  /\ u.host \in FACEBOOK_HOST_ALIASES /\ v.host \in FACEBOOK_HOST_ALIASES
  /\ u.path = v.path
  /\ \A i \in DOMAIN u.query : u.query[i].layers = 0
  /\ \E same \in Bijection(Kept(u.query), Kept(v.query)) :
       \A i \in Kept(u.query) : u.query[i] = v.query[same[i]]

TwiceEscaped(u) == \E i \in DOMAIN u.query : u.query[i].layers > 1

\* Enriching a record leaves its URL and its category alone, under whatever URL
\* Facebook serves the page.  The search stage must have reached a fixed point of
\* the normalization: of a value that is escaped twice, each one peels a layer.
RecordKeepsItsUrl ==
  (item.status = "enriched" /\ ~TwiceEscaped(task.found)
     /\ SamePage(IF item.canonical = NoUrl THEN url ELSE item.canonical, task.url)) =>
       item.url_normalized = task.url /\ item.category = task.category

\* A mention as a reader understands it: dots group thousands, the comma is decimal.
\* Millions may be one short (see ParseCountToken).
Thousands(unit) == CASE unit = "" -> 1 [] unit = "mil" -> 1000 [] OTHER -> 1000000

AsRead(m) ==
  LET count == (Tenths(m.groups, m.comma) * Thousands(m.unit)) \div 10 IN {count, count - 1}

Legible(text) == \A i \in DOMAIN text : Len(text[i].groups) <= 2 /\ (text[i].unit = "mi" => text[i].gap)

\* What the post itself says: the first element within it that names both counts, or
\* all of it.
OwnText(page) ==
  LET both == {i \in DOMAIN page.inner : NamesBoth(Text(page, page.inner[i]))}
  IN IF both = {} THEN Scope(page) ELSE Text(page, page.inner[Min(both)])

\* Nobody else's counts are on the page.
Alone(page) ==
  /\ page.text = Scope(page)
  /\ \A i \in DOMAIN page.elements :
       NamesBoth(Text(page, page.elements[i])) => Text(page, page.elements[i]) = page.text

\* A post, video, reel, group, event or photo with an element that names its comments
\* and its views gets its own counts, read as they are written, although other posts on
\* the page name theirs before it (tests/test_facebook_enrich_spider.py,
\* test_facebook_enrich_spider_extracts_relative_date_and_scoped_engagement); one whose
\* two counts are in elements of their own gets them when it is alone on the page (..._
\* extracts_additional_video_metadata).  Next to others it need not: then the page
\* is searched, and theirs come first.
OwnCounts ==
  LET page == item.page
      text == OwnText(page)
      own(noun) == text[Min(Found(noun, text))]
  IN (/\ item.status = "enriched" /\ item.category # "page"
      /\ NamesBoth(text) /\ Legible(text)
      /\ (\E i \in DOMAIN page.inner : NamesBoth(Text(page, page.inner[i]))) \/ Alone(page)) =>
     /\ item.view_count \in AsRead(own("visualiza"))
     /\ (page.ownAction = <<>> /\ page.otherAction = <<>>) => item.comment_count \in AsRead(own("coment"))

\* A date without year is the latest such day up to today.  29 February is left out:
\* in the year after a leap year it is not found, and before the day in a leap year
\* it is put into a year that does not have it.
PublishedInThePast ==
  LET label == PublishedAtText(item.page.labels)
      date == item.published_at
      day(y) == (y * 12 + date.month) * 31 + date.day
      today == (item.now.year * 12 + item.now.month) * 31 + item.now.day
  IN (item.status = "enriched" /\ label.kind = "dateNoYear" /\ date # NoDate) =>
       \/ <<date.day, date.month>> = <<29, 2>>
       \/ /\ date.day \in 1..DaysIn(date.month, date.year)
          /\ day(date.year) <= today /\ today < day(date.year + 1)
================================================================================
