----------------------------- MODULE EngagementText -----------------------------
(***************************************************************************)
(* How FacebookEnrichSpider reads counts and dates off the text of a page  *)
(* (src/face/spiders/facebook_enrich.py, from _extract_published_at_text on). *)
(*                                                                         *)
(* A text is a sequence of mentions: "3,4 mil visualizacoes" is a number   *)
(* of two groups with a decimal comma, a unit, and a noun.  Groups after a *)
(* dot have three digits, after a comma one.                               *)
(***************************************************************************)
EXTENDS Integers, Sequences, SequencesExt, FiniteSetsExt

NoCount == -1

\* A mention; "gap" is the space before the unit.
Mentions == [groups : Seq(Nat) \ {<<>>}, comma : BOOLEAN, unit : STRING, gap : BOOLEAN, noun : STRING]

\* The units that COMMENTS_RE and VIEWS_RE know.  Of an accented one (the plural of
\* million as it is spelled) or one with a preposition they do not find the end, and
\* the mention is not found at all.
Units == {"", "mil", "mi", "milhao", "milhoes"}

\* The search finds the last two groups of a longer number.
LastGroups(groups, n) == SubSeq(groups, IF Len(groups) > n THEN Len(groups) - n + 1 ELSE 1, Len(groups))

\* _parse_count_token's multiplier: "mi" is looked for as a word, which it is only
\* after a space.
Multiplier(unit, gap) ==
  CASE unit \in {"milhao", "milhoes"} \/ (unit = "mi" /\ gap) -> 1000000
    [] unit = "mil" -> 1000
    [] OTHER -> 1

\* The digits, in tenths: dots are dropped, the comma is the decimal point.
Tenths(groups, comma) ==
  IF Len(groups) = 1 THEN 10 * groups[1]
  ELSE IF comma THEN 10 * groups[1] + groups[2]
  ELSE 10 * (1000 * groups[1] + groups[2])

\* _parse_count_token: int(float * multiplier) loses one when the product of the
\* decimal number falls short of the integer.
ParseCountToken(groups, comma, unit, gap) ==
  LET count == (Tenths(groups, comma) * Multiplier(unit, gap)) \div 10
  IN IF comma /\ Len(groups) = 2 /\ Multiplier(unit, gap) > 1 /\ count > 0 THEN {count, count - 1} ELSE {count}

\* COMMENTS_RE.search and VIEWS_RE.search: the first mention of the noun.
Found(noun, text) == {i \in DOMAIN text : text[i].noun = noun /\ text[i].unit \in Units}

Search(noun, text) ==
  IF Found(noun, text) = {} THEN {}
  ELSE LET m == text[Min(Found(noun, text))]
       IN ParseCountToken(LastGroups(m.groups, 2), m.comma, m.unit, m.gap)

\* The last of COUNT_TOKEN_RE.findall: pairs of groups are taken from the left, and
\* of a longer unit "mil" or "mi" is taken.
LastToken(text) ==
  IF text = <<>> THEN {}
  ELSE LET m == Last(text)
           pair == Len(m.groups) % 2 = 0
       IN ParseCountToken(LastGroups(m.groups, IF pair THEN 2 ELSE 1), pair /\ m.comma,
                          IF m.unit \in {"milhao", "milhoes", "accented"} THEN "mil"
                          ELSE IF m.unit = "mi de" THEN "mi" ELSE m.unit,
                          m.gap)

\* The first source that gives a count.
FirstOf(sources) ==
  LET some == {i \in DOMAIN sources : sources[i] # {}}
  IN IF some = {} THEN {NoCount} ELSE sources[Min(some)]

------------------------------------------------------------------------------
(* A page: its text, that of its main region, in document order; the primary scope,
   which is the part of the text that the post asked for is in; the inner elements of
   the scope and all elements of the page, outer before inner; the texts at the
   buttons to comment, of the post and of others; the labels with dates.  A part of
   the text is an interval of it.  The labels of an element count as text of it. *)

Text(page, part) == SubSeq(page.text, part[1], part[2])
Scope(page) == Text(page, page.scope)

NamesBoth(text) == Found("coment", text) # {} /\ Found("visualiza", text) # {}
NamesOne(text) == Found("coment", text) # {} \/ Found("visualiza", text) # {}

\* The elements that the three roots are searched for, each without itself: the scope,
\* the main region and the document, whose first element holds everything.
Candidates(page) == page.inner \o page.elements \o <<<<1, Len(page.text)>>>>

Both(page) == {i \in DOMAIN Candidates(page) : NamesBoth(Text(page, Candidates(page)[i]))}

\* Mutant of Engagement: the page before the post.
EngagementOfPage(page) == page.text

\* _extract_engagement_text: the first element with both counts, or else the first
\* root with one of them.
Engagement(page) ==
  IF Both(page) # {} THEN Text(page, Candidates(page)[Min(Both(page))])
  ELSE IF NamesOne(Scope(page)) THEN Scope(page) ELSE page.text

\* _extract_count_from_action_label
ActionCounts(texts) == [i \in DOMAIN texts |-> LastToken(texts[i])]

CommentCount(page) ==
  FirstOf(ActionCounts(page.ownAction) \o ActionCounts(page.otherAction)
          \o <<Search("coment", Engagement(page)), Search("coment", Scope(page)),
               Search("coment", page.text)>>)

ViewCount(page) ==
  FirstOf(<<Search("visualiza", Engagement(page)), Search("visualiza", Scope(page)),
            Search("visualiza", page.text)>>)

------------------------------------------------------------------------------
(* Dates.  A label is a date with or without year, a relative time, a timestamp of the
   page's metadata, or text with a number that reads like one. *)

NoDate == [kind |-> "none"]

\* The month names that [a-z]+ can match, out of those PT_BR_MONTHS has: with its
\* cedilla, March is cut short before it and not found.
Months == [fevereiro |-> 2, marco |-> 3, abril |-> 4, outubro |-> 10]

Leap(year) == year % 4 = 0 /\ (year % 100 # 0 \/ year % 400 = 0)

DaysIn(month, year) ==
  CASE month = 2 -> IF Leap(year) THEN 29 ELSE 28
    [] month \in {4, 6, 9, 11} -> 30
    [] OTHER -> 31

Later(month, day, now) == month > now.month \/ (month = now.month /\ day > now.day)

\* Mutant of InLatestYear: a day that is still to come stays in this year.
InThisYear(day, month, now) ==
  IF day \notin 1..DaysIn(month, now.year) THEN NoDate
  ELSE [kind |-> "date", day |-> day, month |-> month, year |-> now.year]

\* A date without year: the day must exist this year, and is of the year before if it
\* is still to come.
InLatestYear(day, month, now) ==
  IF day \notin 1..DaysIn(month, now.year) THEN NoDate
  ELSE [kind |-> "date", day |-> day, month |-> month,
        year |-> IF Later(month, day, now) THEN now.year - 1 ELSE now.year]

\* RELATIVE_TIME_RE's first alternative is "m": minutes, and whatever else starts so.
Minutes(unit) ==
  CASE unit \in {"m", "min", "meses", "mil"} -> 1
    [] unit = "h" -> 60
    [] unit \in {"d", "dias"} -> 1440
    [] unit \in {"sem", "semanas"} -> 10080

\* _parse_published_at
ParsePublishedAt(label, now) ==
  CASE label.kind \in {"date", "dateNoYear"} /\ label.month \notin DOMAIN Months -> NoDate
    [] label.kind = "date" /\ label.month \in DOMAIN Months ->
         [kind |-> "date", day |-> label.day, month |-> Months[label.month], year |-> label.year]
    [] label.kind = "dateNoYear" /\ label.month \in DOMAIN Months ->
         InLatestYear(label.day, Months[label.month], now)
    [] label.kind = "relative" -> [kind |-> "ago", minutes |-> label.value * Minutes(label.unit)]
    [] OTHER -> NoDate

\* _extract_published_at_text: the metadata's timestamp as it is, or the first label
\* that one of the expressions finds something in.
PublishedAtText(labels) ==
  LET dated == {i \in DOMAIN labels : labels[i].kind # "text"}
      stamps == {i \in dated : labels[i].kind = "timestamp"}
  IN IF stamps # {} THEN labels[Min(stamps)]
     ELSE IF dated # {} THEN labels[Min(dated)] ELSE [kind |-> "text"]
================================================================================
