------------------------- MODULE MCFacebookEnrichSpider -------------------------
(* An instance of FacebookEnrichSpider: URLs of a post, a video and a login page that
   returns to one, and pages with one other post. *)
EXTENDS FacebookEnrichSpider

Url(host, path, query) == [host |-> host, path |-> path, slash |-> FALSE, query |-> query]

\* A value with a parameter packed into it under so many layers.
Packed(layers) == [key |-> "next", value |-> 1, packed |-> <<"id", 2>>, layers |-> layers]

MCResults ==
  {Url(host, <<"foo", "posts", "1">>, <<>>) : host \in {"m.facebook.com", "www.facebook.com", "pt-br.facebook.com"}}
  \cup {Url("www.facebook.com", <<"watch">>, q) :
          q \in {<<Plain("v", 1), Plain("id", 2), Plain("v", 1)>>,
                <<Plain("ref", 1), Plain("v", 2), Plain("v", 1)>>}}
  \cup {Url("www.facebook.com", <<"login">>, <<Plain("v", 1), Packed(n)>>) : n \in 1..3}

MCLinks ==
  {NoUrl,
   Url("m.facebook.com", <<"foo", "posts", "1">>, <<Plain("__cft__", 1)>>),
   Url("www.facebook.com", <<"watch">>, <<Plain("v", 1), Plain("id", 2)>>),
   Url("m.facebook.com", <<"watch">>, <<Plain("v", 1), Plain("v", 1), Plain("ref", 1), Plain("id", 2)>>),
   Url("www.facebook.com", <<"bar", "videos", "2">>, <<>>),
   Url("pt-br.facebook.com", <<"foo", "posts", "1">>, <<>>)}

Mention(groups, comma, unit, noun) ==
  [groups |-> groups, comma |-> comma, unit |-> unit, gap |-> TRUE, noun |-> noun]

Comments == Mention(<<217>>, FALSE, "", "coment")

\* The other posts, then the one asked for, whose counts are in one element within it
\* (together) or in one each.
Page(others, own, together, action, labels) ==
  LET n == Len(others)
      scope == <<n + 1, n + Len(own)>>
      inner == IF together THEN <<scope>> ELSE [i \in DOMAIN own |-> <<n + i, n + i>>]
  IN [text |-> others \o own, scope |-> scope, inner |-> inner,
      elements |-> <<<<1, n>>, scope>> \o inner,
      ownAction |-> action, otherAction |-> <<>>, labels |-> labels]

\* The views of the post, as Facebook writes them.
Views ==
  {Mention(g, FALSE, u, "visualiza") : g \in {<<11>>, <<1, 234>>, <<1, 2, 3>>}, u \in {"", "mil"}}
  \cup {Mention(<<3, 4>>, TRUE, u, "visualiza") : u \in {"mil", "mi", "milhoes", "accented", "mi de"}}
  \cup {[Mention(<<12>>, FALSE, "mi", "visualiza") EXCEPT !.gap = FALSE]}

Hundreds == Mention(<<11>>, FALSE, "mil", "visualiza")
Others == <<Mention(<<999>>, FALSE, "", "coment"), Mention(<<200>>, FALSE, "mil", "visualiza")>>

Actions == {<<>>, <<<<>>, <<Mention(<<7, 9>>, TRUE, "mil", "none")>>>>,
            <<<<Mention(<<12>>, FALSE, "milhoes", "none")>>>>}

Count == [kind |-> "relative", value |-> 4, unit |-> "mil"]
Labels ==
  {<<[kind |-> "text"], [kind |-> "dateNoYear", day |-> d, month |-> m]>> :
     d \in {1, 7, 29, 31}, m \in {"fevereiro", "marco", "cedilla", "outubro"}}
  \cup {<<[kind |-> "date", day |-> 7, month |-> "outubro", year |-> 2021]>>,
        <<[kind |-> "relative", value |-> 5, unit |-> "d"]>>, <<Count>>,
        <<[kind |-> "timestamp"]>>, <<>>}

MCPages ==
  {Page(o, <<Comments, v>>, TRUE, <<>>, <<>>) : o \in {<<>>, Others}, v \in Views}
  \cup {Page(o, <<Comments, Hundreds>>, FALSE, <<>>, <<>>) : o \in {<<>>, Others}}
  \cup {Page(o, <<Comments, Hundreds>>, TRUE, a, <<>>) : o \in {<<>>, Others}, a \in Actions}
  \cup {Page(Others, own, TRUE, <<>>, <<>>) : own \in {<<>>, <<Comments>>}}
  \cup {Page(<<>>, <<>>, TRUE, <<>>, l) : l \in Labels}

Date(day, month, year) == [day |-> day, month |-> month, year |-> year]
MCToday == {Date(10, 1, 2028), Date(7, 10, 2026), Date(31, 12, 2027)}
================================================================================
