----------------------------- MODULE MCOperation -----------------------------
(***************************************************************************)
(* Operation for TLC, over a part of TravelGraph's schema and requests     *)
(* like those of its clients, load tests and planner tests, beside forms   *)
(* that the planner does not expect.                                       *)
(***************************************************************************)
EXTENDS Operation

MCNames == {"__typename", "__schema", "id", "name", "rating", "price", "reviews", "comment", "amount",
            "status", "searchProperties", "property", "me", "createBooking", "cancelBooking"}
MCTypes == {"Property", "User", "Review", "Price", "Booking"}
MCRoots == {"searchProperties", "property", "me", "price", "createBooking", "cancelBooking"}
MCMutationRoots == {"createBooking", "cancelBooking"}
MCSubgraphs == {"property", "pricing", "review", "user", "booking"}

Join(graph, key, extension) == [graph |-> graph, key |-> key, extension |-> extension]
MCJoinType ==
  [t \in MCTypes |->
     CASE t = "Property" -> <<Join("property", "id", FALSE), Join("pricing", "id", TRUE),
                              Join("review", "id", TRUE)>>
       [] t = "User" -> <<Join("user", "id", FALSE)>>
       [] t = "Review" -> <<Join("review", None, FALSE)>>
       [] t = "Price" -> <<Join("pricing", None, FALSE)>>
       [] t = "Booking" -> <<Join("booking", "id", FALSE)>>]
MCJoinField ==
  [t \in MCTypes |->
     CASE t = "Property" -> [n \in {"id", "name", "rating", "price", "reviews"} |->
                               CASE n = "price" -> <<"pricing">> [] n = "reviews" -> <<"review">>
                                 [] OTHER -> <<>>]
       [] t = "User" -> [n \in {"id", "name"} |-> <<>>]
       [] t = "Review" -> [n \in {"id", "rating", "comment"} |-> <<>>]
       [] t = "Price" -> [n \in {"amount"} |-> <<>>]
       [] t = "Booking" -> [n \in {"id", "status"} |-> <<>>]]
MCJoinRoot ==
  [r \in MCRoots |->
     CASE r \in {"searchProperties", "property"} -> <<"property">> [] r = "me" -> <<"user">>
       [] r = "price" -> <<"pricing">> [] OTHER -> <<"booking">>]

MCVariables == {"$id", "$dates", "$representations"}
MCMisquoted == "'a\\nb'" :> "'a<newline>b'"
MCMisread == ("{o" :> Open) @@ ("}o" :> Close) @@ ("'$id'" :> "$id") @@ ("'}'" :> Close)
MCCosts == ("price" :> <<2, 9>>) @@ ("me" :> <<-1>>) @@ ("createBooking" :> <<None, 5>>)

-----------------------------------------------------------------------------
(* Selections and requests *)

Leaf(n) == [kind |-> "field", key |-> n, name |-> n, args |-> <<>>, directives |-> <<>>,
            below |-> <<>>]
Node(n, args, below) == [Leaf(n) EXCEPT !.args = args, !.below = below]
As(key, s) == [s EXCEPT !.key = key]
Inline(t, below) == [Leaf(t) EXCEPT !.kind = "inline", !.below = below]
Given(condition, s) == [s EXCEPT !.directives = condition]
Spread(n) == [Leaf(n) EXCEPT !.kind = "spread"]

Op(kind, name, declared, roots) ==
  [kind |-> kind, name |-> name, declared |-> declared, roots |-> roots]
Query(roots) == Op("query", None, {"$id"}, roots)
Req(ops, asked) == [ops |-> ops, fragments |-> ("...F" :> {"$id"}), asked |-> asked, values |-> {"$id"}]

details == Node("property", <<"$id">>, <<Leaf("id"), Leaf("name"), Node("price", <<>>, <<Leaf("amount")>>),
                                         Node("reviews", <<"1">>, <<Leaf("id"), Leaf("comment")>>)>>)
search == Node("searchProperties", <<"'Austin'">>, <<Leaf("id"), Node("price", <<>>, <<Leaf("amount")>>)>>)
short == Node("searchProperties", <<"{o", "$id", "}o">>, <<Leaf("name"), Leaf("rating")>>)
quote == Node("price", <<"$id", "$dates">>, <<Leaf("amount")>>)
viewer == Node("me", <<>>, <<Leaf("id"), Leaf("name")>>)
deep == Node("property", <<"$id">>, <<Leaf("name"), Inline("Property",
  <<Node("reviews", <<>>, <<Inline("Review", <<Leaf("id")>>)>>)>>)>>)
levels == Node("property", <<"$id">>, <<Leaf("name"), Node("reviews", <<>>, <<Node("comment", <<>>, <<Leaf("status")>>)>>)>>)
hidden == Node("property", <<"$id">>, Tail(deep.below))
scaled == Node("property", <<"$id">>, <<Leaf("name"), Node("rating", <<"$dates">>, <<>>)>>)
book == Node("createBooking", <<"{o", "$id", "}o">>, <<Leaf("id"), Leaf("status")>>)
cancel == Node("cancelBooking", <<"$id">>, <<>>)
bare == Node("price", <<"$id">>, <<Inline(Dots, <<Leaf("amount")>>)>>)
split == Node("cancelBooking", <<"'a\\nb'">>, <<>>)
optional == Node("price", <<>>, <<Given(<<"@include", "$id">>, Leaf("amount"))>>)
typed == Node("price", <<"$id">>, <<Inline("Price", <<Leaf("amount")>>)>>)

MCRequests ==
  {Req(<<Op("query", "D", {"$id"}, <<details>>)>>, None),
   Req(<<Op("query", "D", {"$id"}, <<details>>), Op("query", "S", {}, <<As("property", search)>>)>>, "S"),
   Req(<<Op("query", "S", {}, <<search>>), Op("query", "Deep", {"$id"}, <<deep>>)>>, "Deep"),
   Req(<<Op("query", "S", {}, <<search>>), Op("query", "D", {"$id"}, <<details>>)>>, None),
   Req(<<Op("query", "V", {}, <<viewer>>),
         Op("query", "Many", {}, <<search, As("name", search), As("rating", search)>>)>>, "Many"),
   Req(<<Op("query", None, {"$id", "$dates"}, <<quote, viewer, Leaf("__schema"), short>>)>>, None),
   Req(<<Query(<<levels>>)>>, None),
   Req(<<Query(<<details, As("property", Node("__schema", <<>>, <<Leaf("rating")>>))>>)>>, None),
   Req(<<Query(<<typed>>)>>, None), Req(<<Query(<<bare>>)>>, None),
   Req(<<Query(<<optional>>)>>, None), Req(<<Op("query", None, {}, <<optional>>)>>, None),
   Req(<<Op("mutation", None, {}, <<split>>)>>, None),
   Req(<<Query(<<deep>>)>>, None), Req(<<Query(<<hidden>>)>>, None),
   Req(<<Op("query", None, {"$id", "$dates"}, <<scaled>>)>>, None),
   Req(<<Query(<<search, As("name", search), As("rating", search)>>)>>, None),
   Req(<<Query(<<search, As("name", short)>>)>>, None),
   Req(<<Op("mutation", None, {"$id"}, <<book, cancel>>)>>, None),
   Req(<<Op("mutation", "C", {"$id"}, <<cancel>>)>>, "C"),
   Req(<<Op("subscription", None, {}, <<viewer>>)>>, None),
   Req(<<Op("query", None, {}, <<quote>>)>>, None),
   Req(<<Query(<<Leaf("__schema")>>)>>, None), Req(<<Query(<<Leaf("status")>>)>>, None),
   Req(<<>>, None), Req(<<Query(<<viewer>>)>>, "V"),
   Req(<<Query(<<Node("me", <<>>, <<Leaf("id"), Spread("...F")>>), Spread("...F")>>)>>, None),
   Req(<<Query(<<Node("price", <<"'$id'">>, <<Spread("...F")>>)>>)>>, None),
   Req(<<Query(<<Node("property", <<"'}'">>, <<Node("reviews", <<"$id">>, <<Leaf("id")>>)>>)>>)>>, None)}

\* The load tests send the name of every operation they send.
MCLoadTests == {Req(<<Op("query", "PropertyDetails", {"$id"}, <<details>>)>>, "PropertyDetails")}

-----------------------------------------------------------------------------
(* The selections of these requests *)

RECURSIVE Below(_)
Below(sels) == Range(sels) \cup UNION {Below(s.below) : s \in Range(sels)}
RECURSIVE HeightOf(_)
HeightOf(s) == IF s.below = <<>> THEN 0 ELSE 1 + Max({HeightOf(c) : c \in Range(s.below)})

MCSelections ==
  UNION {Below(op.roots) : op \in UNION {Range(req.ops) : req \in MCRequests \cup MCLoadTests}}
MCHeight == [s \in MCSelections |-> HeightOf(s)]

=============================================================================
