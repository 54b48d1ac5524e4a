-------------------------- MODULE MCFederatedQuery --------------------------
(***************************************************************************)
(* FederatedQuery for TLC, over a part of TravelGraph's own schema:        *)
(* Property, owned by the property subgraph and extended by pricing and    *)
(* review; User; and the types Review and Price, which have no key.        *)
(***************************************************************************)
EXTENDS FederatedQuery

CONSTANTS
  name, rating, price, reviews, comment, amount, title,      \* names
  PropertyType, UserType, ReviewType, PriceType,             \* types
  search, me, reviewsOf, quote,                              \* root fields
  property, pricing, review, user,                           \* subgraphs
  p1, p2, u1, r1, c1,                                            \* entities
  f1, f2

Join(graph, key, extension) == [graph |-> graph, key |-> key, extension |-> extension]

MCJoinType ==
  [t \in Types |->
     CASE t = PropertyType -> <<Join(property, Id, FALSE), Join(pricing, Id, TRUE),
                                Join(review, Id, TRUE)>>
       [] t = UserType -> <<Join(user, Id, FALSE)>>
       [] t = ReviewType -> <<Join(review, None, FALSE)>>
       [] t = PriceType -> <<Join(pricing, None, FALSE)>>]

MCJoinField ==
  [t \in Types |->
     CASE t = PropertyType ->
            [n \in {Id, name, rating, price, reviews} |->
               CASE n = Id -> <<>> [] n = price -> <<pricing>>
                 [] n = reviews -> <<review>> [] OTHER -> <<property>>]
       [] t = UserType -> [n \in {Id, name} |-> <<>>]
       [] t = ReviewType -> [n \in {Id, rating, comment} |-> <<>>]
       [] t = PriceType -> [n \in {amount} |-> <<>>]]

MCJoinRoot ==
  [r \in Roots |->
     CASE r = search -> <<property>> [] r = me -> <<user>> [] r = reviewsOf -> <<review>>
       [] r = quote -> <<pricing>>]

MCReturnType ==
  [r \in Roots |->
     CASE r = search -> PropertyType [] r = me -> UserType [] r = reviewsOf -> ReviewType
       [] r = quote -> PriceType]

MCEntities ==
  [t \in Types |->
     CASE t = PropertyType -> {p1, p2} [] t = UserType -> {u1}
       [] t = ReviewType -> {r1} [] t = PriceType -> {c1}]

MCResults ==
  [r \in Roots |->
     CASE r = search -> {<<>>, <<Null, p1, p2>>, <<p2>>}
       [] r = me -> {<<u1>>, <<Null>>}
       [] r = reviewsOf -> {<<r1>>}
       [] r = quote -> {<<c1>>}]

Plain(n) == [key |-> n, name |-> n, below |-> {}, inline |-> FALSE]
With(n, below) == [Plain(n) EXCEPT !.below = below]
Ask(root, sub) == [root |-> root, sub |-> sub]

\* A search that asks for the key, one that does not, and one in the forms that the
\* planner loses; beside it a user, whose names are those of a property too, or
\* reviews, which have no key, or a quote, which has no id at all.
full == Ask(search, {Plain(Id), [Plain(name) EXCEPT !.key = title],
                     With(price, {amount}), With(reviews, {Id, rating})})
bare == Ask(search, {With(price, {amount}), With(reviews, {rating}), Plain(rating)})
odd == Ask(search, {Plain(Typename), [Plain(Id) EXCEPT !.key = title],
                    [Plain(name) EXCEPT !.inline = TRUE], With(reviews, {Id, Typename})})

MCQueries ==
  {[f \in Fields |-> IF f = f1 THEN first ELSE second] :
     first \in {full, bare, odd},
     second \in {Ask(me, {Plain(Id), Plain(name)}), Ask(quote, {Plain(amount)}),
                 Ask(reviewsOf, {Plain(Id), Plain(comment)})}}

LiveSpec == Spec /\ Fairness

=============================================================================
