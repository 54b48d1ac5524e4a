SPECIFICATION LiveSpec
CONSTANTS
  name = name
  rating = rating
  price = price
  reviews = reviews
  comment = comment
  amount = amount
  title = title
  PropertyType = PropertyType
  UserType = UserType
  ReviewType = ReviewType
  PriceType = PriceType
  search = search
  me = me
  reviewsOf = reviewsOf
  quote = quote
  property = property
  pricing = pricing
  review = review
  user = user
  p1 = p1
  p2 = p2
  u1 = u1
  r1 = r1
  c1 = c1
  f1 = f1
  f2 = f2
  Typename = Typename
  Id = Id
  None = None
  Null = Null
  Pending = Pending
  Failed = Failed
  Nothing = Nothing
  Names = {Typename, Id, name, rating, price, reviews, comment, amount, title}
  Types = {PropertyType, UserType, ReviewType, PriceType}
  Roots = {search, me, reviewsOf, quote}
  Subgraphs = {property, pricing, review, user}
  JoinType <- MCJoinType
  JoinField <- MCJoinField
  JoinRoot <- MCJoinRoot
  Fields = {f1, f2}
  Queries <- MCQueries
  ReturnType <- MCReturnType
  Entities <- MCEntities
  Results <- MCResults
INVARIANTS
  TypeOK
  OwnFields
  AnswersSelection
  LossesReported
PROPERTIES
  EveryQueryAnswered
CHECK_DEADLOCK FALSE
