\* Two requests at once; titles that want the same slugs; a comment.
SPECIFICATION MCSpec
CONSTANTS
  Users = {u1, u2}
  Titles <- MCTitles
  BaseSlug <- MCBaseSlug
  Requests = {r1, r2}
  MaxRetries = 3
  None = None
  MaxArticles = 2
  MaxComments = 1
  PageSize = 1
SYMMETRY ArticleSymmetry
INVARIANTS
  FeedInv
  LostAttemptsHaveRivals
  SlugFollowsTitle
  PagesCoverTheList
  IInv
PROPERTIES
  OnlyAuthorsWrite
  NothingIsSkipped
CHECK_DEADLOCK FALSE
