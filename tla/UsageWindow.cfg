SPECIFICATION ViewsSpec
CONSTANTS
  Choices = {ca, cb}
  Texts = {ta, tb}
  Pages = {0, 1}
  Unset = Unset
  MaxAsked = 5
  MaxRefreshes = 1
INVARIANT MatrixIsOfTheSelectedWindow
CHECK_DEADLOCK FALSE
