SPECIFICATION Spec
CONSTANTS
  CharBits = 2
  IntBits = 4
  LongBits = 6
  Starts <- AllStarts
  Comparisons <- AllComparisons
  Casts <- GoodCasts
  Union <- rl_union
  Without <- rl_filter
  Meet <- rl_intersection
  Convert <- cast_rl
  ConvertBack <- rl_truncate_cast
  Whole <- alloc_whole_rl
  Split <- split_comparison_rl
  Limited <- filter_by_comparison_call
  PossiblyTrue <- possibly_true_rl
  PossiblyFalse <- possibly_false_rl
  Binop <- rl_binop
  BinopHelper <- rl_binop_helper
INVARIANTS
  Canonical
  Sound
  Exact
  Bounded
  ComparisonsRight
CHECK_DEADLOCK FALSE
