CONSTANTS
  Graphs = {g1, g2, bad}
  ValidGraphs = {g1, g2}
  Publishers = {p1, p2}
  Starters = {s1, s2}
  Keys = {k1, k2}
  BusinessKeys = {b1, b2}
  MaxVersion = 3
SPECIFICATION Spec
SYMMETRY Symmetry
INVARIANT PublishedAsReviewed
INVARIANT RowShowsRevision
INVARIANT InstanceRunsPublished
