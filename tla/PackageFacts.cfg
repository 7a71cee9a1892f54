\* Two packages of one repository, two workflows, three collects in each of
\* which up to three of the fourteen probes go unanswered.
CONSTANTS
  Packages <- TwoPackages
  RepoOf <- OneRepo
  Workflows = {"release.yml", "docs.yml"}
  MaxCollects = 3
  MaxFailures = 3
SPECIFICATION SpecFacts
INVARIANTS IssuesMatchCounters TotalsMatchRows
PROPERTIES WorkflowsAreRemembered CoverageIsKept
CHECK_DEADLOCK FALSE
