---------------------------- MODULE MCReconcile ----------------------------
(* Packages small enough to explore: every pair of registries that treats its *)
(* answers differently, and the declared states that change the verdict.      *)
EXTENDS Reconcile

T(r, s) == [registry |-> r, state |-> s]

MCPackages ==
  { <<T("pypi", "tracked"), T("github-release", "tracked")>>,
    <<T("r-universe", "tracked"), T("r-universe", "manual")>>,
    <<T("cran", "tracked"), T("pages", "tracked")>>,
    <<T("readthedocs", "tracked"), T("pypi", "excluded")>>,
    <<T("pypi", "planned"), T("github-release", "planned")>>,
    <<>> }

=============================================================================
