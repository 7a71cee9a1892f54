--------------------------- MODULE MCPackageFacts ---------------------------
(* Two packages released from one repository, as formats and formats-r are. *)
EXTENDS PackageFacts

TwoPackages == <<"formats", "formats-r">>
OneRepo == [p \in {"formats", "formats-r"} |-> "nirs4all-formats"]
=============================================================================
